------------------------------ MODULE Planning ------------------------------
(***************************************************************************)
(* The planning of one project: rescheduling and PERT over the same graph,  *)
(* and what they promise.                                                   *)
(***************************************************************************)
EXTENDS Pert

Handler == [op : {"none", "reschedule", "baseline", "pert"},
            pc : {"idle", "propagate", "commit", "walk"}, task : Task \cup {Null},
            dates : {<<>>} \cup [Task -> DateRow], listing : Seq(Task),
            queue : Seq(Task), guard : 0..MaxIterations, changed : SUBSET Task,
            prev : {<<>>} \cup [top -> Task \cup {Null}], cut : BOOLEAN, stale : BOOLEAN]

\* Types of the tables and of the handlers' local state.
TypeOK ==
  /\ top \in SUBSET Task
  /\ dates \in [Task -> DateRow]
  /\ baseline \in [Task -> DateRow]
  /\ lag \in [Edges -> Int]
  /\ Edges \subseteq Task \X Task
  /\ req \in [Request -> Handler]
  /\ clean \in BOOLEAN

Init ==
  /\ \E p \in Plans :
       /\ top = p.top
       /\ dates = p.dates
       /\ lag = p.lag
       /\ estimate = p.estimate
       /\ client = p.client
       /\ budget = p.budget
  /\ baseline = [t \in Task |-> NoDates]
  /\ req = [r \in Request |-> Resting]
  /\ clean = (Conflicts(dates) = {})

Next ==
  \E r \in Request :
    \/ BeginRescheduleTask(r)
    \/ Propagate(r)
    \/ PropagateEnds(r)
    \/ RescheduleTask(r)
    \/ BeginSetBaseline(r)
    \/ SetBaseline(r)
    \/ BeginGetPertData(r)
    \/ WalkBack(r)
    \/ GetPertData(r)
    \/ Abort(r)

Spec == Init /\ [][Next]_vars

-----------------------------------------------------------------------------
Acyclic ==
  ~ \E S \in SUBSET Task : S # {} /\ \A x \in S : \E y \in S : <<x, y>> \in Edges

Commits(r) == At(r, "reschedule", "commit") /\ req'[r] = Resting /\ dates' # dates

\* rescheduleTask: a commit leaves no dependency in conflict, except those that were
\* before and whose blocking task it does not move, and those into the task that the
\* user placed, whose blockers the cascade left alone.  Unless another reschedule
\* committed meanwhile, or the bound cut the propagation.
NoNewConflict ==
  [][\A r \in Request : Commits(r) /\ ~req[r].stale /\ ~req[r].cut =>
       \A e \in Conflicts(dates)' :
         \/ e \in Conflicts(dates) /\ e[1] \notin Moved(req[r])
         \/ e[2] = req[r].task /\ e[1] \notin req[r].changed]_vars

\* rescheduleTask: the cascade moves a task only later, keeps its duration, and
\* stops at the end of one of its blockers plus the lag.
LeastPush ==
  [][\A r \in Request : Commits(r) /\ ~req[r].stale /\ ~req[r].cut =>
       \A t \in Task \ {req[r].task} : dates'[t] # dates[t] =>
         /\ dates'[t].start > dates[t].start
         /\ Duration(dates'[t]) = Duration(dates[t])
         /\ \E e \in Edges : /\ e[2] = t
                             /\ dates'[e[1]].end # Null
                             /\ dates'[t].start = dates'[e[1]].end + lag[e]]_vars

\* setBaseline: as long as no commit has left a conflict, the reference has none: all its
\* dates are of one plan.  Unless two that overlap read different plans, and the one that
\* writes last lacks a task of the other: that task keeps the dates of the other plan.
BaselineHonoursDependencies == clean => Conflicts(baseline) = {}

-----------------------------------------------------------------------------
Answered(r) == At(r, "pert", "walk") /\ req[r].task = Null
Expected == [t \in top |-> ExpectedDays(t)]

\* computeFloats, without a cycle: the slack of a task is what it may be late
\* without moving the end of the project, and not a day more.
SlackIsDelay ==
  Acyclic => \A r \in Request : Answered(r) =>
    LET slack == Slack(req[r].listing, Expected)
        EndWith(t, n) == End(req[r].listing, [Expected EXCEPT ![t] = @ + n])
    IN \A t \in top : /\ EndWith(t, slack[t]) = EndWith(t, 0)
                       /\ EndWith(t, slack[t] + 1) > EndWith(t, 0)

\* computeCriticalPath, without a cycle: a chain of dependencies without slack whose
\* durations add up to the whole project.
CriticalPathSpansProject ==
  Acyclic => \A r \in Request : Answered(r) =>
    LET path == req[r].queue IN
    /\ \A i \in 1..(Len(path) - 1) : <<path[i], path[i + 1]>> \in Edges
    /\ \A i \in 1..Len(path) : Slack(req[r].listing, Expected)[path[i]] = 0
    /\ SumFunction([i \in 1..Len(path) |-> Expected[path[i]]]) = End(req[r].listing, Expected)

\* What the comments of both services say of a graph with a cycle (computeFloats,
\* propagate): the work stays bounded.  The critical path names each task at most once.
PertAnswers == \A r \in Request : At(r, "pert", "walk") => Len(req[r].queue) <= Cardinality(Task)
=============================================================================
