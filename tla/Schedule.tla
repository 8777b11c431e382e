------------------------------ MODULE Schedule ------------------------------
(***************************************************************************)
(* ScheduleService: rescheduling a task of a project with propagation to    *)
(* the tasks it blocks, and the planning reference (baseline).              *)
(*                                                                          *)
(* Dates are whole days.  A handler keeps its own copy of the dates while   *)
(* it propagates; only the transaction at its end writes the table.         *)
(***************************************************************************)
EXTENDS Integers, FiniteSets, SequencesExt

CONSTANTS Task,     \* the tasks of the project
          Request,  \* slots for handlers in flight
          Null,     \* SQL NULL
          Day,      \* days a request may name
          Listing,  \* orders in which the database may list some of the tasks
          Plans     \* projects to start from, each with what its clients call

ASSUME NullIsNoDay == Null \notin Int
ASSUME NullIsNoTask == Null \notin Task
ASSUME DayAssumption == Day \subseteq Int
ASSUME ListingAssumption ==
  Listing \subseteq {l \in Seq(Task) : Len(l) = Cardinality(ToSet(l))}
ASSUME TaskAssumption == IsFiniteSet(Task)

DateRow == [start : Int \cup {Null}, end : Int \cup {Null}]
ASSUME PlansAssumption ==
  \A p \in Plans : /\ p.top \subseteq Task
                   /\ p.estimate \in [Task -> {Null} \cup (Nat \X Nat \X Nat)]
                   /\ p.dates \in [Task -> DateRow]
                   /\ DOMAIN p.lag \subseteq Task \X Task
                   /\ p.lag \in [DOMAIN p.lag -> Int]

VARIABLES top,       \* the tasks without a parent
          dates,     \* Task.startDate, Task.endDate
          baseline,  \* Task.baselineStart, Task.baselineEnd
          lag,       \* table TaskDependency: lagDays of each pair <<blocking, blocked>>
          estimate,  \* optimisticDays, probableDays, pessimisticDays
          client,    \* operations the clients of this project call
          budget,    \* bound: requests these clients may still send
          req,       \* handlers in flight
          clean      \* history: no commit has left a dependency in conflict so far, and no
                     \* reference kept dates of tasks that were not planned when it was read

rows == <<top, dates, baseline, lag, estimate, client>>
vars == <<top, dates, baseline, lag, estimate, client, budget, req, clean>>

Edges == DOMAIN lag
NoDates == [start |-> Null, end |-> Null]
Planned(d) == d.start # Null /\ d.end # Null
Duration(d) == d.end - d.start

Resting == [op |-> "none", pc |-> "idle", task |-> Null, dates |-> <<>>,
            listing |-> <<>>, queue |-> <<>>, guard |-> 0, changed |-> {},
            prev |-> <<>>, cut |-> FALSE, stale |-> FALSE]

At(r, op, pc) == req[r].op = op /\ req[r].pc = pc
Serves(r, op) == op \in client /\ budget > 0 /\ req[r] = Resting
Accept(r, handler) ==
  /\ budget' = budget - 1
  /\ req' = [req EXCEPT ![r] = handler]
Finish(r) == req' = [req EXCEPT ![r] = Resting]
\* A commit that changes dates makes what the other handlers have read stale.
Commit(r) ==
  req' = [q \in Request |->
    IF q = r \/ req[q] = Resting THEN Resting ELSE [req[q] EXCEPT !.stale = TRUE]]

-----------------------------------------------------------------------------
\* Dependency e is violated by the dates D: the blocked task starts before the end
\* of the blocking one plus the lag.
InConflict(e, D) ==
  /\ D[e[1]].end # Null
  /\ Planned(D[e[2]])
  /\ D[e[2]].start < D[e[1]].end + lag[e]

Conflicts(D) == {e \in Edges : InConflict(e, D)}

\* Where a push of the task behind e puts it.
Shifted(e, D) ==
  [start |-> D[e[1]].end + lag[e],
   end |-> D[e[1]].end + lag[e] + Duration(D[e[2]])]

MaxIterations == 4 * Cardinality(Edges) + Cardinality(Task) + 10

BeginRescheduleTask(r) ==
  /\ Serves(r, "reschedule")
  /\ \E t \in Task, s, e \in Day :
       /\ s <= e
       /\ Accept(r, [Resting EXCEPT
            !.op = "reschedule", !.pc = "propagate", !.task = t,
            !.dates = [dates EXCEPT ![t] = [start |-> s, end |-> e]],
            !.queue = <<t>>])
  /\ UNCHANGED <<rows, clean>>

\* The tasks that the head of the queue pushes.
Pushed(h) ==
  {t \in Task : <<Head(h.queue), t>> \in Edges
                /\ InConflict(<<Head(h.queue), t>>, h.dates)}

\* A task pushed again is visited again: only then does its last push propagate.  The
\* dependencies come from the database in any order.
Requeued_Once(h, pushed) == SetToSeqs(pushed \ h.changed)
Requeued(h, pushed) == SetToSeqs(pushed)

\* One turn of the while loop.
Propagate(r) ==
  LET h == req[r]
      pushed == Pushed(h)
  IN
  /\ At(r, "reschedule", "propagate")
  /\ h.queue # <<>>
  /\ h.guard < MaxIterations
  /\ \E next \in Requeued(h, pushed) :
       req' = [req EXCEPT ![r] =
         [h EXCEPT !.guard = @ + 1,
                   !.dates = [t \in Task |->
                     IF t \in pushed THEN Shifted(<<Head(h.queue), t>>, h.dates) ELSE @[t]],
                   !.changed = @ \cup pushed,
                   !.queue = Tail(@) \o next]]
  /\ UNCHANGED <<rows, budget, clean>>

\* The queue is empty, or the bound on the turns cuts the propagation.
PropagateEnds(r) ==
  LET h == req[r] IN
  /\ At(r, "reschedule", "propagate")
  /\ h.queue = <<>> \/ h.guard = MaxIterations
  /\ req' = [req EXCEPT ![r] = [h EXCEPT !.pc = "commit", !.queue = <<>>,
                                         !.cut = h.queue # <<>>]]
  /\ UNCHANGED <<rows, budget, clean>>

Moved(h) == h.changed \cup {h.task}

RescheduleTask(r) ==
  LET h == req[r] IN
  /\ At(r, "reschedule", "commit")
  /\ dates' = [t \in Task |-> IF t \in Moved(h) THEN h.dates[t] ELSE dates[t]]
  /\ clean' = (clean /\ Conflicts(dates') = {})
  /\ Commit(r)
  /\ UNCHANGED <<top, baseline, lag, estimate, client, budget>>

-----------------------------------------------------------------------------
BeginSetBaseline(r) ==
  /\ Serves(r, "baseline")
  /\ Accept(r, [Resting EXCEPT !.op = "baseline", !.pc = "commit", !.dates = dates])
  /\ UNCHANGED <<rows, clean>>

\* The reference of task t after the transaction that writes the dates D.
Reference(D, t) == IF Planned(D[t]) THEN D[t] ELSE baseline[t]

SetBaseline(r) ==
  LET D == req[r].dates IN
  /\ At(r, "baseline", "commit")
  /\ baseline' = [t \in Task |-> Reference(D, t)]
  /\ clean' = (clean /\ \A t \in Task : Planned(D[t]) \/ baseline[t] = NoDates)
  /\ Finish(r)
  /\ UNCHANGED <<top, dates, lag, estimate, client, budget>>

\* A failed query, or a restart: nothing was written yet.
Abort(r) ==
  /\ req[r] # Resting
  /\ Finish(r)
  /\ UNCHANGED <<rows, budget, clean>>
=============================================================================
