----------------------------- MODULE Iterations -----------------------------
(***************************************************************************)
(* What divides the time of one project: SprintService, PhaseService,       *)
(* MilestoneService and ProjectIssueService over their rows, and the curve  *)
(* BurndownService draws from the tasks of a sprint.                        *)
(***************************************************************************)
EXTENDS Naturals, FiniteSets, Functions

CONSTANTS Sprint, Phase, Milestone, Issue,
          Task,     \* top-level tasks of the project; sub-tasks, which the list of sprints
                    \* counts and the burndown does not, are left out
          Points,   \* [Task -> Nat], storyPoints, 0 for none
          Request,  \* slots for handlers in flight
          Null,
          LastDay,  \* bound: days are 0..LastDay
          Profile   \* instances: each a set of operations the clients call

Period == Sprint \cup Phase
Mark == Milestone \cup Issue
Calendar == 0..LastDay

VARIABLES period,   \* tables Sprint and Phase
          mark,     \* tables Milestone and ProjectIssue
          task,     \* table Task: the sprint and the day of completion
          today,
          evening,  \* history: what was left of each sprint the evening of a past day
          req,      \* handlers in flight
          calls     \* operations the clients of this instance call

vars == <<period, mark, task, today, evening, req, calls>>
rows == <<period, mark, task, today, evening, calls>>

SprintStatus == {"PLANNED", "ACTIVE", "COMPLETED"}
PeriodRow == [row : {"none", "live", "deleted"}, start : Calendar, end : Calendar,
              status : SprintStatus]
\* "met" is reached of a milestone, status RESOLVED of an issue; "at" is reachedAt,
\* resolvedAt.  History: "raced" when a write of it was computed from a stale read.
MarkRow == [met : BOOLEAN, at : Calendar \cup {Null}, raced : BOOLEAN]
TaskRow == [sprint : Sprint \cup {Null}, completedAt : Calendar \cup {Null}]

Op == {"none", "updateSprint", "updatePhase", "updateMilestone", "updateIssue"}
Step == {"idle", "active", "write", "stamp"}
\* A request and the row it has read; "stale" is history: the row was written since.
Handler == [op : Op, pc : Step, on : Period \cup Mark \cup {Null},
            start : Calendar \cup {Null}, end : Calendar \cup {Null}, to : SprintStatus \cup {Null},
            read : PeriodRow \cup {Null}, met : BOOLEAN \cup {Null},
            wasMet : BOOLEAN, stale : BOOLEAN]
Resting == [op |-> "none", pc |-> "idle", on |-> Null, start |-> Null,
            end |-> Null, to |-> Null, read |-> Null, met |-> Null,
            wasMet |-> FALSE, stale |-> FALSE]

Live == {p \in Period : period[p].row = "live"}
Scope(s) == {t \in Task : task[t].sprint = s}
Left(s) == {t \in Scope(s) : task[t].completedAt = Null}

InitRows ==
  /\ period = [p \in Period |-> [row |-> "none", start |-> 0, end |-> 0, status |-> "PLANNED"]]
  /\ mark = [k \in Mark |-> [met |-> FALSE, at |-> Null, raced |-> FALSE]]
  /\ task = [t \in Task |-> [sprint |-> Null, completedAt |-> Null]]
  /\ today = 0
  /\ evening = <<>>
  /\ req = [r \in Request |-> Resting]
Init == calls \in Profile /\ InitRows

At(r, step) == req[r].pc = step
Finish(r) == req' = [req EXCEPT ![r] = Resting]
Accept(r, h) == h.op \in calls /\ req[r] = Resting /\ req' = [req EXCEPT ![r] = h]
Goto(r, step) == req' = [req EXCEPT ![r].pc = step]

-----------------------------------------------------------------------------
\* Sprints and phases: both dates are checked together before they are written.
InOrder(start, end) == end > start

Create(p, status) ==
  /\ period[p].row = "none"
  /\ \E start, end \in Calendar :
       /\ InOrder(start, end)
       /\ "move" \in calls \/ (start = 0 /\ end = LastDay)
       /\ period' = [period EXCEPT
            ![p] = [row |-> "live", start |-> start, end |-> end, status |-> status]]
  /\ UNCHANGED <<mark, task, today, evening, req, calls>>
CreateSprint == "createSprint" \in calls /\ \E s \in Sprint : Create(s, "PLANNED")
CreatePhase == "createPhase" \in calls /\ \E p \in Phase : Create(p, "PLANNED")

\* Where no client moves dates, "move" is not among the calls and requests give none.
Asked == IF "move" \in calls THEN Calendar \cup {Null} ELSE {Null}
Given(value, old) == IF value = Null THEN old ELSE value
BeginUpdate(r, op, p, to) ==
  /\ p \in Live
  /\ \E start, end \in Asked :
       /\ InOrder(Given(start, period[p].start), Given(end, period[p].end))
       /\ Accept(r, [Resting EXCEPT !.op = op, !.on = p, !.to = to, !.read = period[p],
                       !.start = start, !.end = end,
                       !.pc = IF to = "ACTIVE" THEN "active" ELSE "write"])
  /\ UNCHANGED rows
BeginUpdateSprint(r) ==
  \E s \in Sprint, to \in SprintStatus \cup {Null} : BeginUpdate(r, "updateSprint", s, to)
BeginUpdatePhase(r) == \E p \in Phase : BeginUpdate(r, "updatePhase", p, Null)

\* One sprint at a time: another in progress is looked for.
OtherActive(s) == \E o \in (Sprint \cap Live) \ {s} : period[o].status = "ACTIVE"
CheckActive(r) ==
  /\ At(r, "active")
  /\ IF OtherActive(req[r].on) THEN Finish(r) ELSE Goto(r, "write")
  /\ UNCHANGED rows

\* Both dates are written, the one that was not given as it was read.
Dated(row, h) ==
  [row EXCEPT !.start = Given(h.start, h.read.start), !.end = Given(h.end, h.read.end),
              !.status = Given(h.to, row.status)]
WritePeriod(r) ==
  LET p == req[r].on IN
  /\ At(r, "write")
  /\ period' = IF p \in Live THEN [period EXCEPT ![p] = Dated(@, req[r])] ELSE period
  /\ Finish(r)
  /\ UNCHANGED <<mark, task, today, evening, calls>>

\* The tasks of a sprint that is deleted go back to the backlog.
Remove(p) ==
  /\ p \in Live
  /\ period' = [period EXCEPT ![p].row = "deleted"]
  /\ task' = [t \in Task |-> IF task[t].sprint = p THEN [task[t] EXCEPT !.sprint = Null]
                             ELSE task[t]]
  /\ evening' = IF Scope(p) = {} THEN evening ELSE <<>>
  /\ UNCHANGED <<mark, today, req, calls>>
RemoveSprint == "removeSprint" \in calls /\ \E s \in Sprint : Remove(s)
RemovePhase == "removePhase" \in calls /\ \E p \in Phase : Remove(p)

\* The sprint, if any, is looked for; one deleted meanwhile the foreign key refuses.
AssignTasks ==
  /\ "assignTasks" \in calls
  /\ \E s \in (Sprint \cap Live) \cup {Null}, T \in SUBSET Task :
       task' = [t \in Task |-> IF t \in T THEN [task[t] EXCEPT !.sprint = s] ELSE task[t]]
  /\ evening' = IF task' = task THEN evening ELSE <<>>
  /\ UNCHANGED <<period, mark, today, req, calls>>

-----------------------------------------------------------------------------
\* Milestones and issues: a date follows the status, from the row that was read.
BeginUpdateMark(r, op, k) ==
  /\ \E met \in BOOLEAN \cup {Null} :
       Accept(r, [Resting EXCEPT !.op = op, !.pc = "stamp", !.on = k, !.met = met,
                                 !.wasMet = mark[k].met])
  /\ UNCHANGED rows
BeginUpdateMilestone(r) == \E k \in Milestone : BeginUpdateMark(r, "updateMilestone", k)
BeginUpdateIssue(r) == \E k \in Issue : BeginUpdateMark(r, "updateIssue", k)

Stamped_EverySave(row, h) ==
  IF h.met = Null THEN row
  ELSE [row EXCEPT !.met = h.met, !.at = IF h.met THEN today ELSE Null]
Stamped(row, h) ==
  IF h.met = Null THEN row
  ELSE [row EXCEPT !.met = h.met,
                   !.at = IF h.met = h.wasMet THEN @ ELSE IF h.met THEN today ELSE Null]
Written(row, h) == [Stamped(row, h) EXCEPT !.raced = @ \/ (h.stale /\ h.met # Null)]

WriteMark(r) ==
  LET h == req[r] IN
  /\ At(r, "stamp")
  /\ mark' = [mark EXCEPT ![h.on] = Written(@, h)]
  /\ req' = [q \in Request |->
       IF q = r THEN Resting
       ELSE [req[q] EXCEPT !.stale = @ \/ (req[q].on = h.on /\ mark' # mark)]]
  /\ UNCHANGED <<period, task, today, evening, calls>>

-----------------------------------------------------------------------------
\* TacheService finishes and reopens tasks; each keeps its date with its status.
CompleteTask ==
  /\ "completeTask" \in calls
  /\ \E t \in Task : /\ task[t].completedAt = Null
                     /\ task' = [task EXCEPT ![t].completedAt = today]
  /\ UNCHANGED <<period, mark, today, evening, req, calls>>

ReopenTask ==
  /\ "completeTask" \in calls
  /\ \E t \in Task : /\ task[t].completedAt # Null
                     /\ task' = [task EXCEPT ![t].completedAt = Null]
                     /\ evening' = IF task[t].completedAt < today THEN <<>> ELSE evening
  /\ UNCHANGED <<period, mark, today, req, calls>>

NextDay ==
  /\ "nextDay" \in calls
  /\ today < LastDay
  /\ today' = today + 1
  /\ evening' = [d \in DOMAIN evening \cup {today} |->
                   IF d = today THEN [s \in Sprint |-> Left(s)] ELSE evening[d]]
  /\ UNCHANGED <<period, mark, task, req, calls>>

Abort(r) ==
  /\ req[r] # Resting
  /\ Finish(r)
  /\ UNCHANGED rows

Next ==
  \/ \E r \in Request :
       \/ BeginUpdateSprint(r) \/ BeginUpdatePhase(r) \/ CheckActive(r) \/ WritePeriod(r)
       \/ BeginUpdateMilestone(r) \/ BeginUpdateIssue(r) \/ WriteMark(r)
       \/ Abort(r)
  \/ CreateSprint \/ CreatePhase \/ RemoveSprint \/ RemovePhase \/ AssignTasks
  \/ CompleteTask \/ ReopenTask \/ NextDay

Spec == Init /\ [][Next]_vars

-----------------------------------------------------------------------------
\* getBurndownData: work is counted in points if a task of the sprint has some.
Work(scope, tasks) ==
  IF \E t \in scope : Points[t] > 0
  THEN SumFunctionOnSet(Points, tasks) ELSE Cardinality(tasks)
\* What was left the evening of day d: a task finished that day is done by then.
LeftOn_Morning(s, d) ==
  {t \in Scope(s) : task[t].completedAt = Null \/ task[t].completedAt >= d}
LeftOn(s, d) == {t \in Scope(s) : task[t].completedAt = Null \/ task[t].completedAt > d}
Actual(s, d) == Work(Scope(s), LeftOn(s, d))

\* summarize: a task is done when it has a day of completion (module TaskBoard).
Summary(s) == [total |-> Work(Scope(s), Scope(s)), completed |-> Work(Scope(s), Scope(s) \ Left(s))]

-----------------------------------------------------------------------------
\* Types of the tables and of the handlers.
TypeOK ==
  /\ period \in [Period -> PeriodRow]
  /\ mark \in [Mark -> MarkRow]
  /\ task \in [Task -> TaskRow]
  /\ req \in [Request -> Handler]

\* A sprint and a phase end after they start, also when one request moves the start
\* and another the end of the same row.
PeriodsInOrder == \A p \in Live : period[p].end > period[p].start

\* There are at most as many active sprints as handlers run at once: one when requests
\* are served one at a time.
ActiveSprintsBounded ==
  Cardinality({s \in Sprint \cap Live : period[s].status = "ACTIVE"}) <= Cardinality(Request)

\* The date a milestone was reached, an issue resolved, is there exactly while it is,
\* and stays the same, except where two updates of it overlapped.
DatesOfMarksHold ==
  [][\A k \in Mark : ~mark'[k].raced =>
       /\ mark'[k].met <=> mark'[k].at # Null
       /\ mark[k].met /\ mark'[k].met => mark'[k].at = mark[k].at]_vars

\* list of SprintService, getBurndownData: today's point of the curve is the work that the
\* list does not show as completed.
SummaryIsBurndown ==
  \A s \in Sprint : Summary(s).completed + Actual(s, today) = Summary(s).total

\* The burndown tells what really was left each evening, as long as no task of the
\* sprint is reopened, moved or deleted afterwards.
BurndownTellsHistory ==
  \A d \in DOMAIN evening, s \in Sprint :
    Actual(s, d) = Work(Scope(s), evening[d][s])
=============================================================================
