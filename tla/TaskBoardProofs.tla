--------------------------- MODULE TaskBoardProofs ---------------------------
(***************************************************************************)
(* Proofs about TaskBoard for any number of tasks, users, entries and       *)
(* handlers in flight.                                                      *)
(***************************************************************************)
EXTENDS TaskBoard, FiniteSetTheorems, TLAPS

USE DEF TaskStatus, ProjectStatus, RowState, Date, rows, NewTask, Completes, StartsTask, CascadesTo

LEMMA InitType == Init => TypeOK
BY NullAssumption
   DEF Init, TypeOK, RowsOK, HandlersOK, HandlerOK, TaskRow, EntryRow, RuleRow, Handler,
       NoTaskRow, NoEntryRow, NoRule, Resting, Op, Step

-----------------------------------------------------------------------------
\* Putting a well-formed handler in a slot keeps every slot well formed.
LEMMA SlotOK ==
  ASSUME HandlersOK, NEW r \in Request, NEW h \in Handler, HandlerOK(h),
         req' = [req EXCEPT ![r] = h]
  PROVE  HandlersOK'
BY DEF HandlersOK, HandlerOK

LEMMA FinishOK ==
  ASSUME HandlersOK, NEW r \in Request, Finish(r)
  PROVE  HandlersOK'
<1>1. Resting \in Handler /\ HandlerOK(Resting)
  BY DEF Resting, Handler, HandlerOK, Op, Step
<1> QED BY <1>1, SlotOK DEF Finish

LEMMA GotoOK ==
  ASSUME HandlersOK, NEW r \in Request, NEW s \in Step, Goto(r, s),
         HandlerOK([req[r] EXCEPT !.pc = s])
  PROVE  HandlersOK'
<1>1. [req[r] EXCEPT !.pc = s] \in Handler
  BY DEF HandlersOK, Handler
<1>2. req' = [req EXCEPT ![r] = [req[r] EXCEPT !.pc = s]]
  BY DEF HandlersOK, Goto
<1> QED BY <1>1, <1>2, SlotOK

LEMMA IdleOK ==
  ASSUME HandlersOK, UNCHANGED req
  PROVE  HandlersOK'
BY DEF HandlersOK, HandlerOK

LEMMA UnchangedRowsOK ==
  ASSUME RowsOK, UNCHANGED <<rows, now, raced>>
  PROVE  RowsOK'
BY DEF RowsOK

LEMMA ActivateOK ==
  ASSUME RowsOK, NEW p, ActivateProject(p)
  PROVE  projectStatus' \in [Project -> ProjectStatus]
BY DEF RowsOK, ActivateProject

-----------------------------------------------------------------------------
\* Every step of the status handlers keeps the types.
LEMMA StatusStepType ==
  ASSUME TypeOK, NEW r \in Request, StatusStep(r)
  PROVE  TypeOK'
<1> USE DEF TypeOK
<1> DEFINE h == req[r]
           t == h.task
<1>0. h \in Handler /\ HandlerOK(h)
  BY DEF HandlersOK
<1>1. CASE CheckBlockers(r)
  <2>1. HandlerOK([h EXCEPT !.pc = "readStatus"])
    BY <1>0, <1>1 DEF CheckBlockers, At, HandlerOK, Handler
  <2> QED BY <1>1, <2>1, FinishOK, GotoOK, UnchangedRowsOK DEF CheckBlockers, Step
<1>2. CASE ReadStatus(r)
  <2>1. CASE t \in Live
    <3> DEFINE g == [h EXCEPT !.pc = "writeStatus", !.at = now, !.seen = task[t].status]
    <3>0. t \in Task /\ task[t].status \in TaskStatus /\ now \in Nat
      BY <2>1 DEF Live, RowsOK, TaskRow
    <3>1. g \in Handler /\ HandlerOK(g)
      <4>1. g \in Handler
        BY <1>0, <3>0 DEF Handler, Step
      <4>2. g.op = h.op /\ g.pc = "writeStatus" /\ g.task = t /\ g.to = h.to /\ g.at = now
            /\ g.seen = task[t].status
        BY <1>0 DEF Handler
      <4>3. h.to \in TaskStatus
        BY <1>0, <1>2 DEF ReadStatus, At, HandlerOK
      <4> QED BY <3>0, <4>1, <4>2, <4>3 DEF HandlerOK
    <3>2. req' = [req EXCEPT ![r] = g]
      BY <1>2, <2>1 DEF ReadStatus, HandlersOK
    <3> QED BY <1>2, <3>1, <3>2, SlotOK, UnchangedRowsOK DEF ReadStatus
  <2>2. CASE t \notin Live
    BY <1>2, <2>2, FinishOK, UnchangedRowsOK DEF ReadStatus
  <2> QED BY <2>1, <2>2
<1>3. CASE WriteStatus(r)
  <2>1. HandlerOK([h EXCEPT !.pc = "generate"])
    BY <1>0, <1>3 DEF WriteStatus, At, HandlerOK, Handler
  <2>2. HandlersOK'
    BY <1>3, <2>1, FinishOK, GotoOK DEF WriteStatus, Step
  <2>3. task' \in [Task -> TaskRow]
    BY <1>0, <1>3 DEF WriteStatus, At, HandlerOK, RowsOK, TaskRow, CompletionPatch
  <2>4. raced' \in SUBSET Task
    BY <1>0, <1>3 DEF WriteStatus, Live, RowsOK
  <2>5. projectStatus' \in [Project -> ProjectStatus]
    BY <1>3, ActivateOK DEF WriteStatus, RowsOK
  <2> QED BY <1>3, <2>2, <2>3, <2>4, <2>5 DEF WriteStatus, RowsOK
<1>4. CASE WriteStatusOfGone(r)
  BY <1>4, FinishOK, UnchangedRowsOK DEF WriteStatusOfGone
<1> QED BY <1>1, <1>2, <1>3, <1>4 DEF StatusStep

\* Every step of the generation of an occurrence keeps the types.
LEMMA RecurrenceStepType ==
  ASSUME TypeOK, NEW r \in Request, RecurrenceStep(r)
  PROVE  TypeOK'
<1> USE DEF TypeOK
<1> DEFINE h == req[r]
           t == h.task
<1>0. h \in Handler /\ HandlerOK(h)
  BY DEF HandlersOK
<1>1. CASE GenerateNextOccurrence(r)
  <2>1. /\ HandlerOK([h EXCEPT !.pc = "createOccurrence"])
        /\ HandlerOK([h EXCEPT !.pc = "endSeries"])
    BY <1>0, <1>1 DEF GenerateNextOccurrence, At, HandlerOK, Handler
  <2> QED BY <1>1, <2>1, FinishOK, GotoOK, UnchangedRowsOK DEF GenerateNextOccurrence, Step
<1>2. CASE CreateOccurrence(r)
  <2> DEFINE g == [h EXCEPT !.pc = "stampRule", !.at = now]
  <2>1. t \in Task /\ now \in Nat /\ h.project \in Project \cup {Null}
    BY <1>0, <1>2 DEF CreateOccurrence, Live, RowsOK, Handler
  <2>2. g \in Handler /\ HandlerOK(g)
    <3>1. g \in Handler
      BY <1>0, <2>1 DEF Handler, Step
    <3>2. g.op = h.op /\ g.pc = "stampRule" /\ g.task = t
      BY <1>0 DEF Handler
    <3> QED BY <2>1, <3>1, <3>2 DEF HandlerOK
  <2>3. req' = [req EXCEPT ![r] = g]
    BY <1>2 DEF CreateOccurrence, HandlersOK
  <2>4. HandlersOK'
    BY <2>2, <2>3, SlotOK
  <2>5. task' \in [Task -> TaskRow]
    BY <1>2, <2>1 DEF CreateOccurrence, RowsOK, TaskRow
  <2> QED BY <1>2, <2>4, <2>5 DEF CreateOccurrence, RowsOK
<1>3. CASE CreateOccurrenceFails(r)
  BY <1>3, FinishOK, UnchangedRowsOK DEF CreateOccurrenceFails
<1>4. CASE StampRule(r)
  <2>1. h.at \in Date /\ t \in Task
    BY <1>0, <1>4 DEF StampRule, At, HandlerOK, Handler
  <2>2. rule' \in [Task -> RuleRow]
    <3>1. CASE rule[t].set
      BY <1>4, <2>1, <3>1 DEF StampRule, RowsOK, RuleRow
    <3>2. CASE ~rule[t].set
      BY <1>4, <2>1, <3>2 DEF StampRule, RowsOK, RuleRow
    <3> QED BY <3>1, <3>2
  <2> QED BY <1>4, <2>2, FinishOK DEF StampRule, RowsOK
<1>5. CASE EndSeries(r)
  <2>2. rule' \in [Task -> RuleRow]
    BY <1>5 DEF EndSeries, RowsOK, RuleRow
  <2> QED BY <1>5, <2>2, FinishOK DEF EndSeries, RowsOK
<1> QED BY <1>1, <1>2, <1>3, <1>4, <1>5 DEF RecurrenceStep

\* Every step of the time entry handlers keeps the types.
LEMMA TimeStepType ==
  ASSUME TypeOK, NEW r \in Request, TimeStep(r)
  PROVE  TypeOK'
<1> USE DEF TypeOK
<1> DEFINE h == req[r]
           t == h.task
<1>0. h \in Handler /\ HandlerOK(h)
  BY DEF HandlersOK
<1>1. CASE GetActiveTimer(r)
  <2>1. CASE h.op = "startTimer"
    <3>1. HandlerOK([h EXCEPT !.pc = "readTask"])
      BY <1>0, <1>1, <2>1 DEF GetActiveTimer, At, HandlerOK, Handler
    <3> QED BY <1>1, <2>1, <3>1, FinishOK, GotoOK, UnchangedRowsOK DEF GetActiveTimer, Step
  <2>2. CASE h.op = "stopTimer" /\ ActiveTimers(h.user) = {}
    BY <1>1, <2>2, FinishOK, UnchangedRowsOK DEF GetActiveTimer
  <2>3. CASE h.op = "stopTimer" /\ ActiveTimers(h.user) # {}
    <3>1. PICK e \in ActiveTimers(h.user) :
            req' = [req EXCEPT ![r].pc = "writeEnd", ![r].entry = e, ![r].at = now]
      BY <1>1, <2>3 DEF GetActiveTimer
    <3> DEFINE g == [h EXCEPT !.pc = "writeEnd", !.entry = e, !.at = now]
    <3>2. e \in Entry /\ now \in Nat
      BY DEF ActiveTimers, RowsOK
    <3>3. g \in Handler /\ HandlerOK(g)
      <4>1. g \in Handler
        BY <1>0, <3>2 DEF Handler, Step
      <4>2. g.op = h.op /\ g.task = t /\ g.pc = "writeEnd" /\ g.entry = e /\ g.at = now
        BY <1>0 DEF Handler
      <4> QED BY <1>0, <3>2, <4>1, <4>2 DEF HandlerOK
    <3>4. req' = [req EXCEPT ![r] = g]
      BY <3>1 DEF HandlersOK
    <3> QED BY <1>1, <3>3, <3>4, SlotOK, UnchangedRowsOK DEF GetActiveTimer
  <2> QED BY <1>1, <2>1, <2>2, <2>3 DEF GetActiveTimer
<1>2. CASE ReadTimedTask(r)
  <2>1. CASE t \in Live /\ Unfinished(t) = {}
    <3> DEFINE g == [h EXCEPT !.pc = "createEntry", !.seen = task[t].status,
                              !.project = task[t].project, !.at = now]
    <3>0. /\ t \in Task /\ task[t].status \in TaskStatus
          /\ now \in Nat /\ task[t].project \in Project \cup {Null}
      BY <2>1 DEF Live, RowsOK, TaskRow
    <3>1. g \in Handler /\ HandlerOK(g)
      <4>1. g \in Handler
        BY <1>0, <3>0 DEF Handler, Step
      <4>2. /\ g.op = h.op /\ g.pc = "createEntry" /\ g.task = t /\ g.at = now
            /\ g.seen = task[t].status
        BY <1>0 DEF Handler
      <4> QED BY <3>0, <4>1, <4>2 DEF HandlerOK
    <3>2. req' = [req EXCEPT ![r] = g]
      BY <1>2, <2>1 DEF ReadTimedTask, HandlersOK
    <3> QED BY <1>2, <3>1, <3>2, SlotOK, UnchangedRowsOK DEF ReadTimedTask
  <2>2. CASE ~(t \in Live /\ Unfinished(t) = {})
    BY <1>2, <2>2, FinishOK, UnchangedRowsOK DEF ReadTimedTask
  <2> QED BY <2>1, <2>2
<1>3. CASE CreateTimer(r)
  <2>1. t \in Task /\ h.at \in Nat /\ h.user \in User \cup {Null}
    BY <1>0, <1>3 DEF CreateTimer, At, HandlerOK, Handler
  <2>2. entry' \in [Entry -> EntryRow]
    BY <1>3, <2>1 DEF CreateTimer, RowsOK, EntryRow
  <2>3. task' \in [Task -> TaskRow] /\ raced' \in SUBSET Task
    BY <1>3, <2>1 DEF CreateTimer, RowsOK, TaskRow
  <2>4. projectStatus' \in [Project -> ProjectStatus]
    BY <1>3, ActivateOK DEF CreateTimer
  <2> QED BY <1>3, <2>2, <2>3, <2>4, FinishOK DEF CreateTimer, RowsOK
<1>4. CASE CreateTimerFails(r)
  BY <1>4, FinishOK, UnchangedRowsOK DEF CreateTimerFails
<1>5. CASE WriteEnd(r)
  <2>1. h.at \in Nat /\ h.entry \in Entry
    BY <1>0, <1>5 DEF WriteEnd, At, HandlerOK
  <2>2. entry' \in [Entry -> EntryRow]
    <3>1. CASE entry[h.entry].row = "live"
      BY <1>5, <2>1, <3>1 DEF WriteEnd, RowsOK, EntryRow
    <3>2. CASE entry[h.entry].row # "live"
      BY <1>5, <3>2 DEF WriteEnd, RowsOK
    <3> QED BY <3>1, <3>2
  <2> QED BY <1>5, <2>2, FinishOK DEF WriteEnd, RowsOK
<1>6. CASE DeleteTimeEntry(r)
  <2>1. entry' \in [Entry -> EntryRow]
    BY <1>6 DEF DeleteTimeEntry, RowsOK, EntryRow, NoEntryRow
  <2> QED BY <1>6, <2>1, FinishOK DEF DeleteTimeEntry, RowsOK
<1> QED BY <1>1, <1>2, <1>3, <1>4, <1>5, <1>6 DEF TimeStep

\* Every step of the graph handlers keeps the types.
LEMMA GraphStepType ==
  ASSUME TypeOK, NEW r \in Request, GraphStep(r)
  PROVE  TypeOK'
<1> USE DEF TypeOK
<1> DEFINE h == req[r]
           t == h.task
<1>0. h \in Handler /\ HandlerOK(h)
  BY DEF HandlersOK
<1>1. CASE CreateTask(r)
  <2>1. h.project \in Project \cup {Null} /\ h.other \in Task \cup {Null}
    BY <1>0 DEF Handler
  <2>2. task' \in [Task -> TaskRow]
    BY <1>1, <2>1 DEF CreateTask, RowsOK, TaskRow
  <2> QED BY <1>1, <2>2, FinishOK DEF CreateTask, RowsOK
<1>2. CASE CreateTaskFails(r)
  BY <1>2, FinishOK, UnchangedRowsOK DEF CreateTaskFails
<1>3. CASE CheckSubtasks(r)
  <2>1. HandlerOK([h EXCEPT !.pc = "deleteTask"])
    BY <1>0, <1>3 DEF CheckSubtasks, At, HandlerOK, Handler
  <2> QED BY <1>3, <2>1, FinishOK, GotoOK, UnchangedRowsOK DEF CheckSubtasks, Step
<1>4. CASE DeleteTask(r)
  <2>1. task' \in [Task -> TaskRow]
    <3> DEFINE left(u) ==
          IF u = t THEN NoTaskRow("gone")
          ELSE [task[u] EXCEPT !.parent = IF @ = t THEN Null ELSE @,
                               !.recurrenceOf = IF @ = t THEN Null ELSE @]
    <3>1. ASSUME NEW u \in Task PROVE left(u) \in TaskRow
      <4>1. CASE u = t
        BY <4>1 DEF NoTaskRow, TaskRow
      <4>2. CASE u # t
        <5>1. task[u] \in TaskRow
          BY DEF RowsOK
        <5> QED BY <4>2, <5>1 DEF TaskRow
      <4> QED BY <4>1, <4>2
    <3>2. task' = [u \in Task |-> left(u)]
      BY <1>4 DEF DeleteTask
    <3> HIDE DEF left
    <3> QED BY <3>1, <3>2
  <2>2. entry' \in [Entry -> EntryRow]
    BY <1>4 DEF DeleteTask, RowsOK, EntryRow, NoEntryRow
  <2>3. rule' \in [Task -> RuleRow]
    BY <1>4 DEF DeleteTask, RowsOK, RuleRow, NoRule
  <2> QED BY <1>4, <2>1, <2>2, <2>3, FinishOK DEF DeleteTask, RowsOK
<1>5. CASE DeleteTaskFails(r)
  BY <1>5, FinishOK, UnchangedRowsOK DEF DeleteTaskFails
<1>6. CASE CheckExisting(r)
  <2>1. HandlerOK([h EXCEPT !.pc = "cycle"])
    BY <1>0, <1>6 DEF CheckExisting, At, HandlerOK, Handler
  <2> QED BY <1>6, <2>1, FinishOK, GotoOK, UnchangedRowsOK DEF CheckExisting, Step
<1>7. CASE CheckCycle(r)
  <2>1. HandlerOK([h EXCEPT !.pc = "createDependency"])
    BY <1>0, <1>7 DEF CheckCycle, At, HandlerOK, Handler
  <2> QED BY <1>7, <2>1, FinishOK, GotoOK, UnchangedRowsOK DEF CheckCycle, Step
<1>8. CASE CreateTaskDependency(r)
  <2>1. h.task \in Task /\ h.other \in Task
    BY <1>0, <1>8 DEF CreateTaskDependency, At, HandlerOK
  <2>2. dependencies' \in SUBSET (Task \X Task)
    BY <1>8, <2>1 DEF CreateTaskDependency, RowsOK
  <2> QED BY <1>8, <2>2, FinishOK DEF CreateTaskDependency, RowsOK
<1> QED BY <1>1, <1>2, <1>3, <1>4, <1>5, <1>6, <1>7, <1>8 DEF GraphStep

\* Accepting a request keeps the types.
LEMMA BeginType ==
  ASSUME TypeOK, NEW r \in Request, Begin(r)
  PROVE  TypeOK'
<1> USE DEF TypeOK
<1>0. RowsOK'
  BY UnchangedRowsOK
     DEF Begin, BeginChangeTaskStatus, BeginUpdateTask, BeginStartTimer, BeginStopTimer,
         BeginDeleteTimeEntry, BeginCreateTask, BeginDeleteTask, BeginCreateTaskDependency
<1>1. ASSUME NEW t \in Live, NEW s \in TaskStatus
      PROVE  /\ t \in Task
             /\ task[t].project \in Project \cup {Null}
  BY DEF Live, RowsOK, TaskRow
<1>2. PICK g \in Handler : HandlerOK(g) /\ req' = [req EXCEPT ![r] = g]
  <2> USE DEF Accept, Handler, HandlerOK, Resting, Op, Step
  <2>1. CASE BeginChangeTaskStatus(r)
    BY <1>1, <2>1 DEF BeginChangeTaskStatus
  <2>2. CASE BeginUpdateTask(r)
    BY <1>1, <2>2 DEF BeginUpdateTask
  <2>3. CASE BeginStartTimer(r)
    BY <2>3 DEF BeginStartTimer, Live
  <2>4. CASE BeginStopTimer(r)
    BY <2>4 DEF BeginStopTimer
  <2>5. CASE BeginDeleteTimeEntry(r)
    BY <2>5 DEF BeginDeleteTimeEntry, RowsOK, EntryRow
  <2>6. CASE BeginCreateTask(r)
    BY <2>6 DEF BeginCreateTask, Live
  <2>7. CASE BeginDeleteTask(r)
    BY <2>7 DEF BeginDeleteTask, Live
  <2>8. CASE BeginCreateTaskDependency(r)
    BY <2>8 DEF BeginCreateTaskDependency, Live
  <2> QED BY <2>1, <2>2, <2>3, <2>4, <2>5, <2>6, <2>7, <2>8 DEF Begin
<1> QED BY <1>0, <1>2, SlotOK

\* The calls that are one write, the clock and an aborted handler keep the types.
LEMMA OtherStepType ==
  ASSUME TypeOK, SingleWrite \/ Tick \/ \E r \in Request : Abort(r)
  PROVE  TypeOK'
<1> USE DEF TypeOK
<1>1. CASE SetRecurrence
  <2>1. PICK t \in Live, bounded \in BOOLEAN, active \in BOOLEAN :
          rule' = [rule EXCEPT ![t] = [set |-> TRUE, bounded |-> bounded, last |-> @.last,
                                       active |-> @.set => active]]
    BY <1>1 DEF SetRecurrence
  <2> DEFINE new == [set |-> TRUE, bounded |-> bounded, last |-> rule[t].last,
                     active |-> rule[t].set => active]
  <2>2. t \in Task /\ rule[t].last \in Date /\ rule' = [rule EXCEPT ![t] = new]
    BY <2>1 DEF Live, RowsOK, RuleRow
  <2>3. (rule[t].set => active) \in BOOLEAN
    OBVIOUS
  <2>4. new \in RuleRow
    BY <2>2, <2>3 DEF RuleRow
  <2> HIDE DEF new
  <2>5. rule' \in [Task -> RuleRow]
    BY <2>2, <2>4 DEF RowsOK
  <2> QED BY <1>1, <2>5, IdleOK DEF SetRecurrence, RowsOK
<1>2. CASE RemoveRecurrence
  <2>1. NoRule \in RuleRow
    BY DEF NoRule, RuleRow
  <2>2. rule' \in [Task -> RuleRow]
    BY <1>2, <2>1 DEF RemoveRecurrence, RowsOK
  <2> QED BY <1>2, <2>2, IdleOK DEF RemoveRecurrence, RowsOK
<1>3. CASE UpdateProject
  BY <1>3, IdleOK DEF UpdateProject, RowsOK
<1>4. CASE CreateManualTimeEntry
  <2>1. entry' \in [Entry -> EntryRow]
    BY <1>4, MaxTimeAssumption DEF CreateManualTimeEntry, RowsOK, EntryRow, Live
  <2> QED BY <1>4, <2>1, IdleOK DEF CreateManualTimeEntry, RowsOK
<1>5. CASE DeleteTaskDependency
  BY <1>5, IdleOK DEF DeleteTaskDependency, RowsOK
<1>6. CASE Tick
  BY <1>6, IdleOK DEF Tick, RowsOK
<1>7. ASSUME NEW r \in Request, Abort(r) PROVE TypeOK'
  BY <1>7, FinishOK, UnchangedRowsOK DEF Abort
<1> QED BY <1>1, <1>2, <1>3, <1>4, <1>5, <1>6, <1>7 DEF SingleWrite

LEMMA NextType == TypeOK /\ [Next]_vars => TypeOK'
<1> SUFFICES ASSUME TypeOK, [Next]_vars PROVE TypeOK'
  OBVIOUS
<1>1. CASE Next
  BY <1>1, BeginType, StatusStepType, RecurrenceStepType, TimeStepType, GraphStepType,
     OtherStepType DEF Next, HandlerStep
<1>2. CASE UNCHANGED vars
  BY <1>2, IdleOK, UnchangedRowsOK DEF vars, TypeOK
<1> QED BY <1>1, <1>2

\* The tables and the handlers' local state always have their types.
THEOREM TypeCorrect == Spec => []TypeOK
BY InitType, NextType, PTL DEF Spec

-----------------------------------------------------------------------------
\* The steps that write a task row; all others leave the table alone.
TaskWrite(r) ==
  WriteStatus(r) \/ CreateOccurrence(r) \/ CreateTimer(r) \/ CreateTask(r) \/ DeleteTask(r)

LEMMA OtherStepsKeepTasks ==
  ASSUME [Next]_vars
  PROVE  (\E r \in Request : TaskWrite(r)) \/ UNCHANGED <<task, raced>>
<1>1. CASE UNCHANGED vars
  BY <1>1 DEF vars
<1>2. CASE SingleWrite \/ Tick
  BY <1>2 DEF SingleWrite, SetRecurrence, RemoveRecurrence, UpdateProject,
              CreateManualTimeEntry, DeleteTaskDependency, Tick
<1>3. ASSUME NEW r \in Request, Begin(r) PROVE UNCHANGED <<task, raced>>
  BY <1>3 DEF Begin, BeginChangeTaskStatus, BeginUpdateTask, BeginStartTimer, BeginStopTimer,
         BeginDeleteTimeEntry, BeginCreateTask, BeginDeleteTask, BeginCreateTaskDependency
<1>4. ASSUME NEW r \in Request, Abort(r) PROVE UNCHANGED <<task, raced>>
  BY <1>4 DEF Abort
<1>5. ASSUME NEW r \in Request, StatusStep(r)
      PROVE  TaskWrite(r) \/ UNCHANGED <<task, raced>>
  BY <1>5 DEF StatusStep, TaskWrite, CheckBlockers, ReadStatus, WriteStatusOfGone
<1>6. ASSUME NEW r \in Request, RecurrenceStep(r)
      PROVE  TaskWrite(r) \/ UNCHANGED <<task, raced>>
  BY <1>6 DEF RecurrenceStep, TaskWrite, GenerateNextOccurrence, CreateOccurrenceFails,
              StampRule, EndSeries
<1>7. ASSUME NEW r \in Request, TimeStep(r)
      PROVE  TaskWrite(r) \/ UNCHANGED <<task, raced>>
  BY <1>7 DEF TimeStep, TaskWrite, GetActiveTimer, ReadTimedTask, CreateTimerFails,
              WriteEnd, DeleteTimeEntry
<1>8. ASSUME NEW r \in Request, GraphStep(r)
      PROVE  TaskWrite(r) \/ UNCHANGED <<task, raced>>
  BY <1>8 DEF GraphStep, TaskWrite, CreateTaskFails, CheckSubtasks, DeleteTaskFails,
              CheckExisting, CheckCycle, CreateTaskDependency
<1> QED BY <1>1, <1>2, <1>3, <1>4, <1>5, <1>6, <1>7, <1>8 DEF Next, HandlerStep

LEMMA CompletedStep ==
  ASSUME TypeOK, CompletedIffDone, [Next]_vars
  PROVE  CompletedIffDone'
<1> SUFFICES ASSUME NEW u \in Live', u \notin raced'
             PROVE  (task'[u].status = "DONE") <=> (task'[u].completedAt # Null)
  BY DEF CompletedIffDone
<1> DEFINE Consistent == (task[u].status = "DONE") <=> (task[u].completedAt # Null)
<1>0. u \in Task /\ (u \in Live /\ u \notin raced => Consistent)
  BY DEF Live, CompletedIffDone
<1>1. CASE UNCHANGED <<task, raced>>
  BY <1>0, <1>1 DEF Live
<1>2. ASSUME NEW r \in Request, TaskWrite(r)
      PROVE  (task'[u].status = "DONE") <=> (task'[u].completedAt # Null)
  <2> DEFINE h == req[r]
             t == h.task
  <2>0. h \in Handler /\ HandlerOK(h) /\ task[u] \in TaskRow
    BY <1>0 DEF TypeOK, HandlersOK, RowsOK
  <2>1. CASE WriteStatus(r)
    <3>1. /\ h.seen \in TaskStatus /\ h.to \in TaskStatus
          /\ h.at \in Nat /\ h.at # Null /\ t \in Live
      BY <2>0, <2>1, NullAssumption DEF WriteStatus, At, HandlerOK
    <3>2. CASE u # t
      BY <1>0, <2>1, <3>2 DEF WriteStatus, Live, TypeOK, RowsOK
    <3>3. CASE u = t
      <4>1. h.seen = task[u].status /\ u \notin raced
        BY <2>1, <3>3 DEF WriteStatus
      <4>2. Consistent
        BY <1>0, <3>1, <3>3, <4>1
      <4>3. /\ task'[u].status = h.to
            /\ task'[u].completedAt =
                 CompletionPatch(h.seen, h.to, h.at, task[u].completedAt)
        BY <1>0, <2>0, <2>1, <3>3 DEF WriteStatus, TypeOK, RowsOK, TaskRow
      <4> QED BY <3>1, <4>1, <4>2, <4>3 DEF CompletionPatch
    <3> QED BY <3>2, <3>3
  <2>2. CASE CreateTimer(r)
    <3>1. CASE h.seen = "TODO" /\ u = t
      <4>1. task[u].status = "TODO" /\ u \in Live /\ u \notin raced
        BY <2>2, <3>1 DEF CreateTimer
      <4>2. task'[u].status = "DOING" /\ task'[u].completedAt = task[u].completedAt
        BY <1>0, <2>0, <2>2, <3>1 DEF CreateTimer, TypeOK, RowsOK, TaskRow
      <4> QED BY <1>0, <4>1, <4>2
    <3>2. CASE ~(h.seen = "TODO" /\ u = t)
      <4>1. task'[u] = task[u] /\ raced \subseteq raced'
        BY <1>0, <2>2, <3>2 DEF CreateTimer, TypeOK, RowsOK
      <4> QED BY <1>0, <4>1 DEF Live
    <3> QED BY <3>1, <3>2
  <2>3. CASE CreateOccurrence(r)
    BY <1>0, <2>0, <2>3 DEF CreateOccurrence, Live, TypeOK, RowsOK, TaskRow
  <2>4. CASE CreateTask(r)
    BY <1>0, <2>0, <2>4 DEF CreateTask, Live, TypeOK, RowsOK, TaskRow
  <2>5. CASE DeleteTask(r)
    <3>1. u # t /\ u \in Live /\ u \notin raced
      BY <1>0, <2>0, <2>5 DEF DeleteTask, Live, NoTaskRow, TaskRow
    <3>2. task'[u].status = task[u].status /\ task'[u].completedAt = task[u].completedAt
      BY <1>0, <2>0, <2>5, <3>1 DEF DeleteTask, TaskRow
    <3> QED BY <1>0, <3>1, <3>2
  <2> QED BY <1>2, <2>1, <2>2, <2>3, <2>4, <2>5 DEF TaskWrite
<1> QED BY <1>1, <1>2, OtherStepsKeepTasks

\* A task carries a completion date exactly when it is done, as long as none of its
\* status writes was computed from a status that had changed meanwhile.
THEOREM CompletionCorrect == Spec => []CompletedIffDone
<1>1. Init => CompletedIffDone
  BY DEF Init, CompletedIffDone, Live, NoTaskRow
<1>2. TypeOK /\ CompletedIffDone /\ [Next]_vars => CompletedIffDone'
  BY CompletedStep
<1> QED BY <1>1, <1>2, TypeCorrect, PTL DEF Spec

\* The date of completion of a task that stays done is never rewritten, unless a write
\* was computed from a stale status.
THEOREM CompletionDateFixed == Spec => CompletionDateStable
<1>1. TypeOK /\ [Next]_vars =>
        [\A t \in Task \ raced' :
           task[t].status = "DONE" /\ task'[t].status = "DONE"
             => task'[t].completedAt = task[t].completedAt]_vars
  <2> SUFFICES ASSUME TypeOK, [Next]_vars, NEW u \in Task, u \notin raced',
                      task[u].status = "DONE", task'[u].status = "DONE"
               PROVE  task'[u].completedAt = task[u].completedAt
    OBVIOUS
  <2>1. ASSUME NEW r \in Request, TaskWrite(r)
        PROVE  task'[u].completedAt = task[u].completedAt
    <3> DEFINE h == req[r]
               t == h.task
    <3>0. task \in [Task -> TaskRow] /\ task[u] \in TaskRow
      BY DEF TypeOK, RowsOK
    <3>1. CASE WriteStatus(r)
      <4>1. CASE u = t
        <5>1. h.seen = "DONE"
          BY <3>1, <4>1 DEF WriteStatus
        <5>2. h.to = "DONE"
          BY <3>0, <3>1, <4>1 DEF WriteStatus, TaskRow
        <5>3. task'[u].completedAt =
                CompletionPatch(h.seen, h.to, h.at, task[u].completedAt)
          BY <3>0, <3>1, <4>1 DEF WriteStatus, TaskRow
        <5> QED BY <5>1, <5>2, <5>3 DEF CompletionPatch
      <4>2. CASE u # t
        BY <3>0, <3>1, <4>2 DEF WriteStatus
      <4> QED BY <4>1, <4>2
    <3>2. CASE CreateTimer(r)
      BY <3>0, <3>2 DEF CreateTimer, TaskRow
    <3>3. CASE CreateOccurrence(r)
      BY <3>0, <3>3 DEF CreateOccurrence, TaskRow
    <3>4. CASE CreateTask(r)
      BY <3>0, <3>4 DEF CreateTask, TaskRow
    <3>5. CASE DeleteTask(r)
      BY <3>0, <3>5 DEF DeleteTask, TaskRow, NoTaskRow
    <3> QED BY <2>1, <3>1, <3>2, <3>3, <3>4, <3>5 DEF TaskWrite
  <2> QED BY <2>1, OtherStepsKeepTasks
<1> QED BY <1>1, TypeCorrect, PTL DEF Spec, CompletionDateStable

-----------------------------------------------------------------------------
(***************************************************************************)
(* The dependency graph, one request at a time.                             *)
(***************************************************************************)

\* Fewer edges, no more cycles and no more paths.
LEMMA AcyclicMonotone ==
  ASSUME NEW D, NEW E \in SUBSET D, AcyclicOn(D)
  PROVE  AcyclicOn(E)
BY DEF AcyclicOn

LEMMA ReachesMonotone ==
  ASSUME NEW D, NEW E \in SUBSET D, NEW t, NEW u, Reaches(E, t, u)
  PROVE  Reaches(D, t, u)
BY DEF Reaches, Closed

\* The check of createTaskDependency is the right one: an edge whose end does not
\* reach its start closes no cycle.
LEMMA SafeEdge ==
  ASSUME NEW D, NEW a \in Task, NEW b \in Task,
         AcyclicOn(D), ~Reaches(D, b, a)
  PROVE  AcyclicOn(D \cup {<<a, b>>})
<1> SUFFICES ASSUME NEW S \in SUBSET Task, S # {},
                    \A x \in S : \E y \in S : <<x, y>> \in D \cup {<<a, b>>}
             PROVE  FALSE
  BY DEF AcyclicOn
<1>1. PICK C \in SUBSET Task : b \in C /\ Closed(C, D) /\ a \notin C
  BY DEF Reaches
<1>2. CASE S \cap C = {}
  <2>1. \A x \in S : \E y \in S : <<x, y>> \in D
    BY <1>1, <1>2
  <2> QED BY <2>1 DEF AcyclicOn
<1>3. CASE S \cap C # {}
  <2>1. \A x \in S \cap C : \E y \in S \cap C : <<x, y>> \in D
    BY <1>1 DEF Closed
  <2>2. S \cap C \in SUBSET Task
    OBVIOUS
  <2> QED BY <1>3, <2>1, <2>2 DEF AcyclicOn
<1> QED BY <1>2, <1>3

\* What a handler about to insert a dependency still knows of the graph.
CycleChecked ==
  \A r \in Request : req[r].pc = "createDependency"
    => ~Reaches(dependencies, req[r].other, req[r].task)

GraphInv == DependenciesAcyclic /\ CycleChecked

\* Only CheckCycle brings a handler to the insert.
ReachesInsert == \A s \in Request :
  req'[s].pc = "createDependency" => req'[s] = req[s] \/ CheckCycle(s)

LEMMA MovesElsewhere ==
  ASSUME HandlersOK, NEW r \in Request, NEW g,
         req' = [req EXCEPT ![r] = g], g.pc # "createDependency"
  PROVE  ReachesInsert
BY DEF HandlersOK, ReachesInsert

LEMMA OtherStepsKeepGraph ==
  ASSUME TypeOK, [Next]_vars
  PROVE  \/ \E r \in Request : CreateTaskDependency(r)
         \/ dependencies' \subseteq dependencies /\ ReachesInsert
<1> USE DEF TypeOK
<1> DEFINE Quiet == dependencies' \subseteq dependencies /\ ReachesInsert
<1>1. CASE UNCHANGED vars
  BY <1>1 DEF vars, ReachesInsert
<1>2. CASE SingleWrite \/ Tick
  BY <1>2 DEF SingleWrite, SetRecurrence, RemoveRecurrence, UpdateProject,
              CreateManualTimeEntry, DeleteTaskDependency, Tick, ReachesInsert
<1>3. ASSUME NEW r \in Request, Begin(r) PROVE Quiet
  <2> USE DEF Accept, Resting, HandlersOK, ReachesInsert
  <2>1. CASE BeginChangeTaskStatus(r)
    BY <2>1 DEF BeginChangeTaskStatus
  <2>2. CASE BeginUpdateTask(r)
    BY <2>2 DEF BeginUpdateTask
  <2>3. CASE BeginStartTimer(r)
    BY <2>3 DEF BeginStartTimer
  <2>4. CASE BeginStopTimer(r)
    BY <2>4 DEF BeginStopTimer
  <2>5. CASE BeginDeleteTimeEntry(r)
    BY <2>5 DEF BeginDeleteTimeEntry
  <2>6. CASE BeginCreateTask(r)
    BY <2>6 DEF BeginCreateTask
  <2>7. CASE BeginDeleteTask(r)
    BY <2>7 DEF BeginDeleteTask
  <2>8. CASE BeginCreateTaskDependency(r)
    BY <2>8 DEF BeginCreateTaskDependency
  <2> QED BY <1>3, <2>1, <2>2, <2>3, <2>4, <2>5, <2>6, <2>7, <2>8 DEF Begin
<1> USE DEF At, Goto, Finish, Resting, HandlersOK, Handler, ReachesInsert
<1>4. ASSUME NEW r \in Request, Abort(r) PROVE Quiet
  BY <1>4 DEF Abort
<1>5. ASSUME NEW r \in Request, StatusStep(r) PROVE Quiet
  <2>1. CASE CheckBlockers(r)
    BY <2>1 DEF CheckBlockers
  <2>2. CASE ReadStatus(r)
    BY <2>2 DEF ReadStatus
  <2>3. CASE WriteStatus(r)
    BY <2>3 DEF WriteStatus
  <2>4. CASE WriteStatusOfGone(r)
    BY <2>4 DEF WriteStatusOfGone
  <2> QED BY <1>5, <2>1, <2>2, <2>3, <2>4 DEF StatusStep
<1>6. ASSUME NEW r \in Request, RecurrenceStep(r) PROVE Quiet
  <2>1. CASE GenerateNextOccurrence(r)
    BY <2>1 DEF GenerateNextOccurrence
  <2>2. CASE CreateOccurrence(r)
    BY <2>2 DEF CreateOccurrence
  <2>3. CASE CreateOccurrenceFails(r)
    BY <2>3 DEF CreateOccurrenceFails
  <2>4. CASE StampRule(r)
    BY <2>4 DEF StampRule
  <2>5. CASE EndSeries(r)
    BY <2>5 DEF EndSeries
  <2> QED BY <1>6, <2>1, <2>2, <2>3, <2>4, <2>5 DEF RecurrenceStep
<1>7. ASSUME NEW r \in Request, TimeStep(r) PROVE Quiet
  <2>1. CASE GetActiveTimer(r)
    <3>0. UNCHANGED dependencies
      BY <2>1 DEF GetActiveTimer
    <3>1. CASE Goto(r, "readTask") \/ Finish(r)
      BY <3>0, <3>1
    <3>2. ASSUME NEW e \in ActiveTimers(req[r].user),
                 req' = [req EXCEPT ![r].pc = "writeEnd", ![r].entry = e, ![r].at = now]
          PROVE  Quiet
      BY <3>0, <3>2
    <3> QED
      <4> HIDE DEF Goto, Finish, ReachesInsert, HandlersOK, Handler
      <4> QED BY <2>1, <3>1, <3>2 DEF GetActiveTimer
  <2>2. CASE ReadTimedTask(r)
    BY <2>2 DEF ReadTimedTask
  <2>3. CASE CreateTimer(r)
    BY <2>3 DEF CreateTimer
  <2>4. CASE CreateTimerFails(r)
    BY <2>4 DEF CreateTimerFails
  <2>5. CASE WriteEnd(r)
    BY <2>5 DEF WriteEnd
  <2>6. CASE DeleteTimeEntry(r)
    BY <2>6 DEF DeleteTimeEntry
  <2> QED BY <1>7, <2>1, <2>2, <2>3, <2>4, <2>5, <2>6 DEF TimeStep
<1>8. ASSUME NEW r \in Request, GraphStep(r)
      PROVE  CreateTaskDependency(r) \/ Quiet
  <2>1. CASE CreateTask(r)
    BY <2>1 DEF CreateTask
  <2>2. CASE CreateTaskFails(r)
    BY <2>2 DEF CreateTaskFails
  <2>3. CASE CheckSubtasks(r)
    BY <2>3 DEF CheckSubtasks
  <2>4. CASE DeleteTask(r)
    BY <2>4 DEF DeleteTask
  <2>5. CASE DeleteTaskFails(r)
    BY <2>5 DEF DeleteTaskFails
  <2>6. CASE CheckExisting(r)
    BY <2>6 DEF CheckExisting
  <2>7. CASE CheckCycle(r)
    <3>1. UNCHANGED dependencies /\ \A s \in Request : s # r => req'[s] = req[s]
      BY <2>7 DEF CheckCycle
    <3> QED BY <2>7, <3>1
  <2> QED BY <1>8, <2>1, <2>2, <2>3, <2>4, <2>5, <2>6, <2>7 DEF GraphStep
<1> QED BY <1>1, <1>2, <1>3, <1>4, <1>5, <1>6, <1>7, <1>8 DEF Next, HandlerStep

\* With one handler at a time the graph that was checked is the graph, or has lost edges,
\* when the dependency is inserted.
LEMMA GraphStepInv ==
  ASSUME \A r, s \in Request : r = s,
         TypeOK, GraphInv, [Next]_vars
  PROVE  GraphInv'
<1> USE DEF GraphInv, DependenciesAcyclic, TypeOK
<1>1. ASSUME NEW r \in Request, CreateTaskDependency(r) PROVE GraphInv'
  <2> DEFINE h == req[r]
  <2>1. /\ h.pc = "createDependency" /\ h.task \in Task /\ h.other \in Task
        /\ ~Reaches(dependencies, h.other, h.task)
    BY <1>1 DEF CreateTaskDependency, At, HandlersOK, HandlerOK, CycleChecked
  <2>2. AcyclicOn(dependencies \cup {<<h.task, h.other>>})
    BY <2>1, SafeEdge
  <2>3. dependencies' \in {dependencies, dependencies \cup {<<h.task, h.other>>}}
    BY <1>1 DEF CreateTaskDependency
  <2>4. \A s \in Request : req'[s].pc = "idle"
    BY <1>1 DEF CreateTaskDependency, Finish, Resting, HandlersOK
  <2> QED BY <2>2, <2>3, <2>4 DEF CycleChecked
<1>2. CASE dependencies' \subseteq dependencies /\ ReachesInsert
  <2>1. AcyclicOn(dependencies')
    BY <1>2, AcyclicMonotone
  <2>2. ASSUME NEW s \in Request, req'[s].pc = "createDependency"
        PROVE  ~Reaches(dependencies', req'[s].other, req'[s].task)
    <3>1. CASE req'[s] = req[s]
      <4>1. ~Reaches(dependencies, req[s].other, req[s].task)
        BY <2>2, <3>1 DEF CycleChecked
      <4> QED BY <1>2, <3>1, <4>1, ReachesMonotone
    <3>2. CASE CheckCycle(s)
      <4>1. /\ req'[s].other = req[s].other /\ req'[s].task = req[s].task
            /\ ~CheckCircularDependency(req[s].task, req[s].other)
        BY <2>2, <3>2 DEF CheckCycle, Goto, Finish, Resting, HandlersOK, Handler
      <4> QED BY <1>2, <4>1, ReachesMonotone DEF CheckCircularDependency
    <3> QED BY <1>2, <2>2, <3>1, <3>2 DEF ReachesInsert
  <2> QED BY <2>1, <2>2 DEF CycleChecked
<1> QED BY <1>1, <1>2, OtherStepsKeepGraph

\* Requests served one at a time never build a cycle of dependencies.
THEOREM Acyclicity ==
  ASSUME \A r, s \in Request : r = s
  PROVE  Spec => []DependenciesAcyclic
<1>1. Init => GraphInv
  BY DEF Init, GraphInv, DependenciesAcyclic, AcyclicOn, CycleChecked, Resting
<1>2. TypeOK /\ GraphInv /\ [Next]_vars => GraphInv'
  BY GraphStepInv
<1>3. GraphInv => DependenciesAcyclic
  BY DEF GraphInv
<1> QED BY <1>1, <1>2, <1>3, TypeCorrect, PTL DEF Spec

-----------------------------------------------------------------------------
(***************************************************************************)
(* What the rows refer to, how many timers run, and what requests served    *)
(* one at a time may rely on.                                               *)
(***************************************************************************)
\* A handler reaches a step that uses what it read from the step that reads it: all others
\* stay where they are, or end.
Moves(r) ==
  \/ Begin(r) \/ CheckBlockers(r) \/ ReadStatus(r) \/ WriteStatus(r)
  \/ GenerateNextOccurrence(r) \/ CreateOccurrence(r) \/ GetActiveTimer(r) \/ ReadTimedTask(r)
  \/ CheckSubtasks(r) \/ CheckExisting(r) \/ CheckCycle(r)

LEMMA OneAtWork ==
  ASSUME TypeOK, [Next]_vars
  PROVE  \/ UNCHANGED req /\ (SingleWrite \/ Tick \/ UNCHANGED vars)
         \/ \E r \in Request :
              /\ Begin(r) \/ HandlerStep(r) \/ Abort(r)
              /\ Moves(r) \/ req'[r] = Resting
              /\ \A s \in Request \ {r} : req'[s] = req[s]
<1>1. ASSUME NEW r \in Request, NEW h, req' = [req EXCEPT ![r] = h]
      PROVE  req'[r] = h /\ \A s \in Request \ {r} : req'[s] = req[s]
  BY <1>1 DEF TypeOK, HandlersOK
<1>2. ASSUME NEW r \in Request, Finish(r)
      PROVE  req'[r] = Resting /\ \A s \in Request \ {r} : req'[s] = req[s]
  BY <1>1, <1>2 DEF Finish
<1>3. ASSUME NEW r \in Request, NEW s \in Step, Goto(r, s)
      PROVE  \A q \in Request \ {r} : req'[q] = req[q]
  BY <1>3 DEF Goto
<1>4. ASSUME NEW r \in Request, Begin(r)
      PROVE  Moves(r) /\ \A s \in Request \ {r} : req'[s] = req[s]
  <2>1. ASSUME NEW h, Accept(r, h) PROVE \A s \in Request \ {r} : req'[s] = req[s]
    BY <1>1, <2>1 DEF Accept
  <2>2. \E h : Accept(r, h)
    BY <1>4 DEF Begin, BeginChangeTaskStatus, BeginUpdateTask, BeginStartTimer,
                BeginStopTimer, BeginDeleteTimeEntry, BeginCreateTask, BeginDeleteTask,
                BeginCreateTaskDependency
  <2> QED BY <1>4, <2>1, <2>2 DEF Moves
<1>5. ASSUME NEW r \in Request, StatusStep(r)
      PROVE  Moves(r) \/ req'[r] = Resting
  BY <1>2, <1>5 DEF StatusStep, Moves, WriteStatusOfGone
<1>6. ASSUME NEW r \in Request, RecurrenceStep(r)
      PROVE  Moves(r) \/ req'[r] = Resting
  BY <1>2, <1>6 DEF RecurrenceStep, Moves, CreateOccurrenceFails, StampRule, EndSeries
<1>7. ASSUME NEW r \in Request, TimeStep(r)
      PROVE  Moves(r) \/ req'[r] = Resting
  BY <1>2, <1>7 DEF TimeStep, Moves, CreateTimer, CreateTimerFails, WriteEnd, DeleteTimeEntry
<1>8. ASSUME NEW r \in Request, GraphStep(r)
      PROVE  Moves(r) \/ req'[r] = Resting
  BY <1>2, <1>8 DEF GraphStep, Moves, CreateTask, CreateTaskFails, DeleteTask, DeleteTaskFails,
                    CreateTaskDependency
<1>9. ASSUME NEW r \in Request, HandlerStep(r), NEW s \in Request, s # r
      PROVE  req'[s] = req[s]
  <2> USE <1>9 DEF Goto, Finish, TypeOK, HandlersOK
  <2>1. CASE StatusStep(r)
    <3>1. CASE CheckBlockers(r)
      BY <3>1 DEF CheckBlockers
    <3>2. CASE ReadStatus(r)
      BY <3>2 DEF ReadStatus
    <3>3. CASE WriteStatus(r)
      BY <3>3 DEF WriteStatus
    <3>4. CASE WriteStatusOfGone(r)
      BY <3>4 DEF WriteStatusOfGone
    <3> QED BY <2>1, <3>1, <3>2, <3>3, <3>4 DEF StatusStep
  <2>2. CASE RecurrenceStep(r)
    <3>1. CASE GenerateNextOccurrence(r)
      BY <3>1 DEF GenerateNextOccurrence
    <3>2. CASE CreateOccurrence(r)
      BY <3>2 DEF CreateOccurrence
    <3>3. CASE CreateOccurrenceFails(r)
      BY <3>3 DEF CreateOccurrenceFails
    <3>4. CASE StampRule(r)
      BY <3>4 DEF StampRule
    <3>5. CASE EndSeries(r)
      BY <3>5 DEF EndSeries
    <3> QED BY <2>2, <3>1, <3>2, <3>3, <3>4, <3>5 DEF RecurrenceStep
  <2>3. CASE TimeStep(r)
    <3>1. CASE GetActiveTimer(r)
      BY <3>1 DEF GetActiveTimer
    <3>2. CASE ReadTimedTask(r)
      BY <3>2 DEF ReadTimedTask
    <3>3. CASE CreateTimer(r)
      BY <3>3 DEF CreateTimer
    <3>4. CASE CreateTimerFails(r)
      BY <3>4 DEF CreateTimerFails
    <3>5. CASE WriteEnd(r)
      BY <3>5 DEF WriteEnd
    <3>6. CASE DeleteTimeEntry(r)
      BY <3>6 DEF DeleteTimeEntry
    <3> QED BY <2>3, <3>1, <3>2, <3>3, <3>4, <3>5, <3>6 DEF TimeStep
  <2>4. CASE GraphStep(r)
    <3>1. CASE CreateTask(r)
      BY <3>1 DEF CreateTask
    <3>2. CASE CreateTaskFails(r)
      BY <3>2 DEF CreateTaskFails
    <3>3. CASE CheckSubtasks(r)
      BY <3>3 DEF CheckSubtasks
    <3>4. CASE DeleteTask(r)
      BY <3>4 DEF DeleteTask
    <3>5. CASE DeleteTaskFails(r)
      BY <3>5 DEF DeleteTaskFails
    <3>6. CASE CheckExisting(r)
      BY <3>6 DEF CheckExisting
    <3>7. CASE CheckCycle(r)
      BY <3>7 DEF CheckCycle
    <3>8. CASE CreateTaskDependency(r)
      BY <3>8 DEF CreateTaskDependency
    <3> QED BY <2>4, <3>1, <3>2, <3>3, <3>4, <3>5, <3>6, <3>7, <3>8 DEF GraphStep
  <2> QED BY <2>1, <2>2, <2>3, <2>4 DEF HandlerStep
<1>10. CASE SingleWrite \/ Tick
  BY <1>10 DEF SingleWrite, SetRecurrence, RemoveRecurrence, UpdateProject,
               CreateManualTimeEntry, DeleteTaskDependency, Tick
<1>11. CASE UNCHANGED vars
  BY <1>11 DEF vars
<1>12. ASSUME NEW r \in Request, Abort(r)
       PROVE  req'[r] = Resting /\ \A s \in Request \ {r} : req'[s] = req[s]
  BY <1>2, <1>12 DEF Abort
<1> QED BY <1>4, <1>5, <1>6, <1>7, <1>8, <1>9, <1>10, <1>11, <1>12 DEF Next, HandlerStep

-----------------------------------------------------------------------------
(***************************************************************************)
(* Identifiers are used once: a row that was inserted stays what it was       *)
(* inserted for until it is deleted, and is not inserted again.               *)
(***************************************************************************)
TaskKept(t) ==
  task[t].row # "none" =>
    /\ task'[t].row # "none"
    /\ task'[t].row = "live" => task[t].row = "live" /\ task'[t].project = task[t].project
EntryKept(e) ==
  entry[e].row # "none" =>
    /\ entry'[e].row # "none"
    /\ entry'[e].row = "live" =>
         /\ entry[e].row = "live" /\ entry'[e].start = entry[e].start
         /\ entry'[e].manual = entry[e].manual /\ entry'[e].user = entry[e].user
         /\ entry'[e].task = entry[e].task

LEMMA TasksKept ==
  ASSUME TypeOK, [Next]_vars, NEW t \in Task
  PROVE  TaskKept(t)
<1> USE DEF TaskKept
<1>1. task[t] \in TaskRow
  BY DEF TypeOK, RowsOK
<1>2. ASSUME NEW r \in Request, TaskWrite(r) PROVE TaskKept(t)
  <2> USE DEF TypeOK, RowsOK, TaskRow
  <2>1. CASE WriteStatus(r)
    BY <1>1, <2>1 DEF WriteStatus
  <2>2. CASE CreateOccurrence(r)
    BY <1>1, <2>2 DEF CreateOccurrence
  <2>3. CASE CreateTimer(r)
    BY <1>1, <2>3 DEF CreateTimer
  <2>4. CASE CreateTask(r)
    BY <1>1, <2>4 DEF CreateTask
  <2>5. CASE DeleteTask(r)
    BY <1>1, <2>5 DEF DeleteTask, NoTaskRow
  <2> QED BY <1>2, <2>1, <2>2, <2>3, <2>4, <2>5 DEF TaskWrite
<1> QED BY <1>2, OtherStepsKeepTasks

\* The steps that write a time entry.
EntryWrite ==
  \/ \E r \in Request : CreateTimer(r) \/ WriteEnd(r) \/ DeleteTimeEntry(r) \/ DeleteTask(r)
  \/ CreateManualTimeEntry

LEMMA OtherStepsKeepEntries ==
  ASSUME [Next]_vars
  PROVE  EntryWrite \/ UNCHANGED entry
<1>1. CASE UNCHANGED vars
  BY <1>1 DEF vars
<1>2. CASE SingleWrite \/ Tick
  BY <1>2 DEF SingleWrite, SetRecurrence, RemoveRecurrence, UpdateProject, EntryWrite,
              DeleteTaskDependency, Tick
<1>3. ASSUME NEW r \in Request, Begin(r) PROVE UNCHANGED entry
  BY <1>3 DEF Begin, BeginChangeTaskStatus, BeginUpdateTask, BeginStartTimer, BeginStopTimer,
         BeginDeleteTimeEntry, BeginCreateTask, BeginDeleteTask, BeginCreateTaskDependency
<1>4. ASSUME NEW r \in Request, Abort(r) PROVE UNCHANGED entry
  BY <1>4 DEF Abort
<1>5. ASSUME NEW r \in Request, StatusStep(r) PROVE UNCHANGED entry
  BY <1>5 DEF StatusStep, CheckBlockers, ReadStatus, WriteStatus, WriteStatusOfGone
<1>6. ASSUME NEW r \in Request, RecurrenceStep(r) PROVE UNCHANGED entry
  BY <1>6 DEF RecurrenceStep, GenerateNextOccurrence, CreateOccurrence, CreateOccurrenceFails,
              StampRule, EndSeries
<1>7. ASSUME NEW r \in Request, TimeStep(r) PROVE EntryWrite \/ UNCHANGED entry
  BY <1>7 DEF TimeStep, EntryWrite, GetActiveTimer, ReadTimedTask, CreateTimerFails
<1>8. ASSUME NEW r \in Request, GraphStep(r) PROVE EntryWrite \/ UNCHANGED entry
  BY <1>8 DEF GraphStep, EntryWrite, CreateTask, CreateTaskFails, CheckSubtasks,
              DeleteTaskFails, CheckExisting, CheckCycle, CreateTaskDependency
<1> QED BY <1>1, <1>2, <1>3, <1>4, <1>5, <1>6, <1>7, <1>8 DEF Next, HandlerStep

LEMMA EntriesKept ==
  ASSUME TypeOK, [Next]_vars, NEW e \in Entry
  PROVE  EntryKept(e)
<1> USE DEF EntryKept
<1>1. entry[e] \in EntryRow
  BY DEF TypeOK, RowsOK
<1>2. ASSUME NEW r \in Request, CreateTimer(r) PROVE EntryKept(e)
  BY <1>1, <1>2 DEF CreateTimer, TypeOK, RowsOK, EntryRow
<1>3. ASSUME NEW r \in Request, WriteEnd(r) PROVE EntryKept(e)
  <2>1. entry' = entry \/ entry' = [entry EXCEPT ![req[r].entry].end = req[r].at]
    BY <1>3 DEF WriteEnd
  <2> QED BY <1>1, <2>1 DEF TypeOK, RowsOK, EntryRow
<1>4. ASSUME NEW r \in Request, DeleteTimeEntry(r) PROVE EntryKept(e)
  BY <1>1, <1>4 DEF DeleteTimeEntry, NoEntryRow, TypeOK, RowsOK, EntryRow
<1>5. ASSUME NEW r \in Request, DeleteTask(r) PROVE EntryKept(e)
  BY <1>1, <1>5 DEF DeleteTask, NoEntryRow
<1>6. CASE CreateManualTimeEntry
  BY <1>1, <1>6 DEF CreateManualTimeEntry, TypeOK, RowsOK, EntryRow
<1> QED BY <1>2, <1>3, <1>4, <1>5, <1>6, OtherStepsKeepEntries DEF EntryWrite

LEMMA TimePasses ==
  ASSUME TypeOK, [Next]_vars
  PROVE  now <= now'
<1>1. now \in Nat
  BY DEF TypeOK, RowsOK
<1>2. now' = now \/ now' = now + 1
  <2>1. CASE UNCHANGED vars
    BY <2>1 DEF vars
  <2>2. CASE SingleWrite \/ Tick
    BY <2>2 DEF SingleWrite, SetRecurrence, RemoveRecurrence, UpdateProject,
                CreateManualTimeEntry, DeleteTaskDependency, Tick
  <2>3. ASSUME NEW r \in Request, Begin(r) \/ Abort(r) PROVE now' = now
    BY <2>3 DEF Begin, BeginChangeTaskStatus, BeginUpdateTask, BeginStartTimer, BeginStopTimer,
         BeginDeleteTimeEntry, BeginCreateTask, BeginDeleteTask, BeginCreateTaskDependency, Abort
  <2>4. ASSUME NEW r \in Request, StatusStep(r) \/ RecurrenceStep(r) PROVE now' = now
    BY <2>4 DEF StatusStep, CheckBlockers, ReadStatus, WriteStatus, WriteStatusOfGone,
                RecurrenceStep, GenerateNextOccurrence, CreateOccurrence, CreateOccurrenceFails,
                StampRule, EndSeries
  <2>5. ASSUME NEW r \in Request, TimeStep(r) PROVE now' = now
    BY <2>5 DEF TimeStep, GetActiveTimer, ReadTimedTask, CreateTimer, CreateTimerFails, WriteEnd,
                DeleteTimeEntry
  <2>6. ASSUME NEW r \in Request, GraphStep(r) PROVE now' = now
    BY <2>6 DEF GraphStep, CreateTask, CreateTaskFails, CheckSubtasks, DeleteTask,
                DeleteTaskFails, CheckExisting, CheckCycle, CreateTaskDependency
  <2> QED BY <2>1, <2>2, <2>3, <2>4, <2>5, <2>6 DEF Next, HandlerStep
<1> QED BY <1>1, <1>2

-----------------------------------------------------------------------------
(***************************************************************************)
(* What a handler has read, and still knows when it writes.                  *)
(***************************************************************************)
\* Two distinct tasks, of one project if both exist still.
DependencyRead(h) ==
  h.pc \in {"existing", "cycle", "createDependency"} =>
    /\ h.task # h.other /\ task[h.task].row # "none" /\ task[h.other].row # "none"
    /\ {h.task, h.other} \subseteq Live => task[h.task].project = task[h.other].project
\* A parent of the project, if it exists still.
ParentRead(h) ==
  h.pc = "createTask" /\ h.other # Null =>
    /\ task[h.other].row # "none"
    /\ h.other \in Live => task[h.other].project = h.project
\* An instant that is past, and no earlier than the start of the timer to be stopped.
InstantRead(h) ==
  /\ h.pc \in {"createEntry", "writeEnd"} => h.at <= now
  /\ h.pc = "writeEnd" =>
       /\ entry[h.entry].row # "none"
       /\ entry[h.entry].row = "live" => entry[h.entry].start <= h.at
Knows(h) == DependencyRead(h) /\ ParentRead(h) /\ InstantRead(h)

LEMMA StillKnows ==
  ASSUME TypeOK, [Next]_vars, NEW h \in Handler, HandlerOK(h), Knows(h)
  PROVE  Knows(h)'
<1>1. DependencyRead(h)'
  BY TasksKept DEF Knows, DependencyRead, HandlerOK, TaskKept, Live
<1>2. ParentRead(h)'
  <2>1. h.other # Null => h.other \in Task
    BY DEF Handler
  <2> QED BY <2>1, TasksKept DEF Knows, ParentRead, TaskKept, Live
<1>3. InstantRead(h)'
  <2>1. now \in Nat /\ now' \in Nat /\ now <= now'
    BY TimePasses, NextType DEF TypeOK, RowsOK
  <2>2. h.pc \in {"createEntry", "writeEnd"} => h.at \in Nat
    BY DEF HandlerOK
  <2>3. h.pc = "writeEnd" => h.entry \in Entry
    BY DEF HandlerOK
  <2> QED BY <2>1, <2>2, <2>3, EntriesKept DEF Knows, InstantRead, EntryKept
<1> QED BY <1>1, <1>2, <1>3 DEF Knows

\* No timer starts in the future.
TimersStarted ==
  \A e \in Entry : entry[e].row = "live" /\ ~entry[e].manual => entry[e].start <= now
AllKnow == \A r \in Request : Knows(req[r])

LEMMA KnowsStep ==
  ASSUME TypeOK, TimersStarted, AllKnow, [Next]_vars
  PROVE  AllKnow'
<1> SUFFICES ASSUME NEW s \in Request PROVE Knows(req[s])'
  BY DEF AllKnow
<1> DEFINE Reading == {"existing", "cycle", "createDependency", "createTask", "createEntry",
                       "writeEnd"}
<1>0. req[s] \in Handler /\ HandlerOK(req[s]) /\ Knows(req[s])
  BY DEF TypeOK, HandlersOK, AllKnow
<1>1. CASE req'[s] = req[s]
  <2>1. PICK h \in Handler : h = req[s]
    BY <1>0
  <2>2. Knows(h)'
    BY <1>0, <2>1, StillKnows
  <2> QED BY <1>1, <2>1, <2>2 DEF Knows, DependencyRead, ParentRead, InstantRead
<1>2. CASE req'[s].pc \notin Reading
  BY <1>2 DEF Knows, DependencyRead, ParentRead, InstantRead
<1>3. CASE BeginCreateTask(s)
  <2>1. PICK p \in Project, parent \in Live \cup {Null} :
          /\ parent # Null => SameProject(parent, p)
          /\ Accept(s, [Resting EXCEPT !.op = "createTask", !.pc = "createTask",
                                       !.project = p, !.other = parent])
    BY <1>3 DEF BeginCreateTask
  <2>2. req'[s].pc = "createTask" /\ req'[s].project = p /\ req'[s].other = parent
    BY <2>1 DEF Accept, Resting, TypeOK, HandlersOK
  <2>3. task' = task
    BY <1>3 DEF BeginCreateTask
  <2> QED BY <2>1, <2>2, <2>3
          DEF Knows, DependencyRead, ParentRead, InstantRead, Live, SameProject
<1>4. CASE BeginCreateTaskDependency(s)
  <2>1. PICK t \in Live, b \in Live :
          /\ SameProject(b, task[t].project) /\ t # b
          /\ Accept(s, [Resting EXCEPT !.op = "createTaskDependency", !.pc = "existing",
                                       !.task = t, !.other = b])
    BY <1>4 DEF BeginCreateTaskDependency
  <2>2. req'[s].pc = "existing" /\ req'[s].task = t /\ req'[s].other = b
    BY <2>1 DEF Accept, Resting, TypeOK, HandlersOK
  <2>3. task' = task
    BY <1>4 DEF BeginCreateTaskDependency
  <2> QED BY <2>1, <2>2, <2>3
          DEF Knows, DependencyRead, ParentRead, InstantRead, Live, SameProject
<1>5. ASSUME Begin(s), ~BeginCreateTask(s), ~BeginCreateTaskDependency(s)
      PROVE  req'[s].pc \notin Reading
  <2> USE DEF Accept, Resting, TypeOK, HandlersOK
  <2>1. CASE BeginChangeTaskStatus(s)
    BY <2>1 DEF BeginChangeTaskStatus
  <2>2. CASE BeginUpdateTask(s)
    BY <2>2 DEF BeginUpdateTask
  <2>3. CASE BeginStartTimer(s)
    BY <2>3 DEF BeginStartTimer
  <2>4. CASE BeginStopTimer(s)
    BY <2>4 DEF BeginStopTimer
  <2>5. CASE BeginDeleteTimeEntry(s)
    BY <2>5 DEF BeginDeleteTimeEntry
  <2>6. CASE BeginDeleteTask(s)
    BY <2>6 DEF BeginDeleteTask
  <2> QED BY <1>5, <2>1, <2>2, <2>3, <2>4, <2>5, <2>6 DEF Begin
<1>6. ASSUME CheckBlockers(s) \/ ReadStatus(s) \/ WriteStatus(s) \/ GenerateNextOccurrence(s)
             \/ CreateOccurrence(s) \/ CheckSubtasks(s)
      PROVE  req'[s].pc \notin Reading
  <2> USE <1>0 DEF Goto, Finish, Resting, TypeOK, HandlersOK, Handler
  <2>1. CASE CheckBlockers(s)
    BY <2>1 DEF CheckBlockers
  <2>2. CASE ReadStatus(s)
    BY <2>2 DEF ReadStatus
  <2>3. CASE WriteStatus(s)
    BY <2>3 DEF WriteStatus
  <2>4. CASE GenerateNextOccurrence(s)
    BY <2>4 DEF GenerateNextOccurrence
  <2>5. CASE CreateOccurrence(s)
    BY <2>5 DEF CreateOccurrence
  <2>6. CASE CheckSubtasks(s)
    BY <2>6 DEF CheckSubtasks
  <2> QED BY <1>6, <2>1, <2>2, <2>3, <2>4, <2>5, <2>6
<1>7. CASE GetActiveTimer(s)
  <2>1. entry' = entry /\ now' = now /\ now \in Nat
    BY <1>7 DEF GetActiveTimer, TypeOK, RowsOK
  <2>2. ASSUME NEW e \in ActiveTimers(req[s].user),
               req' = [req EXCEPT ![s].pc = "writeEnd", ![s].entry = e, ![s].at = now]
        PROVE  Knows(req[s])'
    <3>1. req'[s].pc = "writeEnd" /\ req'[s].entry = e /\ req'[s].at = now
      BY <1>0, <2>2 DEF TypeOK, HandlersOK, Handler
    <3>2. e \in Entry /\ entry[e].row = "live" /\ entry[e].start <= now
      BY DEF ActiveTimers, TimersStarted
    <3> QED BY <2>1, <3>1, <3>2 DEF Knows, DependencyRead, ParentRead, InstantRead
  <2>3. ASSUME Goto(s, "readTask") \/ Finish(s) PROVE Knows(req[s])'
    <3>1. req'[s].pc \notin Reading
      BY <1>0, <2>3 DEF Goto, Finish, Resting, TypeOK, HandlersOK, Handler
    <3> QED BY <1>2, <3>1
  <2> QED BY <1>7, <2>2, <2>3 DEF GetActiveTimer
<1>8. CASE ReadTimedTask(s)
  <2>1. /\ now' = now /\ now \in Nat
        /\ req'[s].pc \in Reading => req'[s].pc = "createEntry" /\ req'[s].at = now
    BY <1>0, <1>8 DEF ReadTimedTask, Finish, Resting, TypeOK, RowsOK, HandlersOK, Handler
  <2> QED BY <2>1 DEF Knows, DependencyRead, ParentRead, InstantRead
<1>9. CASE CheckExisting(s) \/ CheckCycle(s)
  <2>1. /\ task' = task /\ req[s].pc \in {"existing", "cycle"}
        /\ \/ req'[s].pc \notin Reading
           \/ /\ req'[s].pc \in {"cycle", "createDependency"}
              /\ req'[s].task = req[s].task /\ req'[s].other = req[s].other
    BY <1>0, <1>9
       DEF CheckExisting, CheckCycle, At, Goto, Finish, Resting, TypeOK, HandlersOK, Handler
  <2> QED BY <1>0, <2>1 DEF Knows, DependencyRead, ParentRead, InstantRead, Live
<1>10. Resting.pc \notin Reading
  BY DEF Resting
<1> QED BY <1>1, <1>2, <1>3, <1>4, <1>5, <1>6, <1>7, <1>8, <1>9, <1>10, OneAtWork DEF Moves

-----------------------------------------------------------------------------
(***************************************************************************)
(* What the rows of one table say of another's.                              *)
(***************************************************************************)
\* Only its own deletion takes a task away, or what it is and what it stands under.
LEMMA TasksStay ==
  ASSUME TypeOK, [Next]_vars, \A r \in Request : ~DeleteTask(r), NEW t \in Live
  PROVE  /\ task'[t].row = "live" /\ task'[t].project = task[t].project
         /\ task'[t].parent = task[t].parent
<1>1. t \in Task /\ task[t].row = "live" /\ task[t] \in TaskRow
  BY DEF Live, TypeOK, RowsOK
<1>2. ASSUME NEW r \in Request, TaskWrite(r)
      PROVE  /\ task'[t].row = "live" /\ task'[t].project = task[t].project
             /\ task'[t].parent = task[t].parent
  <2> USE DEF TypeOK, RowsOK, TaskRow
  <2>1. CASE WriteStatus(r)
    BY <1>1, <2>1 DEF WriteStatus
  <2>2. CASE CreateOccurrence(r)
    BY <1>1, <2>2 DEF CreateOccurrence
  <2>3. CASE CreateTimer(r)
    BY <1>1, <2>3 DEF CreateTimer
  <2>4. CASE CreateTask(r)
    BY <1>1, <2>4 DEF CreateTask
  <2> QED BY <1>2, <2>1, <2>2, <2>3, <2>4 DEF TaskWrite
<1> QED BY <1>1, <1>2, OtherStepsKeepTasks

LEMMA DependencyStep ==
  ASSUME TypeOK, AllKnow, DependencyIntegrity, [Next]_vars
  PROVE  DependencyIntegrity'
<1>0. dependencies \subseteq Task \X Task /\ Live \subseteq Task
  BY DEF TypeOK, RowsOK, Live
<1>1. ASSUME NEW r \in Request, CreateTaskDependency(r) PROVE DependencyIntegrity'
  <2> DEFINE h == req[r]
  <2>1. task' = task
    BY <1>1 DEF CreateTaskDependency
  <2>2. h.task # h.other /\ ({h.task, h.other} \subseteq Live =>
                               task[h.task].project = task[h.other].project)
    BY <1>1 DEF CreateTaskDependency, At, AllKnow, Knows, DependencyRead
  <2>3. dependencies' = IF {h.task, h.other} \subseteq Live
                        THEN dependencies \cup {<<h.task, h.other>>} ELSE dependencies
    BY <1>1 DEF CreateTaskDependency
  <2> HIDE DEF h
  <2> QED BY <2>1, <2>2, <2>3 DEF DependencyIntegrity, Live
<1>2. ASSUME NEW r \in Request, DeleteTask(r) PROVE DependencyIntegrity'
  <2> DEFINE t == req[r].task
  <2>1. dependencies' = dependencies /\ \A d \in dependencies : t \notin {d[1], d[2]}
    BY <1>2 DEF DeleteTask, Restricted
  <2>2. \A u \in Live \ {t} : task'[u].row = "live" /\ task'[u].project = task[u].project
    BY <1>2, <1>0 DEF DeleteTask, Live, TypeOK, RowsOK, TaskRow
  <2> HIDE DEF t
  <2> QED BY <1>0, <2>1, <2>2 DEF DependencyIntegrity, Live
<1>3. CASE /\ \A r \in Request : ~DeleteTask(r)
           /\ dependencies' \subseteq dependencies
  BY <1>0, <1>3, TasksStay DEF DependencyIntegrity, Live
<1> QED BY <1>1, <1>2, <1>3, OtherStepsKeepGraph

\* A new task stands under one that exists, or under none; nothing stands under it.
LEMMA ForestGrows ==
  ASSUME TypeOK, HierarchyIsForest, NEW n \in Task, task[n].row = "none",
         NEW p \in Live \cup {Null}, NEW project, NEW model,
         p # Null => task[p].project = project,
         task' = [task EXCEPT ![n] = NewTask(project, p, model)]
  PROVE  HierarchyIsForest'
<1>1. /\ n \notin Live /\ Live' = Live \cup {n}
      /\ task'[n].parent = p /\ task'[n].project = project
      /\ \A t \in Live : task'[t] = task[t]
  BY DEF TypeOK, RowsOK, Live
<1>2. \A t \in Live : task[t].parent \in Live \cup {Null}
  BY DEF HierarchyIsForest
<1>3. n # Null /\ Null \notin Live
  BY NullAssumption DEF Live
<1>4. ASSUME NEW t \in Live', task'[t].parent # Null
      PROVE  task'[t].parent \in Live' /\ task'[task'[t].parent].project = task'[t].project
  <2>1. CASE t = n
    BY <1>1, <1>4, <2>1
  <2>2. CASE t \in Live
    BY <1>1, <1>4, <2>2 DEF HierarchyIsForest
  <2> QED BY <1>1, <2>1, <2>2
<1>5. ASSUME NEW S \in SUBSET Live', S # {}, \A t \in S : task'[t].parent \in S
      PROVE  FALSE
  <2> DEFINE R == S \ {n}
  <2>1. R \in SUBSET Live
    BY <1>1
  <2>2. \A t \in R : task[t].parent \in R
    BY <1>1, <1>2, <1>3, <1>5
  <2>3. R # {}
    BY <1>1, <1>3, <1>5
  <2> QED BY <2>1, <2>2, <2>3 DEF HierarchyIsForest
<1> QED BY <1>4, <1>5 DEF HierarchyIsForest

LEMMA ForestStep ==
  ASSUME TypeOK, AllKnow, HierarchyIsForest, [Next]_vars
  PROVE  HierarchyIsForest'
<1>1. ASSUME NEW r \in Request, CreateTask(r) PROVE HierarchyIsForest'
  <2>1. PICK n \in Task :
          task[n].row = "none"
            /\ task' = [task EXCEPT ![n] = NewTask(req[r].project, req[r].other, Null)]
    BY <1>1 DEF CreateTask
  <2>2. /\ req[r].other \in Live \cup {Null}
        /\ req[r].other # Null => task[req[r].other].project = req[r].project
    BY <1>1 DEF CreateTask, At, AllKnow, Knows, ParentRead
  <2> QED BY <2>1, <2>2, ForestGrows
<1>2. ASSUME NEW r \in Request, CreateOccurrence(r) PROVE HierarchyIsForest'
  <2>1. PICK n \in Task :
          task[n].row = "none"
            /\ task' = [task EXCEPT ![n] = NewTask(req[r].project, Null, req[r].task)]
    BY <1>2 DEF CreateOccurrence
  <2> QED BY <2>1, ForestGrows
<1>3. ASSUME NEW r \in Request, DeleteTask(r) PROVE HierarchyIsForest'
  <2> DEFINE t == req[r].task
  <2>1. /\ Live' = Live \ {t}
        /\ \A u \in Live' :
             /\ task'[u].project = task[u].project
             /\ task'[u].parent = IF task[u].parent = t THEN Null ELSE task[u].parent
    <3>1. ASSUME NEW u \in Task
          PROVE  /\ u = t => task'[u].row = "gone"
                 /\ u # t => task'[u].row = task[u].row /\ task'[u].project = task[u].project
                 /\ u # t => task'[u].parent = IF task[u].parent = t THEN Null
                                               ELSE task[u].parent
      <4>1. task[u] \in TaskRow
        BY DEF TypeOK, RowsOK
      <4>2. task'[u] = IF u = t THEN NoTaskRow("gone")
                       ELSE [task[u] EXCEPT !.parent = IF @ = t THEN Null ELSE @,
                                            !.recurrenceOf = IF @ = t THEN Null ELSE @]
        BY <1>3 DEF DeleteTask
      <4> QED BY <4>1, <4>2 DEF NoTaskRow, TaskRow
    <3> HIDE DEF t
    <3> QED BY <3>1 DEF Live
  <2>2. Null \notin Live
    BY NullAssumption DEF Live
  <2> HIDE DEF t
  <2>3. ASSUME NEW u \in Live', task'[u].parent # Null
        PROVE  task'[u].parent \in Live' /\ task'[task'[u].parent].project = task'[u].project
    BY <2>1, <2>3 DEF HierarchyIsForest
  <2>4. ASSUME NEW S \in SUBSET Live', S # {}, \A u \in S : task'[u].parent \in S
        PROVE  FALSE
    <3>1. S \in SUBSET Live /\ \A u \in S : task[u].parent \in S
      BY <2>1, <2>2, <2>4
    <3> QED BY <2>4, <3>1 DEF HierarchyIsForest
  <2> QED BY <2>3, <2>4 DEF HierarchyIsForest
<1>4. ASSUME \A r \in Request : ~DeleteTask(r) /\ ~CreateTask(r) /\ ~CreateOccurrence(r)
      PROVE  HierarchyIsForest'
  <2>1. Live' = Live
    <3>1. ASSUME NEW r \in Request, WriteStatus(r) PROVE Live' = Live
      BY <3>1 DEF WriteStatus, Live, TypeOK, RowsOK, TaskRow
    <3>2. ASSUME NEW r \in Request, CreateTimer(r) PROVE Live' = Live
      BY <3>2 DEF CreateTimer, Live, TypeOK, RowsOK, TaskRow
    <3>3. CASE UNCHANGED task
      BY <3>3 DEF Live
    <3> QED BY <1>4, <3>1, <3>2, <3>3, OtherStepsKeepTasks DEF TaskWrite
  <2>2. \A t \in Live : task'[t].project = task[t].project /\ task'[t].parent = task[t].parent
    BY <1>4, TasksStay
  <2> QED BY <2>1, <2>2 DEF HierarchyIsForest
<1> QED BY <1>1, <1>2, <1>3, <1>4

LEMMA EntriesStep ==
  ASSUME TypeOK, AllKnow, EntriesWellFormed, TimersStarted, [Next]_vars
  PROVE  EntriesWellFormed' /\ TimersStarted'
<1> DEFINE Sound(e) == entry[e].row = "live" =>
             /\ entry[e].task \in Live
             /\ entry[e].end # Null => entry[e].end >= entry[e].start
             /\ entry[e].end = Null => ~entry[e].manual
             /\ ~entry[e].manual => entry[e].start <= now
<1> SUFFICES ASSUME NEW e \in Entry PROVE Sound(e)'
  BY DEF EntriesWellFormed, TimersStarted
<1>0. /\ Sound(e) /\ entry[e] \in EntryRow /\ now \in Nat /\ now' \in Nat /\ now <= now'
      /\ Null \notin Nat
  BY TimePasses, NextType, NullAssumption DEF EntriesWellFormed, TimersStarted, TypeOK, RowsOK
<1>1. \A r \in Request : /\ req[r] \in Handler /\ HandlerOK(req[r]) /\ InstantRead(req[r])
  BY DEF TypeOK, HandlersOK, AllKnow, Knows
<1>2. ASSUME NEW r \in Request, DeleteTask(r) PROVE Sound(e)'
  <2> DEFINE t == req[r].task
  <2>1. entry'[e] = IF entry[e].task = t THEN NoEntryRow("gone") ELSE entry[e]
    BY <1>2 DEF DeleteTask
  <2>2. \A u \in Live \ {t} : u \in Live'
    BY <1>2 DEF DeleteTask, Live, TypeOK, RowsOK, TaskRow
  <2>3. now' = now
    BY <1>2 DEF DeleteTask
  <2> HIDE DEF t
  <2> QED BY <1>0, <2>1, <2>2, <2>3 DEF NoEntryRow
<1>3. ASSUME \A r \in Request : ~DeleteTask(r) PROVE Sound(e)'
  <2>1. \A t \in Live : t \in Live'
    BY <1>3, TasksStay DEF Live
  <2>2. CASE entry'[e] = entry[e]
    BY <1>0, <2>1, <2>2 DEF EntryRow
  <2>3. ASSUME NEW r \in Request, CreateTimer(r), entry'[e] # entry[e] PROVE Sound(e)'
    <3>1. /\ req[r].task \in Live /\ req[r].at \in Nat /\ req[r].at <= now /\ now' = now
          /\ entry'[e] = [row |-> "live", task |-> req[r].task, user |-> req[r].user,
                          start |-> req[r].at, end |-> Null, manual |-> FALSE]
      BY <1>1, <2>3 DEF CreateTimer, At, HandlerOK, InstantRead, TypeOK, RowsOK
    <3> QED BY <2>1, <3>1
  <2>4. ASSUME NEW r \in Request, WriteEnd(r), entry'[e] # entry[e] PROVE Sound(e)'
    <3>1. /\ req[r].entry = e /\ entry[e].row = "live" /\ req[r].at \in Nat
          /\ entry[e].start <= req[r].at
          /\ entry'[e] = [entry[e] EXCEPT !.end = req[r].at] /\ now' = now
      BY <1>1, <2>4 DEF WriteEnd, At, HandlerOK, InstantRead, TypeOK, RowsOK
    <3> QED BY <1>0, <2>1, <3>1 DEF EntryRow
  <2>5. ASSUME NEW r \in Request, DeleteTimeEntry(r), entry'[e] # entry[e] PROVE Sound(e)'
    BY <1>1, <2>5 DEF DeleteTimeEntry, NoEntryRow, TypeOK, RowsOK
  <2>6. ASSUME CreateManualTimeEntry, entry'[e] # entry[e] PROVE Sound(e)'
    BY <2>1, <2>6, MaxTimeAssumption, NullAssumption DEF CreateManualTimeEntry, TypeOK, RowsOK
  <2> HIDE DEF Sound
  <2> QED BY <1>3, <2>2, <2>3, <2>4, <2>5, <2>6, OtherStepsKeepEntries DEF EntryWrite
<1> QED BY <1>2, <1>3

RowsInv == RowsWellFormed /\ AllKnow /\ TimersStarted

LEMMA AlwaysRows == Spec => []RowsInv
<1>1. Init => RowsInv
  BY InitType, NullAssumption
     DEF Init, RowsInv, RowsWellFormed, DependencyIntegrity, HierarchyIsForest,
         EntriesWellFormed, AllKnow, Knows, DependencyRead, ParentRead, InstantRead,
         TimersStarted, Live, NoTaskRow, NoEntryRow, Resting
<1>2. RowsInv /\ [Next]_vars => RowsInv'
  BY NextType, KnowsStep, DependencyStep, ForestStep, EntriesStep DEF RowsInv, RowsWellFormed
<1> QED BY <1>1, <1>2, PTL DEF Spec

\* Whatever refers to a row refers to one that exists, of its own project: dependencies,
\* parents and time entries alike, also when the row is deleted while a handler that has read
\* it is about to write.
THEOREM RowsCorrect == Spec => []RowsWellFormed
BY AlwaysRows, PTL DEF RowsInv

-----------------------------------------------------------------------------
(***************************************************************************)
(* Timers.  A handler that found none running counts as one already: it may  *)
(* start one, and each handler starts one at most.                            *)
(***************************************************************************)
Starting(u) == {r \in Request : req[r].pc \in {"readTask", "createEntry"} /\ req[r].user = u}

LEMMA ActiveStep ==
  ASSUME TypeOK, [Next]_vars, NEW u \in User
  PROVE  \/ ActiveTimers(u)' \subseteq ActiveTimers(u)
         \/ \E r \in Request, e \in Entry :
              /\ CreateTimer(r) /\ req[r].user = u
              /\ ActiveTimers(u)' \subseteq ActiveTimers(u) \cup {e}
<1> DEFINE Active(e) == /\ entry[e].row = "live" /\ entry[e].user = u
                        /\ entry[e].end = Null /\ ~entry[e].manual
<1>0. entry \in [Entry -> EntryRow] /\ Null \notin Nat
  BY NullAssumption DEF TypeOK, RowsOK
<1>1. ASSUME NEW r \in Request, CreateTimer(r)
      PROVE  \/ ActiveTimers(u)' \subseteq ActiveTimers(u)
             \/ \E e \in Entry :
                  req[r].user = u /\ ActiveTimers(u)' \subseteq ActiveTimers(u) \cup {e}
  <2>1. PICK e \in Entry :
          entry' = [entry EXCEPT ![e] =
            [row |-> "live", task |-> req[r].task, user |-> req[r].user, start |-> req[r].at,
             end |-> Null, manual |-> FALSE]]
    BY <1>1 DEF CreateTimer
  <2>2. /\ \A f \in Entry \ {e} : entry'[f] = entry[f]
        /\ entry'[e].user = req[r].user
    BY <1>0, <2>1
  <2>3. CASE req[r].user = u
    BY <2>2, <2>3 DEF ActiveTimers
  <2>4. CASE req[r].user # u
    BY <2>2, <2>4 DEF ActiveTimers
  <2> QED BY <2>3, <2>4
<1>2. ASSUME NEW e \in Entry, Active(e)', ~\E r \in Request : CreateTimer(r) PROVE Active(e)
  <2>0. entry'[e].row = "live" /\ entry'[e].end = Null /\ ~entry'[e].manual
    BY <1>2
  <2>1. ASSUME NEW r \in Request, WriteEnd(r) PROVE entry'[e] = entry[e]
    <3>1. req[r].at \in Nat
      BY <2>1 DEF WriteEnd, At, TypeOK, HandlersOK, HandlerOK
    <3>2. entry'[e] = entry[e] \/ entry'[e].end = req[r].at
      BY <1>0, <2>1 DEF WriteEnd, EntryRow
    <3> QED BY <1>0, <2>0, <3>1, <3>2
  <2>2. ASSUME NEW r \in Request, DeleteTimeEntry(r) PROVE entry'[e] = entry[e]
    <3>1. entry'[e] \in {entry[e], NoEntryRow("gone")}
      BY <1>0, <2>2 DEF DeleteTimeEntry
    <3> QED BY <2>0, <3>1 DEF NoEntryRow
  <2>3. ASSUME NEW r \in Request, DeleteTask(r) PROVE entry'[e] = entry[e]
    <3>1. entry'[e] \in {entry[e], NoEntryRow("gone")}
      BY <1>0, <2>3 DEF DeleteTask
    <3> QED BY <2>0, <3>1 DEF NoEntryRow
  <2>4. ASSUME CreateManualTimeEntry PROVE entry'[e] = entry[e]
    <3>1. entry'[e] = entry[e] \/ entry'[e].manual
      BY <1>0, <2>4 DEF CreateManualTimeEntry
    <3> QED BY <2>0, <3>1
  <2>5. entry'[e] = entry[e]
    BY <1>2, <2>1, <2>2, <2>3, <2>4, OtherStepsKeepEntries DEF EntryWrite
  <2> QED BY <1>2, <2>5
<1>3. CASE ~\E r \in Request : CreateTimer(r)
  BY <1>2, <1>3 DEF ActiveTimers
<1> QED BY <1>1, <1>3

LEMMA StartingStep ==
  ASSUME TypeOK, [Next]_vars, NEW u \in User
  PROVE  \/ Starting(u)' \subseteq Starting(u)
         \/ ActiveTimers(u) = {} /\ UNCHANGED entry
<1> DEFINE Waiting == {"readTask", "createEntry"}
<1>0. \A s \in Request : req[s] \in Handler
  BY DEF TypeOK, HandlersOK
<1>1. ASSUME NEW s \in Request, Moves(s), req'[s].pc \in Waiting
      PROVE  GetActiveTimer(s) \/ ReadTimedTask(s)
  <2>1. CASE Begin(s)
    <3> USE DEF Accept, Resting, TypeOK, HandlersOK
    <3>1. CASE BeginChangeTaskStatus(s)
      BY <1>1, <3>1 DEF BeginChangeTaskStatus
    <3>2. CASE BeginUpdateTask(s)
      BY <1>1, <3>2 DEF BeginUpdateTask
    <3>3. CASE BeginStartTimer(s)
      BY <1>1, <3>3 DEF BeginStartTimer
    <3>4. CASE BeginStopTimer(s)
      BY <1>1, <3>4 DEF BeginStopTimer
    <3>5. CASE BeginDeleteTimeEntry(s)
      BY <1>1, <3>5 DEF BeginDeleteTimeEntry
    <3>6. CASE BeginCreateTask(s)
      BY <1>1, <3>6 DEF BeginCreateTask
    <3>7. CASE BeginDeleteTask(s)
      BY <1>1, <3>7 DEF BeginDeleteTask
    <3>8. CASE BeginCreateTaskDependency(s)
      BY <1>1, <3>8 DEF BeginCreateTaskDependency
    <3> QED BY <2>1, <3>1, <3>2, <3>3, <3>4, <3>5, <3>6, <3>7, <3>8 DEF Begin
  <2> USE <1>0, <1>1 DEF Goto, Finish, Resting, TypeOK, HandlersOK, Handler
  <2>2. ~CheckBlockers(s)
    BY DEF CheckBlockers
  <2>3. ~ReadStatus(s)
    BY DEF ReadStatus
  <2>4. ~WriteStatus(s)
    BY DEF WriteStatus
  <2>5. ~GenerateNextOccurrence(s)
    BY DEF GenerateNextOccurrence
  <2>6. ~CreateOccurrence(s)
    BY DEF CreateOccurrence
  <2>7. ~CheckSubtasks(s)
    BY DEF CheckSubtasks
  <2>8. ~CheckExisting(s) /\ ~CheckCycle(s)
    BY DEF CheckExisting, CheckCycle
  <2> QED BY <2>1, <2>2, <2>3, <2>4, <2>5, <2>6, <2>7, <2>8 DEF Moves
<1>2. ASSUME NEW s \in Request, GetActiveTimer(s), req'[s].pc \in Waiting, req'[s].user = u
      PROVE  ActiveTimers(u) = {} /\ UNCHANGED entry
  <2>1. UNCHANGED entry
    BY <1>2 DEF GetActiveTimer
  <2>2. ~Finish(s)
    BY <1>2 DEF Finish, Resting, TypeOK, HandlersOK
  <2>3. ASSUME NEW e, req' = [req EXCEPT ![s].pc = "writeEnd", ![s].entry = e, ![s].at = now]
        PROVE  FALSE
    BY <1>0, <1>2, <2>3 DEF TypeOK, HandlersOK, Handler
  <2>4. MayStartTimer(req[s].user) /\ Goto(s, "readTask")
    BY <1>2, <2>2, <2>3 DEF GetActiveTimer
  <2>5. req'[s].user = req[s].user
    BY <1>0, <2>4 DEF Goto, TypeOK, HandlersOK, Handler
  <2> QED BY <1>2, <2>1, <2>4, <2>5 DEF MayStartTimer
<1>3. ASSUME NEW s \in Request, ReadTimedTask(s), req'[s].pc \in Waiting
      PROVE  req[s].pc \in Waiting /\ req'[s].user = req[s].user
  BY <1>0, <1>3 DEF ReadTimedTask, At, Finish, Resting, TypeOK, HandlersOK, Handler
<1>4. Resting.pc \notin Waiting
  BY DEF Resting
<1>5. ASSUME ~(ActiveTimers(u) = {} /\ UNCHANGED entry), NEW s \in Request,
             req'[s].pc \in Waiting, req'[s].user = u
      PROVE  req[s].pc \in Waiting /\ req[s].user = u
  <2>1. CASE req'[s] = req[s]
    BY <1>5, <2>1
  <2>2. CASE Moves(s)
    BY <1>1, <1>2, <1>3, <1>5, <2>2
  <2> QED BY <1>4, <1>5, <2>1, <2>2, OneAtWork
<1> QED BY <1>5 DEF Starting

TimersInv ==
  \A u \in User :
    /\ IsFiniteSet(ActiveTimers(u))
    /\ Cardinality(ActiveTimers(u)) + Cardinality(Starting(u)) <= Cardinality(Request)

LEMMA TimersStep ==
  ASSUME TypeOK, TimersInv, [Next]_vars
  PROVE  TimersInv'
<1> SUFFICES ASSUME NEW u \in User
             PROVE  /\ IsFiniteSet(ActiveTimers(u)')
                    /\ Cardinality(ActiveTimers(u)') + Cardinality(Starting(u)')
                         <= Cardinality(Request)
  BY DEF TimersInv
<1> DEFINE A == ActiveTimers(u)
           S == Starting(u)
           N == Cardinality(Request)
<1>1. /\ S \subseteq Request /\ S' \subseteq Request
      /\ IsFiniteSet(A) /\ Cardinality(A) + Cardinality(S) <= N
  BY DEF Starting, TimersInv
<1>2. ASSUME NEW r \in Request, NEW e \in Entry, CreateTimer(r), req[r].user = u,
             A' \subseteq A \cup {e}
      PROVE  r \in S /\ S' \subseteq S \ {r}
  BY <1>2 DEF Starting, CreateTimer, At, Finish, Resting, TypeOK, HandlersOK
<1>3. /\ A' \subseteq A
      \/ \E e \in Entry, r \in Request : A' \subseteq A \cup {e} /\ r \in S /\ S' \subseteq S \ {r}
  BY <1>2, ActiveStep
<1>4. S' \subseteq S \/ A' = {}
  <2>1. ASSUME A = {}, UNCHANGED entry PROVE A' = {}
    BY <2>1 DEF ActiveTimers
  <2> QED BY <2>1, StartingStep
<1> HIDE DEF A, S
<1>5. /\ IsFiniteSet(S) /\ IsFiniteSet(S') /\ Cardinality(S) \in Nat /\ Cardinality(S') \in Nat
      /\ Cardinality(A) \in Nat /\ N \in Nat /\ Cardinality(S') <= N
  BY <1>1, RequestAssumption, FS_Subset, FS_CardinalityType
<1> HIDE DEF N
<1>6. CASE A' = {}
  <2>1. IsFiniteSet(A') /\ Cardinality(A') = 0
    BY <1>6, FS_EmptySet
  <2> QED BY <1>5, <2>1 DEF A, S, N
<1>7. CASE A' \subseteq A /\ S' \subseteq S
  <2>1. IsFiniteSet(A') /\ Cardinality(A') <= Cardinality(A) /\ Cardinality(S') <= Cardinality(S)
    BY <1>1, <1>5, <1>7, FS_Subset
  <2>2. Cardinality(A') \in Nat
    BY <2>1, FS_CardinalityType
  <2>3. Cardinality(A') + Cardinality(S') <= N
    BY <1>1, <1>5, <2>1, <2>2
  <2> QED BY <2>1, <2>3 DEF A, S, N
<1>8. ASSUME NEW e \in Entry, NEW r \in Request, A' \subseteq A \cup {e}, r \in S,
             S' \subseteq S \ {r}
      PROVE  IsFiniteSet(A') /\ Cardinality(A') + Cardinality(S') <= N
  <2>1. IsFiniteSet(A \cup {e}) /\ Cardinality(A \cup {e}) <= Cardinality(A) + 1
    <3>1. CASE e \in A
      <4>1. A \cup {e} = A
        BY <3>1
      <4>2. IsFiniteSet(A \cup {e}) /\ Cardinality(A \cup {e}) = Cardinality(A)
        BY <1>1, <4>1, Zenon
      <4> QED BY <1>5, <4>2
    <3>2. CASE e \notin A
      <4>1. IsFiniteSet(A \cup {e}) /\ Cardinality(A \cup {e}) = Cardinality(A) + 1
        BY <1>1, <3>2, FS_AddElement, Zenon
      <4> QED BY <1>5, <4>1
    <3> QED BY <3>1, <3>2
  <2>2. IsFiniteSet(A') /\ Cardinality(A') <= Cardinality(A \cup {e})
    BY <1>8, <2>1, FS_Subset
  <2>3. IsFiniteSet(S \ {r}) /\ Cardinality(S \ {r}) = Cardinality(S) - 1
    BY <1>5, <1>8, FS_RemoveElement
  <2>4. Cardinality(S') <= Cardinality(S) - 1
    BY <1>8, <2>3, FS_Subset
  <2>5. Cardinality(A') \in Nat /\ Cardinality(A \cup {e}) \in Nat
    BY <2>1, <2>2, FS_CardinalityType
  <2>6. Cardinality(A') + Cardinality(S') <= N
    BY <1>1, <1>5, <2>1, <2>2, <2>4, <2>5
  <2> QED BY <2>2, <2>6
<1>9. IsFiniteSet(A') /\ Cardinality(A') + Cardinality(S') <= N
  BY <1>3, <1>4, <1>6, <1>7, <1>8 DEF A, S, N
<1> QED BY <1>9 DEF A, S, N

\* A user has no more timers running than handlers run at once: one when requests are served
\* one at a time.
THEOREM TimersBounded == Spec => []ActiveTimersBounded
<1>1. Init => TimersInv
  <2> SUFFICES ASSUME Init, NEW u \in User
               PROVE  /\ IsFiniteSet(ActiveTimers(u))
                      /\ Cardinality(ActiveTimers(u)) + Cardinality(Starting(u))
                           <= Cardinality(Request)
    BY DEF TimersInv
  <2>1. ActiveTimers(u) = {} /\ Starting(u) = {}
    BY DEF Init, ActiveTimers, Starting, NoEntryRow, Resting
  <2> QED BY <2>1, FS_EmptySet, RequestAssumption, FS_CardinalityType
<1>2. TypeOK /\ TimersInv /\ [Next]_vars => TimersInv'
  BY TimersStep
<1>3. TypeOK /\ TimersInv => ActiveTimersBounded
  <2> SUFFICES ASSUME TypeOK, TimersInv, NEW u \in User
               PROVE  Cardinality(ActiveTimers(u)) <= Cardinality(Request)
    BY DEF ActiveTimersBounded
  <2>1. IsFiniteSet(Starting(u))
    BY RequestAssumption, FS_Subset DEF Starting
  <2>2. /\ Cardinality(ActiveTimers(u)) \in Nat /\ Cardinality(Starting(u)) \in Nat
        /\ Cardinality(Request) \in Nat
    BY <2>1, RequestAssumption, FS_CardinalityType DEF TimersInv
  <2> QED BY <2>2 DEF TimersInv
<1> QED BY <1>1, <1>2, <1>3, TypeCorrect, PTL DEF Spec

-----------------------------------------------------------------------------
(***************************************************************************)
(* Requests served one at a time: what a handler has found still holds when  *)
(* it acts on it.                                                            *)
(***************************************************************************)
Alone == \A r, s \in Request : r = s

\* The task it puts in progress is blocked by none; the task whose next occurrence it creates
\* is done; the timer that it stops runs.
Current(h) ==
  /\ h.pc \in {"readStatus", "writeStatus"} /\ h.op # "updateTask" /\ h.to = "DOING" =>
       Unfinished(h.task) = {}
  /\ h.pc = "createEntry" => Unfinished(h.task) = {}
  /\ h.pc \in {"generate", "createOccurrence"} /\ h.task \in Live =>
       task[h.task].status = "DONE"
  /\ h.pc = "writeEnd" => entry[h.entry].end = Null
AllCurrent == \A r \in Request : Current(req[r])

\* Rows that were not inserted yet hold nothing.
Blank ==
  /\ \A t \in Task : task[t].row = "none" => task[t].recurrenceOf = Null
  /\ \A e \in Entry : entry[e].row = "none" => entry[e].end = Null

LEMMA BlankStep ==
  ASSUME TypeOK, Blank, [Next]_vars
  PROVE  Blank'
<1>1. ASSUME NEW t \in Task, task'[t].row = "none" PROVE task'[t].recurrenceOf = Null
  <2>0. task[t].row = "none" /\ task[t].recurrenceOf = Null /\ task[t] \in TaskRow
    BY <1>1, TasksKept DEF TaskKept, Blank, TypeOK, RowsOK
  <2>1. ASSUME NEW r \in Request, TaskWrite(r) PROVE task'[t].recurrenceOf = Null
    <3> USE <1>1, <2>0 DEF TypeOK, RowsOK, TaskRow
    <3>1. CASE WriteStatus(r)
      BY <3>1 DEF WriteStatus
    <3>2. CASE CreateOccurrence(r)
      BY <3>2 DEF CreateOccurrence
    <3>3. CASE CreateTimer(r)
      BY <3>3 DEF CreateTimer
    <3>4. CASE CreateTask(r)
      BY <3>4 DEF CreateTask
    <3>5. CASE DeleteTask(r)
      BY <3>5 DEF DeleteTask, NoTaskRow
    <3> QED BY <2>1, <3>1, <3>2, <3>3, <3>4, <3>5 DEF TaskWrite
  <2> QED BY <2>0, <2>1, OtherStepsKeepTasks
<1>2. ASSUME NEW e \in Entry, entry'[e].row = "none" PROVE entry'[e].end = Null
  <2>0. entry[e].row = "none" /\ entry[e].end = Null /\ entry[e] \in EntryRow
    BY <1>2, EntriesKept DEF EntryKept, Blank, TypeOK, RowsOK
  <2>1. ASSUME NEW r \in Request, CreateTimer(r) PROVE entry'[e] = entry[e]
    BY <1>2, <2>0, <2>1 DEF CreateTimer, TypeOK, RowsOK
  <2>2. ASSUME NEW r \in Request, WriteEnd(r) PROVE entry'[e] = entry[e]
    BY <1>2, <2>0, <2>2 DEF WriteEnd, TypeOK, RowsOK
  <2>3. ASSUME NEW r \in Request, DeleteTimeEntry(r) PROVE entry'[e] = entry[e]
    <3>1. entry'[e] \in {entry[e], NoEntryRow("gone")}
      BY <2>3 DEF DeleteTimeEntry, TypeOK, RowsOK
    <3> QED BY <1>2, <3>1 DEF NoEntryRow
  <2>4. ASSUME NEW r \in Request, DeleteTask(r) PROVE entry'[e] = entry[e]
    <3>1. entry'[e] \in {entry[e], NoEntryRow("gone")}
      BY <2>4 DEF DeleteTask
    <3> QED BY <1>2, <3>1 DEF NoEntryRow
  <2>5. ASSUME CreateManualTimeEntry PROVE entry'[e] = entry[e]
    <3>1. entry'[e] = entry[e] \/ entry'[e].row = "live"
      BY <2>5 DEF CreateManualTimeEntry, TypeOK, RowsOK
    <3> QED BY <1>2, <3>1
  <2> QED BY <2>0, <2>1, <2>2, <2>3, <2>4, <2>5, OtherStepsKeepEntries DEF EntryWrite
<1> QED BY <1>1, <1>2 DEF Blank

\* While nobody else is at work, what was found does not change.
LEMMA QuietStep ==
  ASSUME TypeOK, AllKnow, AllCurrent, UNCHANGED req, SingleWrite \/ Tick \/ UNCHANGED vars
  PROVE  AllCurrent'
<1> SUFFICES ASSUME NEW s \in Request PROVE Current(req[s])'
  BY DEF AllCurrent
<1>1. task' = task /\ dependencies' \subseteq dependencies
  BY DEF SingleWrite, SetRecurrence, RemoveRecurrence, UpdateProject, CreateManualTimeEntry,
         DeleteTaskDependency, Tick, vars
<1>2. \A t \in Task : Unfinished(t)' \subseteq Unfinished(t)
  BY <1>1 DEF Unfinished, Blockers
<1>3. ASSUME NEW e \in Entry, entry[e].row # "none" PROVE entry'[e] = entry[e]
  <2>1. CASE CreateManualTimeEntry
    BY <1>3, <2>1 DEF CreateManualTimeEntry, TypeOK, RowsOK
  <2>2. CASE ~CreateManualTimeEntry
    BY <2>2 DEF SingleWrite, SetRecurrence, RemoveRecurrence, UpdateProject,
                DeleteTaskDependency, Tick, vars
  <2> QED BY <2>1, <2>2
<1>4. /\ HandlerOK(req[s]) /\ Current(req[s]) /\ InstantRead(req[s]) /\ req'[s] = req[s]
  BY DEF TypeOK, HandlersOK, AllKnow, Knows, AllCurrent
<1> QED BY <1>1, <1>2, <1>3, <1>4 DEF Current, HandlerOK, InstantRead, Live

LEMMA CurrentStep ==
  ASSUME Alone, TypeOK, AllKnow, AllCurrent, [Next]_vars
  PROVE  AllCurrent'
<1>1. CASE UNCHANGED req /\ (SingleWrite \/ Tick \/ UNCHANGED vars)
  BY <1>1, QuietStep
<1>2. ASSUME NEW s \in Request, Moves(s) \/ req'[s] = Resting
      PROVE  AllCurrent'
  <2> SUFFICES Current(req[s])'
    BY DEF AllCurrent, Alone
  <2> DEFINE h == req[s]
             g == req'[s]
             Acting == {"readStatus", "writeStatus", "createEntry", "generate",
                        "createOccurrence", "writeEnd"}
  <2>0. h \in Handler /\ HandlerOK(h) /\ Current(h)
    BY DEF TypeOK, HandlersOK, AllCurrent
  <2>1. CASE g.pc \notin Acting
    BY <2>1 DEF Current
  <2>2. CASE BeginChangeTaskStatus(s)
    <3>1. PICK t \in Live, to \in TaskStatus :
            Accept(s, [Resting EXCEPT !.op = "changeTaskStatus", !.task = t, !.to = to,
                    !.project = task[t].project,
                    !.pc = IF to = "DOING" THEN "blockers" ELSE "readStatus"])
      BY <2>2 DEF BeginChangeTaskStatus
    <3>2. g.pc = (IF to = "DOING" THEN "blockers" ELSE "readStatus") /\ g.to = to
      BY <3>1 DEF Accept, Resting, TypeOK, HandlersOK
    <3> QED BY <3>2 DEF Current
  <2>3. CASE BeginUpdateTask(s)
    <3>1. g.pc = "readStatus" /\ g.op = "updateTask"
      BY <2>3 DEF BeginUpdateTask, Accept, Resting, TypeOK, HandlersOK
    <3> QED BY <3>1 DEF Current
  <2>4. ASSUME Begin(s), ~BeginChangeTaskStatus(s), ~BeginUpdateTask(s)
        PROVE  g.pc \notin Acting
    <3> USE DEF Accept, Resting, TypeOK, HandlersOK
    <3>1. CASE BeginStartTimer(s)
      BY <3>1 DEF BeginStartTimer
    <3>2. CASE BeginStopTimer(s)
      BY <3>2 DEF BeginStopTimer
    <3>3. CASE BeginDeleteTimeEntry(s)
      BY <3>3 DEF BeginDeleteTimeEntry
    <3>4. CASE BeginCreateTask(s)
      BY <3>4 DEF BeginCreateTask
    <3>5. CASE BeginDeleteTask(s)
      BY <3>5 DEF BeginDeleteTask
    <3>6. CASE BeginCreateTaskDependency(s)
      BY <3>6 DEF BeginCreateTaskDependency
    <3> QED BY <2>4, <3>1, <3>2, <3>3, <3>4, <3>5, <3>6 DEF Begin
  <2>5. CASE CheckBlockers(s)
    <3>1. /\ task' = task /\ dependencies' = dependencies
          /\ \/ g = Resting
             \/ g.pc = "readStatus" /\ g.task = h.task /\ Unfinished(h.task) = {}
      BY <2>0, <2>5 DEF CheckBlockers, Goto, Finish, TypeOK, HandlersOK, Handler
    <3> QED BY <3>1 DEF Current, Resting, Unfinished, Blockers
  <2>6. CASE ReadStatus(s)
    <3>1. /\ task' = task /\ dependencies' = dependencies /\ h.pc = "readStatus"
          /\ \/ g = Resting
             \/ /\ g.pc = "writeStatus" /\ g.task = h.task /\ g.op = h.op /\ g.to = h.to
      BY <2>0, <2>6 DEF ReadStatus, At, Finish, TypeOK, HandlersOK, Handler
    <3> QED BY <2>0, <3>1 DEF Current, Resting, Unfinished, Blockers
  <2>7. CASE WriteStatus(s)
    <3>1. CASE Finish(s)
      <4>1. g = Resting
        BY <3>1 DEF Finish, TypeOK, HandlersOK
      <4> QED BY <4>1 DEF Current, Resting
    <3>2. CASE ~Finish(s)
      <4>1. Completes(h) /\ Goto(s, "generate")
        BY <2>7, <3>2 DEF WriteStatus
      <4>2. g.pc = "generate" /\ g.task = h.task
        BY <2>0, <4>1 DEF Goto, TypeOK, HandlersOK, Handler
      <4>3. h.task \in Task /\ task'[h.task].status = "DONE"
        BY <2>0, <2>7, <4>1 DEF WriteStatus, At, HandlerOK, TypeOK, RowsOK, TaskRow
      <4> QED BY <4>2, <4>3 DEF Current
    <3> QED BY <3>1, <3>2
  <2>8. CASE GenerateNextOccurrence(s)
    <3>1. /\ task' = task /\ h.pc = "generate"
          /\ g.pc \in Acting => g.pc = "createOccurrence" /\ g.task = h.task
      BY <2>0, <2>8
         DEF GenerateNextOccurrence, At, Goto, Finish, Resting, TypeOK, HandlersOK, Handler
    <3> QED BY <2>0, <3>1 DEF Current, Live
  <2>9. CASE CreateOccurrence(s)
    <3>1. g.pc = "stampRule"
      BY <2>0, <2>9 DEF CreateOccurrence, TypeOK, HandlersOK, Handler
    <3> QED BY <2>1, <3>1
  <2>10. CASE GetActiveTimer(s)
    <3>0. entry' = entry
      BY <2>10 DEF GetActiveTimer
    <3>1. ASSUME NEW e \in ActiveTimers(h.user),
                 req' = [req EXCEPT ![s].pc = "writeEnd", ![s].entry = e, ![s].at = now]
          PROVE  Current(req[s])'
      <4>1. g.pc = "writeEnd" /\ g.entry = e /\ entry[e].end = Null
        BY <2>0, <3>1 DEF ActiveTimers, TypeOK, HandlersOK, Handler
      <4> QED BY <3>0, <4>1 DEF Current
    <3>2. ASSUME Goto(s, "readTask") \/ Finish(s) PROVE g.pc \notin Acting
      BY <2>0, <3>2 DEF Goto, Finish, Resting, TypeOK, HandlersOK, Handler
    <3> HIDE DEF g, h, Acting
    <3> QED BY <2>1, <2>10, <3>1, <3>2 DEF GetActiveTimer, h
  <2>11. CASE ReadTimedTask(s)
    <3>1. /\ task' = task /\ dependencies' = dependencies
          /\ g.pc \in Acting =>
               g.pc = "createEntry" /\ g.task = h.task /\ Unfinished(h.task) = {}
      BY <2>0, <2>11 DEF ReadTimedTask, Finish, Resting, TypeOK, HandlersOK, Handler
    <3> QED BY <3>1 DEF Current, Unfinished, Blockers
  <2>12. CASE CheckSubtasks(s) \/ CheckExisting(s) \/ CheckCycle(s)
    <3>1. g.pc \notin Acting
      BY <2>0, <2>12 DEF CheckSubtasks, CheckExisting, CheckCycle, Goto, Finish, Resting, TypeOK,
                         HandlersOK, Handler
    <3> QED BY <2>1, <3>1
  <2>13. Resting.pc \notin Acting
    BY DEF Resting
  <2> HIDE DEF g, h, Acting
  <2> QED BY <1>2, <2>1, <2>2, <2>3, <2>4, <2>5, <2>6, <2>7, <2>8, <2>9, <2>10, <2>11, <2>12,
             <2>13 DEF Moves, g
<1> QED BY <1>1, <1>2, OneAtWork

SerialInv == RowsInv /\ AllCurrent /\ Blank

LEMMA AlwaysCurrent ==
  ASSUME Alone
  PROVE  Spec => []SerialInv
<1>1. Init => AllCurrent /\ Blank
  BY DEF Init, AllCurrent, Current, Blank, Resting, NoTaskRow, NoEntryRow
<1>2. RowsInv /\ AllCurrent /\ Blank /\ [Next]_vars => AllCurrent' /\ Blank'
  BY CurrentStep, BlankStep DEF RowsInv, RowsWellFormed
<1> QED BY <1>1, <1>2, AlwaysRows, PTL DEF Spec, SerialInv

\* A task is put in progress through changeTaskStatus or a timer only when all that blocks it
\* is done at that moment.
THEOREM UnblockedStarts ==
  ASSUME Alone
  PROVE  Spec => StartsOnlyUnblocked
<1>1. SerialInv /\ [Next]_vars =>
        [\A r \in Request : LET t == req[r].task IN
           (/\ req[r].op \in {"changeTaskStatus", "startTimer"}
            /\ At(r, "writeStatus") \/ At(r, "createEntry")
            /\ task[t].status # "DOING" /\ task'[t].status = "DOING")
           => \A b \in Blockers(t) : task[b].status = "DONE"]_vars
  <2> SUFFICES ASSUME SerialInv, [Next]_vars, NEW r \in Request,
                      req[r].op \in {"changeTaskStatus", "startTimer"},
                      At(r, "writeStatus") \/ At(r, "createEntry"),
                      task[req[r].task].status # "DOING", task'[req[r].task].status = "DOING"
               PROVE  \A b \in Blockers(req[r].task) : task[b].status = "DONE"
    OBVIOUS
  <2> DEFINE h == req[r]
             t == h.task
  <2>0. /\ t \in Task /\ Current(h) /\ task \in [Task -> TaskRow] /\ task' # task
        /\ h.pc = "writeStatus" => h.to \in TaskStatus
    BY DEF SerialInv, RowsInv, RowsWellFormed, TypeOK, RowsOK, HandlersOK, HandlerOK, AllCurrent, At
  <2>1. PICK s \in Request : TaskWrite(s)
    BY <2>0, OtherStepsKeepTasks
  <2>2. s = r
    BY DEF Alone
  <2>3. WriteStatus(r) \/ CreateTimer(r)
    BY <2>1, <2>2 DEF TaskWrite, CreateOccurrence, CreateTask, DeleteTask, At
  <2>4. Unfinished(t) = {}
    <3>1. CASE WriteStatus(r)
      <4>1. h.pc = "writeStatus" /\ h.to = "DOING"
        BY <2>0, <3>1 DEF WriteStatus, At, TaskRow
      <4> QED BY <2>0, <4>1 DEF Current
    <3>2. CASE CreateTimer(r)
      BY <2>0, <3>2 DEF CreateTimer, At, Current
    <3> QED BY <2>3, <3>1, <3>2
  <2> QED BY <2>4 DEF Unfinished
<1> QED BY <1>1, AlwaysCurrent, PTL DEF Spec, StartsOnlyUnblocked

\* The next occurrence of a task is created only while the task is done.
THEOREM OccurrencesFollow ==
  ASSUME Alone
  PROVE  Spec => OccurrenceOfDoneTask
<1>1. SerialInv /\ [Next]_vars =>
        [\A n \in Task :
           task[n].row = "none" /\ task'[n].recurrenceOf # Null
             => task[task'[n].recurrenceOf].status = "DONE"]_vars
  <2> SUFFICES ASSUME SerialInv, [Next]_vars, NEW n \in Task,
                      task[n].row = "none", task'[n].recurrenceOf # Null
               PROVE  task[task'[n].recurrenceOf].status = "DONE"
    OBVIOUS
  <2>0. /\ task \in [Task -> TaskRow] /\ task[n] \in TaskRow /\ task[n].recurrenceOf = Null
        /\ \A r \in Request : Current(req[r])
    BY DEF SerialInv, RowsInv, RowsWellFormed, TypeOK, RowsOK, Blank, AllCurrent
  <2>1. PICK r \in Request : TaskWrite(r)
    BY <2>0, OtherStepsKeepTasks
  <2>2. CASE WriteStatus(r)
    BY <2>0, <2>2 DEF WriteStatus, Live, TaskRow
  <2>3. CASE CreateTimer(r)
    BY <2>0, <2>3 DEF CreateTimer, Live, TaskRow
  <2>4. CASE CreateTask(r)
    BY <2>0, <2>4 DEF CreateTask, TaskRow
  <2>5. CASE DeleteTask(r)
    BY <2>0, <2>5 DEF DeleteTask, TaskRow, NoTaskRow
  <2>6. CASE CreateOccurrence(r)
    <3>1. task'[n].recurrenceOf = req[r].task
      BY <2>0, <2>6 DEF CreateOccurrence
    <3>2. task[req[r].task].status = "DONE"
      BY <2>0, <2>6 DEF CreateOccurrence, At, Current
    <3> QED BY <3>1, <3>2
  <2> QED BY <2>1, <2>2, <2>3, <2>4, <2>5, <2>6 DEF TaskWrite
<1> QED BY <1>1, AlwaysCurrent, PTL DEF Spec, OccurrenceOfDoneTask

\* A time entry that is closed keeps its end until it is deleted.
THEOREM ClosedEntriesKept ==
  ASSUME Alone
  PROVE  Spec => ClosedEntryFrozen
<1>1. SerialInv /\ [Next]_vars =>
        [\A e \in Entry : entry[e].end # Null /\ entry'[e].row = "live"
           => entry'[e] = entry[e]]_vars
  <2> SUFFICES ASSUME SerialInv, [Next]_vars, NEW e \in Entry,
                      entry[e].end # Null, entry'[e].row = "live"
               PROVE  entry'[e] = entry[e]
    OBVIOUS
  <2>0. /\ entry \in [Entry -> EntryRow] /\ entry[e].row # "none"
        /\ \A r \in Request : Current(req[r])
    BY DEF SerialInv, RowsInv, RowsWellFormed, TypeOK, RowsOK, Blank, AllCurrent
  <2>1. ASSUME NEW r \in Request, CreateTimer(r) PROVE entry'[e] = entry[e]
    BY <2>0, <2>1 DEF CreateTimer
  <2>2. ASSUME NEW r \in Request, WriteEnd(r) PROVE entry'[e] = entry[e]
    <3>1. entry[req[r].entry].end = Null
      BY <2>0, <2>2 DEF WriteEnd, At, Current
    <3> QED BY <2>0, <2>2, <3>1 DEF WriteEnd
  <2>3. ASSUME NEW r \in Request, DeleteTimeEntry(r) PROVE entry'[e] = entry[e]
    <3>1. entry'[e] \in {entry[e], NoEntryRow("gone")}
      BY <2>0, <2>3 DEF DeleteTimeEntry
    <3> QED BY <3>1 DEF NoEntryRow
  <2>4. ASSUME NEW r \in Request, DeleteTask(r) PROVE entry'[e] = entry[e]
    <3>1. entry'[e] \in {entry[e], NoEntryRow("gone")}
      BY <2>4 DEF DeleteTask
    <3> QED BY <3>1 DEF NoEntryRow
  <2>5. ASSUME CreateManualTimeEntry PROVE entry'[e] = entry[e]
    BY <2>0, <2>5 DEF CreateManualTimeEntry
  <2> QED BY <2>1, <2>2, <2>3, <2>4, <2>5, OtherStepsKeepEntries DEF EntryWrite
<1> QED BY <1>1, AlwaysCurrent, PTL DEF Spec, ClosedEntryFrozen
=============================================================================
