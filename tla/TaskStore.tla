------------------------------ MODULE TaskStore ------------------------------
(***************************************************************************)
(* The database rows the task services share, and the request handlers      *)
(* that are in flight over them.                                            *)
(*                                                                          *)
(* The backend is one Node process over PostgreSQL (READ COMMITTED).  Each  *)
(* awaited Prisma call, and each $transaction at its commit, is one atomic  *)
(* step; any other request may run between two awaits of a handler.  A      *)
(* handler therefore lives in a slot of req, with its program counter pc    *)
(* and exactly the values it read earlier and uses later.                   *)
(***************************************************************************)
EXTENDS Naturals, FiniteSets

CONSTANTS Task,      \* identifiers a task row may get (cuids, never reused)
          Project,   \* projects, all alive
          User,      \* users, all allowed to make the calls below
          Entry,     \* identifiers a time entry may get
          Request,   \* slots for handlers in flight: the degree of concurrency
          Null,      \* SQL NULL, and "not read yet"
          MaxTime    \* bound on the clock

ASSUME NullAssumption ==
  /\ Null \notin Task /\ Null \notin Project /\ Null \notin Entry /\ Null \notin User
  /\ Null \notin Nat
ASSUME MaxTimeAssumption == MaxTime \in Nat
ASSUME RequestAssumption == IsFiniteSet(Request)

VARIABLES task,           \* table Task
          dependencies,   \* table TaskDependency, pairs <<blocking, blocked>>
          rule,           \* table TaskRecurrence, keyed by its unique taskId
          entry,          \* table TimeEntry
          projectStatus,  \* Project.status
          now,            \* what new Date() returns
          req,            \* handlers in flight
          raced           \* history: tasks whose status was written from a stale read

rows == <<task, dependencies, rule, entry, projectStatus>>
vars == <<task, dependencies, rule, entry, projectStatus, now, req, raced>>

TaskStatus == {"TODO", "DOING", "DONE"}
\* OTHER stands for ON_HOLD, COMPLETED and ARCHIVED, which no task service tells apart.
ProjectStatus == {"PLANNING", "ACTIVE", "OTHER"}

\* A row that was never inserted, one that exists, one that was deleted.
RowState == {"none", "live", "gone"}

Date == Nat \cup {Null}

TaskRow == [row : RowState, project : Project \cup {Null}, status : TaskStatus,
            completedAt : Date, parent : Task \cup {Null},
            recurrenceOf : Task \cup {Null}]

EntryRow == [row : RowState, task : Task \cup {Null}, user : User \cup {Null},
             start : Nat, end : Date, manual : BOOLEAN]

RuleRow == [set : BOOLEAN, active : BOOLEAN, bounded : BOOLEAN, last : Date]

Op == {"none", "changeTaskStatus", "updateTask", "startTimer", "stopTimer",
       "deleteTimeEntry", "createTask", "deleteTask", "createTaskDependency"}

Step == {"idle", "blockers", "readStatus", "writeStatus", "generate",
         "createOccurrence", "stampRule", "endSeries",
         "activeTimer", "readTask", "createEntry", "writeEnd", "deleteEntry",
         "createTask", "subtasks", "deleteTask",
         "existing", "cycle", "createDependency"}

Handler == [op : Op, pc : Step, user : User \cup {Null}, task : Task \cup {Null},
            other : Task \cup {Null}, project : Project \cup {Null},
            entry : Entry \cup {Null}, to : TaskStatus \cup {Null},
            seen : TaskStatus \cup {Null}, at : Date]

NoTaskRow(state) == [row |-> state, project |-> Null, status |-> "TODO",
                     completedAt |-> Null, parent |-> Null, recurrenceOf |-> Null]
NoEntryRow(state) == [row |-> state, task |-> Null, user |-> Null,
                      start |-> 0, end |-> Null, manual |-> FALSE]
NoRule == [set |-> FALSE, active |-> FALSE, bounded |-> FALSE, last |-> Null]

Resting == [op |-> "none", pc |-> "idle", user |-> Null, task |-> Null,
            other |-> Null, project |-> Null, entry |-> Null, to |-> Null,
            seen |-> Null, at |-> Null]

\* An inserted task.
NewTask(project, parent, recurrenceOf) ==
  [row |-> "live", project |-> project, status |-> "TODO", completedAt |-> Null,
   parent |-> parent, recurrenceOf |-> recurrenceOf]

Live == {t \in Task : task[t].row = "live"}
Blockers(t) == {b \in Task : <<b, t>> \in dependencies}
Unfinished_OnlyTodo(t) == {b \in Blockers(t) : task[b].status = "TODO"}
Unfinished(t) == {b \in Blockers(t) : task[b].status # "DONE"}
\* What getActiveTimer selects from.
ActiveTimers_Stopped(u) == {e \in Entry : /\ entry[e].row = "live" /\ entry[e].user = u
                                          /\ ~entry[e].manual}
ActiveTimers(u) == {e \in Entry : /\ entry[e].row = "live" /\ entry[e].user = u
                                  /\ entry[e].end = Null /\ ~entry[e].manual}

\* What a handler has read by the time it reaches a step that uses it.
HandlerOK(h) ==
  /\ h.pc \in {"blockers", "readStatus", "writeStatus", "generate", "createOccurrence",
               "stampRule", "endSeries", "readTask", "createEntry", "subtasks",
               "deleteTask", "existing", "cycle", "createDependency"} => h.task \in Task
  /\ h.op = "startTimer" => h.task \in Task
  /\ h.pc \in {"blockers", "readStatus", "writeStatus"} => h.to \in TaskStatus
  /\ h.pc \in {"writeStatus", "createEntry"} => h.seen \in TaskStatus
  /\ h.pc \in {"writeStatus", "createEntry", "writeEnd"} => h.at \in Nat
  /\ h.pc \in {"writeEnd", "deleteEntry"} => h.entry \in Entry
  /\ h.pc \in {"existing", "cycle", "createDependency"} => h.other \in Task

RowsOK ==
  /\ task \in [Task -> TaskRow]
  /\ dependencies \in SUBSET (Task \X Task)
  /\ rule \in [Task -> RuleRow]
  /\ entry \in [Entry -> EntryRow]
  /\ projectStatus \in [Project -> ProjectStatus]
  /\ now \in Nat
  /\ raced \in SUBSET Task

HandlersOK ==
  /\ req \in [Request -> Handler]
  /\ \A r \in Request : HandlerOK(req[r])

\* Types of the tables and of the handlers' local state.
TypeOK == RowsOK /\ HandlersOK

Init ==
  /\ task = [t \in Task |-> NoTaskRow("none")]
  /\ dependencies = {}
  /\ rule = [t \in Task |-> NoRule]
  /\ entry = [e \in Entry |-> NoEntryRow("none")]
  /\ projectStatus = [p \in Project |-> "PLANNING"]
  /\ now = 0
  /\ req = [r \in Request |-> Resting]
  /\ raced = {}

(***************************************************************************)
(* How a handler starts, moves on and ends.                                 *)
(***************************************************************************)
At(r, step) == req[r].pc = step
Accept(r, handler) == req[r] = Resting /\ req' = [req EXCEPT ![r] = handler]
Goto(r, step) == req' = [req EXCEPT ![r].pc = step]
Finish(r) == req' = [req EXCEPT ![r] = Resting]

\* An awaited call fails (connection lost, process restarted): what is already
\* committed stays, the rest of the handler never happens.
Abort(r) ==
  /\ req[r] # Resting
  /\ Finish(r)
  /\ UNCHANGED <<rows, now, raced>>

Tick ==
  /\ now < MaxTime
  /\ now' = now + 1
  /\ UNCHANGED <<rows, req, raced>>
=============================================================================
