----------------------------- MODULE MCTaskBoard -----------------------------
(***************************************************************************)
(* Instances of TaskBoard: each is Next with fewer operations called and    *)
(* fewer rows filled, so that one run covers what would be out of reach     *)
(* with all of them at once.                                                *)
(***************************************************************************)
EXTENDS TaskBoard, TLC

VARIABLE instance
MCVars == <<vars, instance>>

\* Tasks and handlers are interchangeable, nothing orders identifiers; entries are
\* numbers, inserted in order.
Symmetry == Permutations(Task) \cup Permutations(Request)

AnyClient == {"changeTaskStatus", "updateTask", "startTimer", "stopTimer",
              "deleteTimeEntry", "createTask", "deleteTask", "createTaskDependency",
              "setRecurrence", "updateProject", "createManualTimeEntry",
              "deleteTaskDependency"}
Calls ==
  CASE instance = "graph" -> {"createTask", "deleteTask", "createTaskDependency",
         "deleteTaskDependency", "changeTaskStatus"}
    [] instance = "start" -> {"createTask", "deleteTask", "createTaskDependency",
         "deleteTaskDependency", "changeTaskStatus", "startTimer", "updateProject"}
    [] instance = "time" -> {"createTask", "changeTaskStatus", "startTimer", "stopTimer",
         "createManualTimeEntry", "deleteTimeEntry"}
    [] instance = "recurrence" -> {"createTask", "changeTaskStatus", "startTimer",
         "setRecurrence"}
    [] instance = "occurrences" -> {"createTask", "changeTaskStatus", "setRecurrence"}
    [] instance = "rows" -> {"createTask", "deleteTask", "createTaskDependency",
         "deleteTaskDependency"}
    [] instance = "dates" -> {"createTask", "deleteTask", "changeTaskStatus",
         "updateTask", "startTimer"}
    [] instance = "timers" -> {"createTask", "deleteTask", "startTimer", "stopTimer"}

FirstProject == CHOOSE p \in Project : TRUE
Filled(table) == {x \in DOMAIN table : table[x].row # "none"}

\* The bounds of an instance: time passes where dates matter, and only one task and one
\* project are filled where the others do not.
Bounded ==
  /\ \A r \in Request : req'[r].op \in Calls \cup {"none"}
  /\ "setRecurrence" \notin Calls => rule' = rule
  /\ "createManualTimeEntry" \notin Calls => \A e \in Entry : ~entry'[e].manual
  /\ "updateProject" \notin Calls /\ req' = req => projectStatus' = projectStatus
  /\ instance \in {"graph", "start", "rows"} => now' = now
  /\ instance \in {"start", "recurrence"} => Cardinality(Filled(task')) <= 2
  /\ instance \in {"dates", "recurrence"} => Cardinality(Filled(entry')) <= 1
  /\ instance \in {"time", "dates", "timers"} =>
       /\ Cardinality(Filled(task')) <= 1
       /\ \A t \in Filled(task') : task'[t].project \in {FirstProject, Null}
       /\ \A r \in Request : req'[r].project \in {FirstProject, Null}
  /\ \A e \in Filled(entry') : \A f \in Entry : f < e => f \in Filled(entry')

MCInit(instances) == Init /\ instance \in instances
MCNext == Next /\ UNCHANGED instance /\ Bounded
SerialSpec == MCInit({"graph", "start", "time", "recurrence"}) /\ [][MCNext]_MCVars
ConcurrentSpec == MCInit({"rows", "dates", "timers"}) /\ [][MCNext]_MCVars
RecurrenceSpec == MCInit({"occurrences"}) /\ [][MCNext]_MCVars
=============================================================================
