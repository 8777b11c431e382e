------------------------------ MODULE TaskBoard ------------------------------
(***************************************************************************)
(* The task services together: workflow, time tracking and task graph over  *)
(* the same rows, and what they promise.                                    *)
(***************************************************************************)
EXTENDS TimeTracking, TaskGraph

CONSTANT Client   \* the operations the clients of this instance call

\* One step of the handler in slot r.
StatusStep(r) ==
  \/ CheckBlockers(r) \/ ReadStatus(r) \/ WriteStatus(r) \/ WriteStatusOfGone(r)
RecurrenceStep(r) ==
  \/ GenerateNextOccurrence(r) \/ CreateOccurrence(r) \/ CreateOccurrenceFails(r)
  \/ StampRule(r) \/ EndSeries(r)
TimeStep(r) ==
  \/ GetActiveTimer(r) \/ ReadTimedTask(r) \/ CreateTimer(r) \/ CreateTimerFails(r)
  \/ WriteEnd(r) \/ DeleteTimeEntry(r)
GraphStep(r) ==
  \/ CreateTask(r) \/ CreateTaskFails(r)
  \/ CheckSubtasks(r) \/ DeleteTask(r) \/ DeleteTaskFails(r)
  \/ CheckExisting(r) \/ CheckCycle(r) \/ CreateTaskDependency(r)
HandlerStep(r) == StatusStep(r) \/ RecurrenceStep(r) \/ TimeStep(r) \/ GraphStep(r)

Begin(r) ==
  \/ "changeTaskStatus" \in Client /\ BeginChangeTaskStatus(r)
  \/ "updateTask" \in Client /\ BeginUpdateTask(r)
  \/ "startTimer" \in Client /\ BeginStartTimer(r)
  \/ "stopTimer" \in Client /\ BeginStopTimer(r)
  \/ "deleteTimeEntry" \in Client /\ BeginDeleteTimeEntry(r)
  \/ "createTask" \in Client /\ BeginCreateTask(r)
  \/ "deleteTask" \in Client /\ BeginDeleteTask(r)
  \/ "createTaskDependency" \in Client /\ BeginCreateTaskDependency(r)

\* Calls whose only write is one statement that depends on nothing read before.
SingleWrite ==
  \/ "setRecurrence" \in Client /\ (SetRecurrence \/ RemoveRecurrence)
  \/ "updateProject" \in Client /\ UpdateProject
  \/ "createManualTimeEntry" \in Client /\ CreateManualTimeEntry
  \/ "deleteTaskDependency" \in Client /\ DeleteTaskDependency

Next ==
  \/ \E r \in Request : Begin(r) \/ HandlerStep(r) \/ Abort(r)
  \/ SingleWrite
  \/ Tick

Spec == Init /\ [][Next]_vars

-----------------------------------------------------------------------------
(***************************************************************************)
(* What holds however the handlers interleave.                              *)
(***************************************************************************)

\* completedAt says whether a task is done, for every task whose status was
\* never written from a stale read: changeTaskStatus, updateTask and startTimer
\* keep the two fields together except when two of them overlap on one task.
CompletedIffDone ==
  \A t \in Live \ raced : (task[t].status = "DONE") <=> (task[t].completedAt # Null)

\* The date of completion is fixed once and for all while a task stays done
\* (schema.prisma, Task.completedAt): saving it again, by either route, does not
\* rewrite the burndown's history, unless the write was computed from a stale read.
CompletionDateStable ==
  [][\A t \in Task \ raced' :
       task[t].status = "DONE" /\ task'[t].status = "DONE"
         => task'[t].completedAt = task[t].completedAt]_vars

\* A dependency links two distinct tasks that exist and are of one project,
\* also when one of them is deleted while createTaskDependency runs.
DependencyIntegrity ==
  \A d \in dependencies :
    /\ d[1] # d[2]
    /\ {d[1], d[2]} \subseteq Live
    /\ task[d[1]].project = task[d[2]].project

\* Subtasks form a forest within their project: the parent of a task that exists
\* exists, and no task is its own ancestor, also when the parent is deleted while
\* createTask runs.
HierarchyIsForest ==
  /\ \A t \in Live : task[t].parent # Null =>
       /\ task[t].parent \in Live
       /\ task[task[t].parent].project = task[t].project
  /\ ~ \E S \in SUBSET Live : S # {} /\ \A t \in S : task[t].parent \in S

\* A user has at most as many running timers as handlers run at once: one when
\* requests are served one at a time ("one active entry per user").
ActiveTimersBounded ==
  \A u \in User : Cardinality(ActiveTimers(u)) <= Cardinality(Request)

\* A time entry that is closed ends no earlier than it starts, and belongs to a
\* task that exists, even if the timer is stopped twice or its task deleted.
EntriesWellFormed ==
  \A e \in Entry : entry[e].row = "live" =>
    /\ entry[e].task \in Live
    /\ entry[e].end # Null => entry[e].end >= entry[e].start
    /\ entry[e].end = Null => ~entry[e].manual

\* Types, and what holds of each row whatever refers to it, also when it is deleted meanwhile.
RowsWellFormed == TypeOK /\ DependencyIntegrity /\ HierarchyIsForest /\ EntriesWellFormed

-----------------------------------------------------------------------------
(***************************************************************************)
(* What holds when requests are served one at a time (one slot in Request). *)
(***************************************************************************)

\* The dependency graph has no cycle: createTaskDependency refuses the edge that
\* would close one.
DependenciesAcyclic == AcyclicOn(dependencies)

\* changeTaskStatus and startTimer put a task in progress only when every task
\* that blocks it is done at that moment.
StartsOnlyUnblocked ==
  [][\A r \in Request : LET t == req[r].task IN
       (/\ req[r].op \in {"changeTaskStatus", "startTimer"}
        /\ At(r, "writeStatus") \/ At(r, "createEntry")
        /\ task[t].status # "DOING" /\ task'[t].status = "DOING")
       => \A b \in Blockers(t) : task[b].status = "DONE"]_vars

\* An occurrence is generated only from a task that is done: completing it is what
\* triggers the generation, and nothing reopens it in between.
OccurrenceOfDoneTask ==
  [][\A n \in Task :
       task[n].row = "none" /\ task'[n].recurrenceOf # Null
         => task[task'[n].recurrenceOf].status = "DONE"]_vars

\* A closed time entry keeps its end: only deleting it changes it.
ClosedEntryFrozen ==
  [][\A e \in Entry : entry[e].end # Null /\ entry'[e].row = "live"
       => entry'[e] = entry[e]]_vars

-----------------------------------------------------------------------------
\* What the schema says of TaskRecurrence.lastGeneratedAt: it is there so that no
\* second occurrence is generated for the same completion.
NoSecondOccurrence ==
  [][\A n \in Task :
       task[n].row = "none" /\ task'[n].recurrenceOf # Null =>
         LET t == task'[n].recurrenceOf
             generated == rule[t].last # Null
         IN ~(generated /\ task[t].completedAt # Null
              /\ rule[t].last > task[t].completedAt)]_vars
=============================================================================
