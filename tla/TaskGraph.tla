------------------------------ MODULE TaskGraph ------------------------------
(***************************************************************************)
(* The structure of a project's tasks: createTask, deleteTask,              *)
(* createTaskDependency and deleteTaskDependency of TacheService.           *)
(***************************************************************************)
EXTENDS TaskStore

\* The least set of tasks that holds t and is closed under "blocks" is what a
\* breadth-first search from t visits; u is visited iff every closed set with t
\* has u.
Closed(S, D) == \A x \in S, y \in Task : <<x, y>> \in D => y \in S
Reaches(D, t, u) == \A S \in SUBSET Task : t \in S /\ Closed(S, D) => u \in S

CheckCircularDependency_Swapped(blocking, blocked) ==
  Reaches(dependencies, blocking, blocked)
CheckCircularDependency(blocking, blocked) == Reaches(dependencies, blocked, blocking)

\* No cycle: every non-empty set of tasks has one that blocks no task of the set.
AcyclicOn(D) ==
  ~ \E S \in SUBSET Task : S # {} /\ \A x \in S : \E y \in S : <<x, y>> \in D

SameProject(t, p) == task[t].project = p

\* Rows that refer to task t: subtasks, which deleteTask looks for; dependencies,
\* which the foreign keys protect; time entries, which go with the task.
HasSubtasks(t) == \E u \in Live : task[u].parent = t
Restricted_Blocking(t) == \E d \in dependencies : t = d[1]
Restricted(t) == \E d \in dependencies : t \in {d[1], d[2]}
CascadesTo(e, t) == entry[e].task = t

-----------------------------------------------------------------------------
\* Manager of project p; the parent, when named, was read and is of project p.
BeginCreateTask(r) ==
  /\ \E p \in Project, parent \in Live \cup {Null} :
       /\ parent # Null => SameProject(parent, p)
       /\ Accept(r, [Resting EXCEPT !.op = "createTask", !.pc = "createTask",
                                    !.project = p, !.other = parent])
  /\ UNCHANGED <<rows, now, raced>>

CreateTask(r) ==
  LET h == req[r] IN
  /\ At(r, "createTask")
  /\ h.other \in Live \cup {Null}
  /\ \E n \in Task :
       /\ task[n].row = "none"
       /\ task' = [task EXCEPT ![n] = NewTask(h.project, h.other, Null)]
  /\ Finish(r)
  /\ UNCHANGED <<dependencies, rule, entry, projectStatus, now, raced>>

\* The parent is gone (foreign key), or the bound Task is used up.
CreateTaskFails(r) ==
  /\ At(r, "createTask")
  /\ req[r].other \notin Live \cup {Null} \/ \A n \in Task : task[n].row # "none"
  /\ Finish(r)
  /\ UNCHANGED <<rows, now, raced>>

-----------------------------------------------------------------------------
BeginDeleteTask(r) ==
  /\ \E t \in Live :
       Accept(r, [Resting EXCEPT !.op = "deleteTask", !.pc = "subtasks", !.task = t])
  /\ UNCHANGED <<rows, now, raced>>

CheckSubtasks(r) ==
  /\ At(r, "subtasks")
  /\ IF HasSubtasks(req[r].task) THEN Finish(r) ELSE Goto(r, "deleteTask")
  /\ UNCHANGED <<rows, now, raced>>

\* A dependency restricts; entries and rule cascade; parent and recurrenceOf of
\* the rows that refer to the task are set to null.
DeleteTask(r) ==
  LET t == req[r].task IN
  /\ At(r, "deleteTask")
  /\ t \in Live
  /\ ~Restricted(t)
  /\ task' = [u \in Task |->
       IF u = t THEN NoTaskRow("gone")
       ELSE [task[u] EXCEPT !.parent = IF @ = t THEN Null ELSE @,
                            !.recurrenceOf = IF @ = t THEN Null ELSE @]]
  /\ entry' = [e \in Entry |->
       IF CascadesTo(e, t) THEN NoEntryRow("gone") ELSE entry[e]]
  /\ rule' = [rule EXCEPT ![t] = NoRule]
  /\ Finish(r)
  /\ UNCHANGED <<dependencies, projectStatus, now, raced>>

DeleteTaskFails(r) ==
  LET t == req[r].task IN
  /\ At(r, "deleteTask")
  /\ t \notin Live \/ Restricted(t)
  /\ Finish(r)
  /\ UNCHANGED <<rows, now, raced>>

-----------------------------------------------------------------------------
\* The current task blocks the one named in the body.  Both were read, are of
\* one project and differ.
BeginCreateTaskDependency(r) ==
  /\ \E t, b \in Live :
       /\ SameProject(b, task[t].project)
       /\ t # b
       /\ Accept(r, [Resting EXCEPT !.op = "createTaskDependency", !.pc = "existing",
                                    !.task = t, !.other = b])
  /\ UNCHANGED <<rows, now, raced>>

CheckExisting(r) ==
  /\ At(r, "existing")
  /\ IF <<req[r].task, req[r].other>> \in dependencies
     THEN Finish(r) ELSE Goto(r, "cycle")
  /\ UNCHANGED <<rows, now, raced>>

CheckCycle(r) ==
  /\ At(r, "cycle")
  /\ IF CheckCircularDependency(req[r].task, req[r].other)
     THEN Finish(r) ELSE Goto(r, "createDependency")
  /\ UNCHANGED <<rows, now, raced>>

\* Unique pair and foreign keys: else the insert fails.
CreateTaskDependency(r) ==
  LET h == req[r] IN
  /\ At(r, "createDependency")
  /\ dependencies' = IF {h.task, h.other} \subseteq Live
                     THEN dependencies \cup {<<h.task, h.other>>} ELSE dependencies
  /\ Finish(r)
  /\ UNCHANGED <<task, rule, entry, projectStatus, now, raced>>

\* Found, then deleted by its id: one pair leaves the table, or none.
DeleteTaskDependency ==
  /\ \E d \in dependencies : dependencies' = dependencies \ {d}
  /\ UNCHANGED <<task, rule, entry, projectStatus, now, req, raced>>
=============================================================================
