---------------------------- MODULE TaskWorkflow ----------------------------
(***************************************************************************)
(* The status of tasks: changeTaskStatus and updateTask of TacheService,    *)
(* and the recurrence that changeTaskStatus drives in ChecklistService.     *)
(***************************************************************************)
EXTENDS TaskStore

\* completedAt after a status write computed from the status read earlier.
CompletionPatch_NeverCleared(previous, next, date, old) ==
  IF next # previous /\ next = "DONE" THEN date ELSE old
CompletionPatch_EverySave(previous, next, date, old) ==
  IF next = "DONE" THEN date ELSE IF previous = "DONE" THEN Null ELSE old
CompletionPatch(previous, next, date, old) ==
  IF next # previous /\ next = "DONE" THEN date
  ELSE IF next # previous /\ previous = "DONE" THEN Null
  ELSE old

\* The first task leaving TODO for work takes its project out of PLANNING.
ActivateProject(p) ==
  projectStatus' = [projectStatus EXCEPT ![p] = IF @ = "PLANNING" THEN "ACTIVE" ELSE @]

\* Finishing a task through changeTaskStatus, and only there, drives its recurrence.
Completes_AnyProgress(h) == h.op = "changeTaskStatus" /\ h.to # "TODO"
Completes(h) == h.op = "changeTaskStatus" /\ h.to = "DONE"

-----------------------------------------------------------------------------
\* Access granted on a task that exists; the request names the new status.
BeginChangeTaskStatus(r) ==
  /\ \E t \in Live, s \in TaskStatus :
       Accept(r, [Resting EXCEPT !.op = "changeTaskStatus", !.task = t, !.to = s,
                    !.project = task[t].project,
                    !.pc = IF s = "DOING" THEN "blockers" ELSE "readStatus"])
  /\ UNCHANGED <<rows, now, raced>>

\* The same field through PATCH /tasks/:id: no look at the blockers.
BeginUpdateTask(r) ==
  /\ \E t \in Live, s \in TaskStatus :
       Accept(r, [Resting EXCEPT !.op = "updateTask", !.task = t, !.to = s,
                    !.project = task[t].project, !.pc = "readStatus"])
  /\ UNCHANGED <<rows, now, raced>>

CheckBlockers(r) ==
  /\ At(r, "blockers")
  /\ IF Unfinished(req[r].task) = {} THEN Goto(r, "readStatus") ELSE Finish(r)
  /\ UNCHANGED <<rows, now, raced>>

ReadStatus(r) ==
  LET t == req[r].task IN
  /\ At(r, "readStatus")
  /\ IF t \in Live
     THEN req' = [req EXCEPT ![r].pc = "writeStatus", ![r].at = now,
                             ![r].seen = task[t].status]
     ELSE Finish(r)
  /\ UNCHANGED <<rows, now, raced>>

\* The update, and for changeTaskStatus the commit of its transaction.
WriteStatus(r) ==
  LET h == req[r]  t == h.task IN
  /\ At(r, "writeStatus")
  /\ t \in Live
  /\ task' = [task EXCEPT
       ![t].status = h.to,
       ![t].completedAt = CompletionPatch(h.seen, h.to, h.at, @)]
  /\ IF h.op = "changeTaskStatus" /\ h.to = "DOING"
     THEN ActivateProject(h.project) ELSE UNCHANGED projectStatus
  /\ raced' = IF h.seen = task[t].status THEN raced ELSE raced \cup {t}
  /\ IF Completes(h) THEN Goto(r, "generate") ELSE Finish(r)
  /\ UNCHANGED <<dependencies, rule, entry, now>>

\* The task was deleted since it was read: Prisma throws P2025.
WriteStatusOfGone(r) ==
  /\ At(r, "writeStatus")
  /\ req[r].task \notin Live
  /\ Finish(r)
  /\ UNCHANGED <<rows, now, raced>>

-----------------------------------------------------------------------------
(***************************************************************************)
(* generateNextOccurrence.  Dates are abstracted: whether the next one is   *)
(* past the rule's until is a free choice when the rule has an until.       *)
(***************************************************************************)
GenerateNextOccurrence(r) ==
  LET t == req[r].task IN
  /\ At(r, "generate")
  /\ \/ t \in Live /\ rule[t].active /\ Goto(r, "createOccurrence")
     \/ t \in Live /\ rule[t].active /\ rule[t].bounded /\ Goto(r, "endSeries")
     \/ ~(t \in Live /\ rule[t].active) /\ Finish(r)
  /\ UNCHANGED <<rows, now, raced>>

CreateOccurrence(r) ==
  LET t == req[r].task IN
  /\ At(r, "createOccurrence")
  /\ t \in Live
  /\ \E n \in Task :
       /\ task[n].row = "none"
       /\ task' = [task EXCEPT ![n] = NewTask(req[r].project, Null, t)]
  /\ req' = [req EXCEPT ![r].pc = "stampRule", ![r].at = now]
  /\ UNCHANGED <<dependencies, rule, entry, projectStatus, now, raced>>

\* The model task is gone (foreign key), or the bound Task is used up: the
\* error is logged and swallowed.
CreateOccurrenceFails(r) ==
  /\ At(r, "createOccurrence")
  /\ req[r].task \notin Live \/ \A n \in Task : task[n].row # "none"
  /\ Finish(r)
  /\ UNCHANGED <<rows, now, raced>>

\* The last write of the generation; the rule may have been removed meanwhile.
StampRule(r) ==
  LET t == req[r].task IN
  /\ At(r, "stampRule")
  /\ rule' = [rule EXCEPT ![t].last = IF rule[t].set THEN req[r].at ELSE @]
  /\ Finish(r)
  /\ UNCHANGED <<task, dependencies, entry, projectStatus, now, raced>>

EndSeries(r) ==
  LET t == req[r].task IN
  /\ At(r, "endSeries")
  /\ rule' = [rule EXCEPT ![t].active = FALSE]
  /\ Finish(r)
  /\ UNCHANGED <<task, dependencies, entry, projectStatus, now, raced>>

\* upsert: a new rule is active whatever the request says.
SetRecurrence ==
  /\ \E t \in Live, bounded, active \in BOOLEAN :
       rule' = [rule EXCEPT ![t] = [set |-> TRUE, bounded |-> bounded, last |-> @.last,
                                    active |-> @.set => active]]
  /\ UNCHANGED <<task, dependencies, entry, projectStatus, now, req, raced>>

RemoveRecurrence ==
  /\ \E t \in Live : rule' = [rule EXCEPT ![t] = NoRule]
  /\ UNCHANGED <<task, dependencies, entry, projectStatus, now, req, raced>>

\* PATCH /projects/:id may set any status.
UpdateProject ==
  /\ \E p \in Project, s \in ProjectStatus :
       projectStatus' = [projectStatus EXCEPT ![p] = s]
  /\ UNCHANGED <<task, dependencies, rule, entry, now, req, raced>>
=============================================================================
