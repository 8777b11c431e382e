---------------------------- MODULE TimeTracking ----------------------------
(***************************************************************************)
(* Timers and time entries: startTimer, stopTimer, createManualTimeEntry    *)
(* and deleteTimeEntry of TimeEntryService.                                 *)
(***************************************************************************)
EXTENDS TaskWorkflow

\* A second timer is refused; a task still to do is put in progress.
MayStartTimer_Always(u) == TRUE
MayStartTimer(u) == ActiveTimers(u) = {}
StartsTask(seen) == seen = "TODO"

-----------------------------------------------------------------------------
BeginStartTimer(r) ==
  /\ \E u \in User, t \in Live :
       Accept(r, [Resting EXCEPT !.op = "startTimer", !.pc = "activeTimer",
                                 !.user = u, !.task = t])
  /\ UNCHANGED <<rows, now, raced>>

BeginStopTimer(r) ==
  /\ \E u \in User :
       Accept(r, [Resting EXCEPT !.op = "stopTimer", !.pc = "activeTimer", !.user = u])
  /\ UNCHANGED <<rows, now, raced>>

\* getActiveTimer: findFirst without an order, so any one of them.
GetActiveTimer(r) ==
  LET h == req[r]  running == ActiveTimers(h.user) IN
  /\ At(r, "activeTimer")
  /\ \/ h.op = "startTimer" /\ MayStartTimer(h.user) /\ Goto(r, "readTask")
     \/ h.op = "startTimer" /\ ~MayStartTimer(h.user) /\ Finish(r)
     \/ h.op = "stopTimer" /\ running = {} /\ Finish(r)
     \/ /\ h.op = "stopTimer"
        /\ \E e \in running :
             req' = [req EXCEPT ![r].pc = "writeEnd", ![r].entry = e, ![r].at = now]
  /\ UNCHANGED <<rows, now, raced>>

\* The task with the status of its blockers, in one query.
ReadTimedTask(r) ==
  LET t == req[r].task IN
  /\ At(r, "readTask")
  /\ IF t \in Live /\ Unfinished(t) = {}
     THEN req' = [req EXCEPT ![r].pc = "createEntry", ![r].seen = task[t].status,
                             ![r].project = task[t].project, ![r].at = now]
     ELSE Finish(r)
  /\ UNCHANGED <<rows, now, raced>>

\* The transaction: entry, TODO -> DOING as read before, project activation.
CreateTimer(r) ==
  LET h == req[r]  t == h.task IN
  /\ At(r, "createEntry")
  /\ t \in Live
  /\ \E e \in Entry :
       /\ entry[e].row = "none"
       /\ entry' = [entry EXCEPT ![e] =
            [row |-> "live", task |-> t, user |-> h.user, start |-> h.at,
             end |-> Null, manual |-> FALSE]]
  /\ IF StartsTask(h.seen)
     THEN /\ task' = [task EXCEPT ![t].status = "DOING"]
          /\ raced' = IF task[t].status = "TODO" THEN raced ELSE raced \cup {t}
     ELSE UNCHANGED <<task, raced>>
  /\ ActivateProject(h.project)
  /\ Finish(r)
  /\ UNCHANGED <<dependencies, rule, now>>

\* The task is gone (foreign key), or the bound Entry is used up.
CreateTimerFails(r) ==
  /\ At(r, "createEntry")
  /\ req[r].task \notin Live \/ \A e \in Entry : entry[e].row # "none"
  /\ Finish(r)
  /\ UNCHANGED <<rows, now, raced>>

\* update by id: whatever the row holds by now, unless it is deleted.
WriteEnd(r) ==
  LET h == req[r] IN
  /\ At(r, "writeEnd")
  /\ entry' = IF entry[h.entry].row = "live"
              THEN [entry EXCEPT ![h.entry].end = h.at] ELSE entry
  /\ Finish(r)
  /\ UNCHANGED <<task, dependencies, rule, projectStatus, now, raced>>

\* One insert after the access check; a duration that is not positive is refused.
CreateManualTimeEntry ==
  /\ \E u \in User, t \in Live, e \in Entry, start, end \in 0 .. MaxTime :
       /\ entry[e].row = "none"
       /\ end > start
       /\ entry' = [entry EXCEPT ![e] =
            [row |-> "live", task |-> t, user |-> u, start |-> start,
             end |-> end, manual |-> TRUE]]
  /\ UNCHANGED <<task, dependencies, rule, projectStatus, now, req, raced>>

\* The entry is read and belongs to the caller.
BeginDeleteTimeEntry(r) ==
  /\ \E e \in Entry :
       /\ entry[e].row = "live"
       /\ Accept(r, [Resting EXCEPT !.op = "deleteTimeEntry", !.pc = "deleteEntry",
                                    !.user = entry[e].user, !.entry = e])
  /\ UNCHANGED <<rows, now, raced>>

DeleteTimeEntry(r) ==
  /\ At(r, "deleteEntry")
  /\ entry' = [entry EXCEPT ![req[r].entry] = NoEntryRow("gone")]
  /\ Finish(r)
  /\ UNCHANGED <<task, dependencies, rule, projectStatus, now, raced>>
=============================================================================
