----------------------------- MODULE Departures -----------------------------
(***************************************************************************)
(* When an account is deleted its work goes to a replacement: deleteUser of *)
(* AuthService, against the assignment of tasks (TacheService) and whatever *)
(* else gives work meanwhile.  There is one project; who joins, leaves and  *)
(* owns it is the matter of module ProjectMembers, and only the writes it   *)
(* may commit, at any moment, are here.                                     *)
(***************************************************************************)
EXTENDS Naturals, FiniteSets

CONSTANTS User,     \* accounts
          Task,     \* tasks of the project
          Request,  \* slots for handlers in flight
          Null,
          Plan      \* instances: the work there is, and the operations called

VARIABLES account,   \* User rows: "live" or "deleted" (deletedAt set)
          project,   \* the row of table Project
          member,    \* table ProjectMember, without its roles
          assigned,  \* table TaskAssignment
          req,       \* handlers in flight
          calls,     \* operations the clients of this instance call
          slipped    \* history: who was given work while or after being deleted

rows == <<account, project, member, assigned>>
vars == <<account, project, member, assigned, req, calls, slipped>>

Op == {"none", "deleteUser", "assignUsersToTask", "unassignUserFromTask"}
Step == {"idle", "replacement", "commit", "members", "clear", "create", "delete"}
\* The rows an instance starts from are rows of these tables.
PlansFit ==
  \A p \in Plan :
    /\ p.project \in [state : {"none", "live", "trashed"}, owner : User \cup {Null}]
    /\ p.member \subseteq User /\ p.assigned \subseteq Task \X User

\* "owns", "tasks" and "belongs" are the impact deleteUser has read; "met" is history:
\* since it began, another handler changed the assignees of its task.
Handler == [op : Op, pc : Step, user : User \cup {Null}, to : User \cup {Null},
            owns : BOOLEAN, tasks : SUBSET Task, belongs : BOOLEAN,
            users : SUBSET User, left : SUBSET User, met : BOOLEAN]
Resting == [op |-> "none", pc |-> "idle", user |-> Null, to |-> Null, owns |-> FALSE,
            tasks |-> {}, belongs |-> FALSE, users |-> {}, left |-> {}, met |-> FALSE]

Live == {u \in User : account[u] = "live"}
TasksOf(u) == {t \in Task : <<t, u>> \in assigned}
Assignees(t) == {u \in User : <<t, u>> \in assigned}
OwnsLive(u) == project.state = "live" /\ project.owner = u

Init ==
  /\ \E p \in Plan : /\ calls = p.calls
                     /\ project = p.project
                     /\ member = p.member
                     /\ assigned = p.assigned
  /\ account = [u \in User |-> "live"]
  /\ req = [r \in Request |-> Resting]
  /\ slipped = {}

At(r, step) == req[r].pc = step
Finish(r) == req' = [req EXCEPT ![r] = Resting]
Accept(r, h) == h.op \in calls /\ req[r] = Resting /\ req' = [req EXCEPT ![r] = h]

\* Work is handed out while a deletion has already counted what its user holds, or later.
Leaving(u) == \E r \in Request : req[r].op = "deleteUser" /\ req[r].user = u
GivenWork(u) == \/ OwnsLive(u)' /\ ~OwnsLive(u)
                \/ \E t \in Task : <<t, u>> \in assigned' \ assigned
NoteSlips ==
  slipped' = slipped \cup {u \in User : GivenWork(u) /\ (u \notin Live \/ Leaving(u))}

\* The write of r is committed and r goes on as h.
Commit(r, h) ==
  /\ req' = [q \in Request |->
       IF q = r THEN h
       ELSE [req[q] EXCEPT !.met = @ \/
              /\ req[q].op = "assignUsersToTask"
              /\ \E t \in req[q].tasks : Assignees(t)' # Assignees(t)]]
  /\ NoteSlips

-----------------------------------------------------------------------------
(***************************************************************************)
(* deleteUser: the impact is read, the replacement checked, then one        *)
(* transaction hands over what was read and marks the account.              *)
(***************************************************************************)
Impact(u) == OwnsLive(u) \/ TasksOf(u) # {} \/ (u \in member /\ project.state = "live")

BeginDeleteUser(r) ==
  /\ \E u \in Live, w \in User \cup {Null} :
       /\ u # w
       /\ Impact(u) => w # Null
       /\ Accept(r, [Resting EXCEPT
            !.op = "deleteUser", !.user = u, !.to = w,
            !.pc = IF w = Null THEN "commit" ELSE "replacement",
            !.owns = OwnsLive(u), !.tasks = TasksOf(u),
            !.belongs = u \in member /\ project.state = "live"])
  /\ UNCHANGED <<rows, calls, slipped>>

CheckReplacement(r) ==
  /\ At(r, "replacement")
  /\ IF req[r].to \in Live THEN req' = [req EXCEPT ![r].pc = "commit"] ELSE Finish(r)
  /\ UNCHANGED <<rows, calls, slipped>>

\* Every project of the user goes, those in the trash and those created since too,
\* when it owned a live one at first.
NewOwner(h) == IF h.owns /\ project.owner = h.user THEN h.to ELSE project.owner

\* Each task goes to the replacement, who may have it already.
Reassigned_Kept(h) ==
  (assigned \ {<<t, h.user>> : t \in h.tasks \ TasksOf(h.to)}) \cup (h.tasks \X {h.to})
Reassigned(h) == (assigned \ (h.tasks \X {h.user})) \cup (h.tasks \X {h.to})

\* An assignment that was read is gone: the transaction is rolled back.
Vanished(h) == h.to # Null /\ ~(h.tasks \subseteq TasksOf(h.user))

DeleteUser(r) ==
  LET h == req[r] IN
  /\ At(r, "commit")
  /\ ~Vanished(h)
  /\ account' = [account EXCEPT ![h.user] = "deleted"]
  /\ IF h.to = Null THEN UNCHANGED <<project, member, assigned>>
     ELSE /\ project' = [project EXCEPT !.owner = NewOwner(h)]
          /\ assigned' = Reassigned(h)
          /\ member' = IF h.belongs THEN member \cup {h.to} ELSE member
  /\ UNCHANGED calls
  /\ Commit(r, Resting)

DeleteUserFails(r) ==
  /\ At(r, "commit")
  /\ Vanished(req[r])
  /\ Finish(r)
  /\ UNCHANGED <<rows, calls, slipped>>

-----------------------------------------------------------------------------
(***************************************************************************)
(* assignUsersToTask and unassignUserFromTask.                              *)
(***************************************************************************)
BeginAssignUsers(r) ==
  /\ project.state = "live"
  /\ \E t \in Task, users \in SUBSET Live :
       Accept(r, [Resting EXCEPT !.op = "assignUsersToTask", !.pc = "members",
                                 !.tasks = {t}, !.users = users, !.left = users])
  /\ UNCHANGED <<rows, calls, slipped>>

CheckMembers(r) ==
  /\ At(r, "members")
  /\ IF req[r].users \subseteq member THEN req' = [req EXCEPT ![r].pc = "clear"]
     ELSE Finish(r)
  /\ UNCHANGED <<rows, calls, slipped>>

Cleared_Others(h) == assigned \ (h.tasks \X h.users)
Cleared(h) == assigned \ (h.tasks \X User)
ClearAssignees(r) ==
  LET h == req[r] IN
  /\ At(r, "clear")
  /\ assigned' = Cleared(h)
  /\ UNCHANGED <<account, project, member, calls>>
  /\ Commit(r, IF h.users = {} THEN Resting ELSE [h EXCEPT !.pc = "create"])

\* The rows are inserted at once, in any order; one that exists already fails the
\* response and leaves the others to go on.
CreateAssignment(r) ==
  LET h == req[r] IN
  /\ At(r, "create")
  /\ UNCHANGED <<account, project, member, calls>>
  /\ \E u \in h.left :
       /\ assigned' = assigned \cup (h.tasks \X {u})
       /\ Commit(r, IF h.left = {u} THEN Resting ELSE [h EXCEPT !.left = @ \ {u}])

BeginUnassign(r) ==
  /\ project.state = "live"
  /\ \E t \in Task : \E u \in Assignees(t) :
       Accept(r, [Resting EXCEPT !.op = "unassignUserFromTask", !.pc = "delete",
                                 !.tasks = {t}, !.users = {u}])
  /\ UNCHANGED <<rows, calls, slipped>>

\* A row deleted meanwhile fails the request: nothing changes either way.
UnassignUser(r) ==
  /\ At(r, "delete")
  /\ assigned' = assigned \ (req[r].tasks \X req[r].users)
  /\ UNCHANGED <<account, project, member, calls>>
  /\ Commit(r, Resting)

Abort(r) ==
  /\ req[r] # Resting
  /\ Finish(r)
  /\ UNCHANGED <<rows, calls, slipped>>

-----------------------------------------------------------------------------
\* What ProjectService writes meanwhile.  An access token outlives its account for a
\* quarter of an hour, so a deleted user may still create a project.
Elsewhere(op) == op \in calls /\ UNCHANGED <<account, assigned, req, calls>>

CreateProject ==
  /\ Elsewhere("createProject")
  /\ project.state = "none"
  /\ \E u \in User : /\ project' = [state |-> "live", owner |-> u]
                     /\ member' = member \cup {u}
  /\ NoteSlips

TransferOwnership ==
  /\ Elsewhere("transferOwnership")
  /\ project.state = "live"
  /\ \E u \in member : project' = [project EXCEPT !.owner = u]
  /\ UNCHANGED member
  /\ NoteSlips

TrashProject ==
  /\ Elsewhere("deleteProject")
  /\ project.state = "live"
  /\ project' = [project EXCEPT !.state = "trashed"]
  /\ UNCHANGED member
  /\ NoteSlips

RestoreProject ==
  /\ Elsewhere("restoreProject")
  /\ project.state = "trashed"
  /\ project' = [project EXCEPT !.state = "live"]
  /\ UNCHANGED member
  /\ NoteSlips

\* Added or with a code, of the project as it was when they asked; and removed, the owner
\* too, whose row need not say OWNER.
AddMember ==
  /\ Elsewhere("addMember")
  /\ project.state # "none"
  /\ \E u \in User \ member : member' = member \cup {u}
  /\ UNCHANGED project
  /\ NoteSlips

RemoveMember ==
  /\ Elsewhere("removeMember")
  /\ project.state # "none"
  /\ \E u \in member : member' = member \ {u}
  /\ UNCHANGED project
  /\ NoteSlips

Next ==
  \/ \E r \in Request :
       \/ BeginDeleteUser(r) \/ CheckReplacement(r) \/ DeleteUser(r) \/ DeleteUserFails(r)
       \/ BeginAssignUsers(r) \/ CheckMembers(r) \/ ClearAssignees(r) \/ CreateAssignment(r)
       \/ BeginUnassign(r) \/ UnassignUser(r)
       \/ Abort(r)
  \/ CreateProject \/ TransferOwnership \/ TrashProject \/ RestoreProject
  \/ AddMember \/ RemoveMember

Spec == Init /\ [][Next]_vars

-----------------------------------------------------------------------------
\* Types of the tables and of the handlers.
TypeOK ==
  /\ account \in [User -> {"live", "deleted"}]
  /\ project \in [state : {"none", "live", "trashed"}, owner : User \cup {Null}]
  /\ member \subseteq User
  /\ assigned \subseteq Task \X User
  /\ req \in [Request -> Handler]
  /\ slipped \subseteq User

\* deleteUser: no live project and no task is left in the hands of a deleted account,
\* unless they came into its hands while it was being deleted, or later (a project of
\* its own out of the trash, a replacement that left as well).
WorkInLivingHands ==
  \A u \in User \ (Live \cup slipped) : ~OwnsLive(u) /\ TasksOf(u) = {}

\* assignUsersToTask: a request that met no other change of its task leaves it to exactly
\* the people it names, whoever had it before.
AssigneesAsRequested ==
  [][\A r \in Request :
       /\ req[r].op = "assignUsersToTask" /\ req'[r] = Resting
       /\ assigned' # assigned
       /\ ~req[r].met
       => \A t \in req[r].tasks : Assignees(t)' = req[r].users]_vars
=============================================================================
