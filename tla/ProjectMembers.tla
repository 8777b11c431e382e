--------------------------- MODULE ProjectMembers ---------------------------
(***************************************************************************)
(* Who belongs to a project, in which role, and the project's way through   *)
(* the trash: ProjectService and the roles ProjectAccessService computes.   *)
(* The store also holds the invitations, which module Invitations handles.  *)
(* There is one project.  A handler checks in one or several reads and then *)
(* writes; other handlers commit in between.                                *)
(***************************************************************************)
EXTENDS Naturals, FiniteSets

CONSTANTS User,         \* accounts; an address is the account registered under it
          GlobalAdmin,  \* those whose global role is ADMIN
          Invitation,   \* identifiers an invitation may get
          Request,      \* slots for handlers in flight
          Null,
          Client,       \* operations the requests ask for
          Offered       \* roles they name


VARIABLES project,     \* the row of table Project
          member,      \* table ProjectMember: a role, or Null for no row
          invitation,  \* table ProjectInvitation
          req,         \* handlers in flight
          displaced    \* history: owners another user transferred the project from

rows == <<project, member, invitation>>
vars == <<project, member, invitation, req, displaced>>

Role == {"OWNER", "ADMIN", "MEMBER", "VIEWER"}
Assignable == Role \ {"OWNER"}
ASSUME NullAssumption == Null \notin User \cup Invitation \cup Role
ASSUME AdminAssumption == GlobalAdmin \subseteq User
ASSUME OfferedAssumption == Offered \subseteq Assignable
ASSUME RequestAssumption == IsFiniteSet(Request)

RankOf(role) == CASE role = "OWNER" -> 4 [] role = "ADMIN" -> 3 [] role = "MEMBER" -> 2
                  [] role = "VIEWER" -> 1 [] OTHER -> 0

\* A trashed project is overdue once its 30 days are over.
ProjectRow == [state : {"none", "live", "trashed", "purged"}, owner : User \cup {Null},
               overdue : BOOLEAN]
InvitationRow == [status : {"none", "PENDING", "ACCEPTED", "REVOKED"},
                  email : User \cup {Null}, role : Assignable, expired : BOOLEAN]
NoInvitation == [status |-> "none", email |-> Null, role |-> "MEMBER", expired |-> FALSE]

Op == {"none", "addMember", "joinProject", "removeMember", "updateMemberRole",
       "transferOwnership", "deleteProject", "restoreProject", "purgeProjectNow",
       "invite", "accept", "revoke"}
Step == {"idle", "existing", "target", "write", "replace", "settle"}

\* "as" is the role the access check returned; "stale" is history: since it began,
\* another handler changed the project's state or owner, the actor's role or what it acts on.
Handler == [op : Op, pc : Step, actor : User \cup {Null}, as : Role \cup {Null},
            target : User \cup {Null}, role : Assignable,
            invitation : Invitation \cup {Null}, stale : BOOLEAN]
Resting == [op |-> "none", pc |-> "idle", actor |-> Null, as |-> Null, target |-> Null,
            role |-> "MEMBER", invitation |-> Null, stale |-> FALSE]

\* What a handler holds once it is past its access check.
HandlerOK(h) ==
  /\ h.pc = "idle" <=> h.op = "none"
  /\ h.pc # "idle" => h.actor \in User
  /\ h.op \in {"addMember", "joinProject", "removeMember", "updateMemberRole",
               "transferOwnership", "invite", "accept"} => h.target \in User
  /\ h.op \in {"accept", "revoke"} => h.invitation \in Invitation
  /\ h.pc = "settle" => h.op = "accept"
  /\ h.op \in {"removeMember", "updateMemberRole", "transferOwnership"} =>
       h.target # h.actor

RowsOK ==
  /\ project \in ProjectRow
  /\ project.state # "none" => project.owner \in User
  /\ project.overdue => project.state = "trashed"
  /\ project.state = "none" => \A u \in User : member[u] = Null
  /\ member \in [User -> Role \cup {Null}]
  /\ invitation \in [Invitation -> InvitationRow]
  /\ \A i \in Invitation : invitation[i].status # "none" => invitation[i].email \in User
  /\ displaced \subseteq User
HandlersOK ==
  /\ req \in [Request -> Handler]
  /\ \A r \in Request : HandlerOK(req[r])

\* Types of the tables and of the handlers.
TypeOK == RowsOK /\ HandlersOK

Init ==
  /\ project = [state |-> "none", owner |-> Null, overdue |-> FALSE]
  /\ member = [u \in User |-> Null]
  /\ invitation = [i \in Invitation |-> NoInvitation]
  /\ req = [r \in Request |-> Resting]
  /\ displaced = {}

-----------------------------------------------------------------------------
\* The owner and the global administrators are OWNER whatever their row says.
EffectiveRole(p, m, u) == IF u = p.owner \/ u \in GlobalAdmin THEN "OWNER" ELSE m[u]

Exists == project.state \in {"live", "trashed"}
Requires(u, role) ==
  project.state = "live" /\ RankOf(EffectiveRole(project, member, u)) >= RankOf(role)
Outranks_OrEquals(as, role) == RankOf(as) >= RankOf(role)
Outranks(as, role) == RankOf(as) > RankOf(role)

\* In the trash only the owner and the global administrators have a say.
OwnsTrashed_AnyState(u) == Exists /\ (u = project.owner \/ u \in GlobalAdmin)
OwnsTrashed(u) == project.state = "trashed" /\ (u = project.owner \/ u \in GlobalAdmin)

At(r, step) == req[r].pc = step
Finish(r) == req' = [req EXCEPT ![r] = Resting]
Goto(r, step) == req' = [req EXCEPT ![r].pc = step]
Accept(r, h) ==
  /\ req[r] = Resting
  /\ h.op \in Client
  /\ req' = [req EXCEPT ![r] = h]

\* The write of r is committed and r goes on as h; what it changed is news to the others.
Disturbed(h) ==
  /\ h.op # "none"
  /\ \/ project'.state # project.state \/ project'.owner # project.owner
     \/ EffectiveRole(project', member', h.actor) # EffectiveRole(project, member, h.actor)
     \/ h.target # Null /\ member'[h.target] # member[h.target]
     \/ h.invitation # Null /\ invitation'[h.invitation] # invitation[h.invitation]
Commit(r, h) ==
  req' = [q \in Request |->
    IF q = r THEN h
    ELSE [req[q] EXCEPT !.stale = @ \/ Disturbed(req[q])]]

-----------------------------------------------------------------------------
\* One transaction: the project and its owner's row.  ProjectService leaves that row its
\* default role; TemplateService, which makes a project of a template, does not.
Create(role) ==
  /\ project.state = "none"
  /\ \E u \in User :
       /\ project' = [state |-> "live", owner |-> u, overdue |-> FALSE]
       /\ member' = [member EXCEPT ![u] = role]
  /\ UNCHANGED <<invitation, req, displaced>>
CreateProject == Create("MEMBER")
Instantiate == Create("OWNER")

\* A manager adds a user below its own rank.
BeginAddMember(r) ==
  /\ \E u, v \in User, role \in Offered :
       /\ Requires(u, "ADMIN")
       /\ Outranks(EffectiveRole(project, member, u), role)
       /\ Accept(r, [Resting EXCEPT !.op = "addMember", !.pc = "existing", !.actor = u,
                                    !.target = v, !.role = role])
  /\ UNCHANGED <<rows, displaced>>

\* By the project's code or by its shared link, which any user may hold.
BeginJoinProject(r) ==
  /\ project.state = "live"
  /\ \E u \in User :
       Accept(r, [Resting EXCEPT !.op = "joinProject", !.pc = "existing", !.actor = u,
                                !.target = u])
  /\ UNCHANGED <<rows, displaced>>

\* Nobody removes itself or changes its own role.
BeginChangeMember(r) ==
  /\ \E u, v \in User :
       /\ Requires(u, "ADMIN")
       /\ u # v
       /\ \/ Accept(r, [Resting EXCEPT !.op = "removeMember", !.pc = "target", !.actor = u,
                         !.as = EffectiveRole(project, member, u), !.target = v])
          \/ \E role \in Offered :
               Accept(r, [Resting EXCEPT !.op = "updateMemberRole", !.pc = "target",
                            !.actor = u, !.as = EffectiveRole(project, member, u),
                            !.target = v, !.role = role])
  /\ UNCHANGED <<rows, displaced>>

BeginTransferOwnership(r) ==
  /\ \E u, v \in User :
       /\ Requires(u, "OWNER")
       /\ u # v
       /\ Accept(r, [Resting EXCEPT !.op = "transferOwnership", !.pc = "target",
                                    !.actor = u, !.as = "OWNER", !.target = v])
  /\ UNCHANGED <<rows, displaced>>

BeginDeleteProject(r) ==
  /\ \E u \in User :
       /\ Requires(u, "OWNER")
       /\ Accept(r, [Resting EXCEPT !.op = "deleteProject", !.pc = "write", !.actor = u])
  /\ UNCHANGED <<rows, displaced>>

\* restoreProject and purgeProjectNow read the trashed project and judge its owner.
BeginOnTrashed(r) ==
  /\ \E u \in User, op \in {"restoreProject", "purgeProjectNow"} :
       /\ OwnsTrashed(u)
       /\ Accept(r, [Resting EXCEPT !.op = op, !.pc = "write", !.actor = u])
  /\ UNCHANGED <<rows, displaced>>

\* addMemberToProject refuses whoever is a member already; so does invite.  An
\* invitation accepted by a member is settled all the same.
CheckExisting(r) ==
  LET h == req[r] IN
  /\ At(r, "existing")
  /\ \/ /\ member[h.target] = Null
        /\ Goto(r, IF h.op = "invite" THEN "replace" ELSE "write")
     \/ member[h.target] # Null /\ h.op = "accept" /\ Goto(r, "settle")
     \/ member[h.target] # Null /\ h.op # "accept" /\ Finish(r)
  /\ UNCHANGED <<rows, displaced>>

\* getMembershipOrThrow, then the rank checks of the operation.
Permitted(h) ==
  CASE h.op = "transferOwnership" -> member[h.target] # Null
    [] h.op = "removeMember" ->
         member[h.target] \in Assignable /\ Outranks(h.as, member[h.target])
    [] h.op = "updateMemberRole" ->
         /\ member[h.target] \in Assignable /\ Outranks(h.as, member[h.target])
         /\ Outranks(h.as, h.role)
    [] OTHER -> invitation[h.invitation].status = "PENDING"

CheckTarget(r) ==
  /\ At(r, "target")
  /\ IF Permitted(req[r])
     THEN req' = [req EXCEPT ![r].pc = "write", ![r].as = Null]
     ELSE Finish(r)
  /\ UNCHANGED <<rows, displaced>>

-----------------------------------------------------------------------------
Writable_ProjectGone(h) ==
  /\ h.invitation # Null => invitation[h.invitation].status # "none"
  /\ h.op \in {"addMember", "joinProject", "accept"} => member[h.target] = Null
\* What the database lets a write do: the rows it updates or deletes exist, the row it
\* inserts is new and its project exists.
Writable(h) ==
  /\ Exists
  /\ h.invitation # Null => invitation[h.invitation].status # "none"
  /\ CASE h.op \in {"addMember", "joinProject", "accept"} -> member[h.target] = Null
       [] h.op \in {"removeMember", "updateMemberRole"} -> member[h.target] # Null
       [] h.op = "transferOwnership" -> member[h.target] # Null /\ member[h.actor] # Null
       [] h.op = "invite" -> \E i \in Invitation : invitation[i].status = "none"
       [] OTHER -> TRUE

Writes(r, ops) == At(r, "write") /\ req[r].op \in ops /\ Writable(req[r])

\* P2025, P2002 or a broken foreign key: the handler ends and nothing is written.
\* (For invite, the bound Invitation is used up.)
WriteRefused(r) ==
  /\ At(r, "write")
  /\ ~Writable(req[r])
  /\ Finish(r)
  /\ UNCHANGED <<rows, displaced>>

InsertMember(r) ==
  /\ Writes(r, {"addMember", "joinProject"})
  /\ member' = [member EXCEPT ![req[r].target] = req[r].role]
  /\ UNCHANGED <<project, invitation, displaced>>
  /\ Commit(r, Resting)

RemoveMember(r) ==
  /\ Writes(r, {"removeMember"})
  /\ member' = [member EXCEPT ![req[r].target] = Null]
  /\ UNCHANGED <<project, invitation, displaced>>
  /\ Commit(r, Resting)

UpdateMemberRole(r) ==
  /\ Writes(r, {"updateMemberRole"})
  /\ member' = [member EXCEPT ![req[r].target] = req[r].role]
  /\ UNCHANGED <<project, invitation, displaced>>
  /\ Commit(r, Resting)

\* One transaction; the actor is demoted, whoever the owner was.
NewRoles_OwnerKept(m, actor, next) == [m EXCEPT ![next] = "OWNER"]
NewRoles(m, actor, next) == [m EXCEPT ![next] = "OWNER", ![actor] = "ADMIN"]

TransferOwnership(r) ==
  LET h == req[r] IN
  /\ Writes(r, {"transferOwnership"})
  /\ project' = [project EXCEPT !.owner = h.target]
  /\ member' = NewRoles(member, h.actor, h.target)
  /\ displaced' = displaced \cup ({project.owner} \ {h.actor})
  /\ UNCHANGED invitation
  /\ Commit(r, Resting)

\* The updates name the project by its id: a second deletion restarts the 30 days.
DeleteProject(r) ==
  /\ Writes(r, {"deleteProject"})
  /\ project' = [project EXCEPT !.state = "trashed", !.overdue = FALSE]
  /\ UNCHANGED <<member, invitation, displaced>>
  /\ Commit(r, Resting)

RestoreProject(r) ==
  /\ Writes(r, {"restoreProject"})
  /\ project' = [project EXCEPT !.state = "live", !.overdue = FALSE]
  /\ UNCHANGED <<member, invitation, displaced>>
  /\ Commit(r, Resting)

\* The cascade takes the members and the invitations.
Purge ==
  /\ project' = [project EXCEPT !.state = "purged", !.overdue = FALSE]
  /\ member' = [u \in User |-> Null]
  /\ invitation' = [i \in Invitation |-> NoInvitation]

PurgeProjectNow(r) ==
  /\ Writes(r, {"purgeProjectNow"})
  /\ Purge
  /\ UNCHANGED displaced
  /\ Commit(r, Resting)

\* Someone looks at the trash: one deleteMany, no handler in between.
Expired == project.state = "trashed" /\ project.overdue
PurgeExpiredProjects ==
  /\ Expired
  /\ Purge
  /\ UNCHANGED <<req, displaced>>

\* Thirty days pass.
RetentionEnds ==
  /\ project.state = "trashed" /\ ~project.overdue
  /\ project' = [project EXCEPT !.overdue = TRUE]
  /\ UNCHANGED <<member, invitation, req, displaced>>

\* An awaited call fails or the process restarts: the rest of the handler is lost.
Abort(r) ==
  /\ req[r] # Resting
  /\ Finish(r)
  /\ UNCHANGED <<rows, displaced>>

MemberStep(r) ==
  \/ BeginAddMember(r) \/ BeginJoinProject(r) \/ BeginChangeMember(r)
  \/ BeginTransferOwnership(r) \/ BeginDeleteProject(r) \/ BeginOnTrashed(r)
  \/ CheckExisting(r) \/ CheckTarget(r) \/ WriteRefused(r)
  \/ InsertMember(r) \/ RemoveMember(r) \/ UpdateMemberRole(r)
  \/ TransferOwnership(r) \/ DeleteProject(r) \/ RestoreProject(r)
  \/ PurgeProjectNow(r) \/ Abort(r)
ProjectStep == CreateProject \/ Instantiate \/ PurgeExpiredProjects \/ RetentionEnds
=============================================================================
