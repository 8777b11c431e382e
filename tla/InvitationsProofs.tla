-------------------------- MODULE InvitationsProofs --------------------------
(***************************************************************************)
(* Proofs about the members, the trash and the invitations of a project,    *)
(* for any number of users, invitations and handlers in flight; and, for     *)
(* any number of rows and changes, about what people write on a project by   *)
(* the rights they have (module Contributions).                              *)
(***************************************************************************)
EXTENDS MCInvitations, FiniteSetTheorems, TLAPS

USE DEF Role, Assignable

LEMMA InitType == Init => TypeOK
BY NullAssumption
   DEF Init, TypeOK, RowsOK, HandlersOK, HandlerOK, ProjectRow, InvitationRow, NoInvitation,
       Handler, Resting, Op, Step

-----------------------------------------------------------------------------
\* Putting a well-formed handler in a slot keeps every slot well formed.
LEMMA SlotOK ==
  ASSUME HandlersOK, NEW r \in Request, NEW h \in Handler, HandlerOK(h),
         req' = [req EXCEPT ![r] = h]
  PROVE  HandlersOK'
BY DEF HandlersOK, HandlerOK

LEMMA RestingOK == Resting \in Handler /\ HandlerOK(Resting)
BY DEF Resting, Handler, HandlerOK, Op, Step

LEMMA FinishOK ==
  ASSUME HandlersOK, NEW r \in Request, Finish(r)
  PROVE  HandlersOK'
BY RestingOK, SlotOK DEF Finish

LEMMA GotoOK ==
  ASSUME HandlersOK, NEW r \in Request, NEW s \in Step \ {"idle"}, req[r].pc # "idle",
         s = "settle" => req[r].op = "accept", Goto(r, s)
  PROVE  HandlersOK'
<1> DEFINE h == [req[r] EXCEPT !.pc = s]
<1>1. req[r] \in Handler /\ HandlerOK(req[r])
  BY DEF HandlersOK
<1>2. h \in Handler /\ HandlerOK(h)
  BY <1>1 DEF Handler, HandlerOK
<1>3. req' = [req EXCEPT ![r] = h]
  BY DEF HandlersOK, Goto
<1> QED BY <1>2, <1>3, SlotOK

LEMMA AcceptOK ==
  ASSUME HandlersOK, NEW r \in Request, NEW h \in Handler, HandlerOK(h), Accept(r, h)
  PROVE  HandlersOK'
BY SlotOK DEF Accept

\* A commit changes the other handlers only in what the history says of them.
LEMMA CommitOK ==
  ASSUME HandlersOK, NEW r \in Request, NEW h \in Handler, HandlerOK(h), Commit(r, h)
  PROVE  HandlersOK'
<1> SUFFICES ASSUME NEW q \in Request
             PROVE  req'[q] \in Handler /\ HandlerOK(req'[q])
  BY DEF HandlersOK, Commit
<1>1. CASE q = r
  BY <1>1 DEF Commit
<1>2. CASE q # r
  <2> DEFINE b == req[q].stale \/ Disturbed(req[q])
  <2>1. req[q] \in Handler /\ HandlerOK(req[q])
    BY DEF HandlersOK
  <2>2. b \in BOOLEAN
    OBVIOUS
  <2>3. req'[q] = [req[q] EXCEPT !.stale = b]
    BY <1>2 DEF Commit
  <2> HIDE DEF b
  <2>4. [req[q] EXCEPT !.stale = b] \in Handler
    BY <2>1, <2>2 DEF Handler
  <2>5. HandlerOK([req[q] EXCEPT !.stale = b])
    BY <2>1 DEF Handler, HandlerOK
  <2> QED BY <2>3, <2>4, <2>5
<1> QED BY <1>1, <1>2

LEMMA RowsKept ==
  ASSUME RowsOK, UNCHANGED <<rows, displaced>>
  PROVE  RowsOK'
BY DEF RowsOK, rows

-----------------------------------------------------------------------------
\* The handlers that begin hold what their steps will use.
LEMMA BeginType ==
  ASSUME TypeOK, NEW r \in Request,
         \/ BeginAddMember(r) \/ BeginJoinProject(r) \/ BeginChangeMember(r)
         \/ BeginTransferOwnership(r) \/ BeginDeleteProject(r) \/ BeginOnTrashed(r)
         \/ BeginInvite(r) \/ BeginAccept(r) \/ BeginRevoke(r)
  PROVE  TypeOK'
<1> USE DEF TypeOK
<1> SUFFICES \E h \in Handler : HandlerOK(h) /\ Accept(r, h)
  <2>1. UNCHANGED <<rows, displaced>>
    BY DEF BeginAddMember, BeginJoinProject, BeginChangeMember, BeginTransferOwnership,
           BeginDeleteProject, BeginOnTrashed, BeginInvite, BeginAccept, BeginRevoke
  <2> QED BY <2>1, AcceptOK, RowsKept
<1> DEFINE Role1(u) == EffectiveRole(project, member, u)
<1>0. \A u \in User : Role1(u) \in Role \cup {Null}
  BY DEF RowsOK, EffectiveRole
<1> USE DEF Handler, HandlerOK, Resting, Op, Step
<1>1. CASE BeginAddMember(r) \/ BeginInvite(r)
  BY <1>1, OfferedAssumption DEF BeginAddMember, BeginInvite
<1>2. CASE BeginJoinProject(r)
  BY <1>2 DEF BeginJoinProject
<1>3. CASE BeginChangeMember(r)
  BY <1>0, <1>3, OfferedAssumption DEF BeginChangeMember
<1>4. CASE BeginTransferOwnership(r)
  BY <1>4 DEF BeginTransferOwnership
<1>5. CASE BeginDeleteProject(r) \/ BeginOnTrashed(r)
  BY <1>5 DEF BeginDeleteProject, BeginOnTrashed
<1>6. CASE BeginAccept(r)
  BY <1>6 DEF BeginAccept, Usable, RowsOK, InvitationRow
<1>7. CASE BeginRevoke(r)
  BY <1>7 DEF BeginRevoke
<1> QED BY <1>1, <1>2, <1>3, <1>4, <1>5, <1>6, <1>7

\* The reads between the access check and the write.
LEMMA CheckType ==
  ASSUME TypeOK, NEW r \in Request,
         CheckExisting(r) \/ CheckTarget(r) \/ WriteRefused(r) \/ Abort(r)
  PROVE  TypeOK'
<1> USE DEF TypeOK
<1>1. RowsOK'
  BY RowsKept DEF CheckExisting, CheckTarget, WriteRefused, Abort
<1>2. CASE CheckExisting(r)
  BY <1>1, <1>2, FinishOK, GotoOK DEF CheckExisting, At, Step
<1>3. CASE CheckTarget(r)
  <2> DEFINE h == [req[r] EXCEPT !.pc = "write", !.as = Null]
  <2>1. req[r] \in Handler /\ HandlerOK(req[r]) /\ req[r].pc = "target"
    BY <1>3 DEF HandlersOK, CheckTarget, At
  <2>2. h \in Handler /\ HandlerOK(h)
    BY <2>1 DEF Handler, HandlerOK, Step
  <2>3. CASE Permitted(req[r])
    <3>1. req' = [req EXCEPT ![r] = h]
      BY <1>3, <2>3 DEF CheckTarget, HandlersOK
    <3> QED BY <1>1, <2>2, <3>1, SlotOK
  <2>4. CASE ~Permitted(req[r])
    BY <1>1, <1>3, <2>4, FinishOK DEF CheckTarget
  <2> QED BY <2>3, <2>4
<1>4. CASE WriteRefused(r) \/ Abort(r)
  BY <1>1, <1>4, FinishOK DEF WriteRefused, Abort
<1> QED BY <1>2, <1>3, <1>4

\* What the handler that writes holds.
LEMMA WriterOK ==
  ASSUME TypeOK, NEW r \in Request, NEW ops, Writes(r, ops)
  PROVE  /\ req[r] \in Handler /\ HandlerOK(req[r]) /\ req[r].pc = "write"
         /\ req[r].op \in ops
         /\ project.state \in {"live", "trashed"}
BY DEF TypeOK, HandlersOK, Writes, At, Writable, Exists

\* The writes of ProjectService.
LEMMA MemberWriteType ==
  ASSUME TypeOK, NEW r \in Request,
         \/ InsertMember(r) \/ RemoveMember(r) \/ UpdateMemberRole(r)
         \/ TransferOwnership(r) \/ DeleteProject(r) \/ RestoreProject(r)
         \/ PurgeProjectNow(r)
  PROVE  TypeOK'
<1> USE DEF TypeOK
<1> DEFINE h == req[r]
<1>1. HandlersOK'
  BY RestingOK, CommitOK
     DEF InsertMember, RemoveMember, UpdateMemberRole, TransferOwnership, DeleteProject,
         RestoreProject, PurgeProjectNow
<1>2. CASE InsertMember(r)
  <2>1. h.target \in User /\ h.role \in Role /\ project.state # "none"
    BY <1>2, WriterOK DEF InsertMember, HandlerOK, Handler
  <2> QED BY <1>1, <1>2, <2>1 DEF InsertMember, RowsOK
<1>3. CASE RemoveMember(r)
  BY <1>1, <1>3 DEF RemoveMember, RowsOK
<1>4. CASE UpdateMemberRole(r)
  <2>1. h.role \in Role /\ project.state # "none"
    BY <1>4, WriterOK DEF UpdateMemberRole, Handler
  <2> QED BY <1>1, <1>4, <2>1 DEF UpdateMemberRole, RowsOK
<1>5. CASE TransferOwnership(r)
  <2>1. h.target \in User
    BY <1>5, WriterOK DEF TransferOwnership, HandlerOK
  <2>2. project.state # "none" /\ project.owner \in User
    BY <1>5, WriterOK DEF TransferOwnership, RowsOK
  <2>3. member' \in [User -> Role \cup {Null}]
    BY <1>5 DEF TransferOwnership, NewRoles, RowsOK
  <2>4. project' \in ProjectRow /\ project'.owner = h.target
        /\ project'.overdue = project.overdue /\ project'.state = project.state
    BY <1>5, <2>1 DEF TransferOwnership, RowsOK, ProjectRow
  <2> QED BY <1>1, <1>5, <2>1, <2>2, <2>3, <2>4 DEF TransferOwnership, RowsOK
<1>6. CASE DeleteProject(r) \/ RestoreProject(r)
  <2>1. project.owner \in User
    BY <1>6, WriterOK DEF DeleteProject, RestoreProject, RowsOK
  <2>2. /\ project' \in ProjectRow /\ project'.state # "none"
        /\ project'.owner = project.owner /\ project'.overdue = FALSE
    BY <1>6 DEF DeleteProject, RestoreProject, RowsOK, ProjectRow
  <2> QED BY <1>1, <1>6, <2>1, <2>2 DEF DeleteProject, RestoreProject, RowsOK
<1>7. CASE PurgeProjectNow(r)
  <2>1. project.owner \in User
    BY <1>7, WriterOK DEF PurgeProjectNow, RowsOK
  <2>2. project' \in ProjectRow /\ project'.owner = project.owner /\ project'.overdue = FALSE
    BY <1>7 DEF PurgeProjectNow, Purge, RowsOK, ProjectRow
  <2> QED BY <1>1, <1>7, <2>1, <2>2
          DEF PurgeProjectNow, Purge, RowsOK, InvitationRow, NoInvitation
<1> QED BY <1>2, <1>3, <1>4, <1>5, <1>6, <1>7

\* The writes of InvitationService.
LEMMA InvitationWriteType ==
  ASSUME TypeOK, NEW r \in Request,
         RevokePending(r) \/ CreateInvitation(r) \/ Settle(r) \/ Admit(r) \/ Revoke(r)
  PROVE  TypeOK'
<1> USE DEF TypeOK
<1> DEFINE h == req[r]
           i == h.invitation
<1>0. h \in Handler /\ HandlerOK(h)
  BY DEF HandlersOK
<1>1. CASE RevokePending(r)
  <2> DEFINE g == [h EXCEPT !.pc = "write"]
  <2>1. g \in Handler /\ HandlerOK(g)
    BY <1>0, <1>1 DEF RevokePending, At, Handler, HandlerOK, Step
  <2>2. HandlersOK'
    BY <1>1, <2>1, CommitOK DEF RevokePending
  <2>3. \A k \in Invitation :
          /\ invitation'[k] \in InvitationRow
          /\ invitation'[k].status # "none" => invitation'[k].email \in User
    <3> SUFFICES ASSUME NEW k \in Invitation
                 PROVE  /\ invitation'[k] \in InvitationRow
                        /\ invitation'[k].status # "none" => invitation'[k].email \in User
      OBVIOUS
    <3>1. /\ invitation[k] \in InvitationRow
          /\ invitation[k].status # "none" => invitation[k].email \in User
      BY DEF RowsOK
    <3> QED BY <1>1, <3>1 DEF RevokePending, InvitationRow, Replaced
  <2>4. invitation' \in [Invitation -> InvitationRow]
    BY <1>1, <2>3 DEF RevokePending
  <2> QED BY <1>1, <2>2, <2>3, <2>4 DEF RevokePending, RowsOK
<1>2. ASSUME NEW k \in Invitation, NEW s \in {"ACCEPTED", "REVOKED"}, SetStatus(k, s),
             invitation[k].status # "none"
      PROVE  /\ invitation' \in [Invitation -> InvitationRow]
             /\ \A j \in Invitation :
                  invitation'[j].status # "none" => invitation'[j].email \in User
  <2> DEFINE renewed == [invitation[k] EXCEPT !.status = s]
  <2>1. invitation[k] \in InvitationRow /\ invitation[k].email \in User
    BY <1>2 DEF RowsOK
  <2>2. renewed \in InvitationRow /\ renewed.email \in User
    BY <1>2, <2>1 DEF InvitationRow
  <2>3. invitation' = [invitation EXCEPT ![k] = renewed]
    BY <1>2 DEF SetStatus
  <2> HIDE DEF renewed
  <2> QED BY <2>2, <2>3 DEF RowsOK
<1>3. CASE CreateInvitation(r)
  <2>1. h.target \in User /\ h.role \in Assignable
    BY <1>3, WriterOK DEF CreateInvitation, HandlerOK, Handler
  <2>2. PICK k \in Invitation :
          invitation' = [invitation EXCEPT ![k] =
            [status |-> "PENDING", email |-> h.target, role |-> h.role, expired |-> FALSE]]
    BY <1>3 DEF CreateInvitation
  <2>3. HandlersOK'
    BY <1>3, RestingOK, CommitOK DEF CreateInvitation
  <2> QED BY <1>3, <2>1, <2>2, <2>3 DEF CreateInvitation, RowsOK, InvitationRow
<1>4. CASE Settle(r) /\ invitation[i].status = "none"
  <2>1. HandlersOK'
    BY <1>4, RestingOK, CommitOK DEF Settle
  <2> QED BY <1>4, <2>1 DEF Settle, RowsOK
<1>5. CASE Settle(r) /\ invitation[i].status # "none"
  <2>1. HandlersOK'
    BY <1>5, RestingOK, CommitOK DEF Settle
  <2>2. i \in Invitation
    BY <1>0, <1>5 DEF Settle, At, HandlerOK
  <2>3. SetStatus(i, "ACCEPTED") /\ UNCHANGED <<project, member, displaced>>
    BY <1>5 DEF Settle
  <2> QED BY <1>2, <1>5, <2>1, <2>2, <2>3 DEF RowsOK
<1>6. CASE Admit(r)
  <2>1. h.target \in User /\ h.role \in Role /\ i \in Invitation /\ project.state # "none"
    BY <1>6, WriterOK DEF Admit, HandlerOK, Handler
  <2>2. invitation[i].status # "none"
    BY <1>6, <2>1, NullAssumption DEF Admit, Writes, Writable
  <2>3. HandlersOK'
    BY <1>6, RestingOK, CommitOK DEF Admit
  <2>4. member' \in [User -> Role \cup {Null}]
    BY <1>6, <2>1 DEF Admit, Admission, RowsOK
  <2>5. SetStatus(i, "ACCEPTED") /\ UNCHANGED <<project, displaced>>
    BY <1>6 DEF Admit
  <2> QED BY <1>2, <2>1, <2>2, <2>3, <2>4, <2>5 DEF RowsOK
<1>7. CASE Revoke(r)
  <2>1. i \in Invitation
    BY <1>7, WriterOK DEF Revoke, HandlerOK
  <2>2. invitation[i].status # "none"
    BY <1>7, <2>1, NullAssumption DEF Revoke, Writes, Writable
  <2>3. HandlersOK'
    BY <1>7, RestingOK, CommitOK DEF Revoke
  <2>4. SetStatus(i, "REVOKED") /\ UNCHANGED <<project, member, displaced>>
    BY <1>7 DEF Revoke
  <2> QED BY <1>2, <2>1, <2>2, <2>3, <2>4 DEF RowsOK
<1> QED BY <1>1, <1>3, <1>4, <1>5, <1>6, <1>7

\* What happens to the project without a handler, and the passing of time.
LEMMA OtherType ==
  ASSUME TypeOK, ProjectStep \/ InvitationExpires \/ UNCHANGED vars
  PROVE  TypeOK'
<1> USE DEF TypeOK
<1>1. HandlersOK'
  BY DEF ProjectStep, CreateProject, Instantiate, Create, PurgeExpiredProjects, RetentionEnds,
         InvitationExpires, vars, HandlersOK, HandlerOK
<1>2. CASE CreateProject \/ Instantiate
  <2>1. PICK as \in Role, u \in User :
          /\ project' = [state |-> "live", owner |-> u, overdue |-> FALSE]
          /\ member' = [member EXCEPT ![u] = as] /\ UNCHANGED <<invitation, displaced>>
    BY <1>2 DEF CreateProject, Instantiate, Create, Role
  <2>2. project' \in ProjectRow /\ project'.state = "live" /\ project'.owner = u
        /\ project'.overdue = FALSE
    BY <2>1 DEF ProjectRow
  <2>3. RowsOK'
    <3>1. member' \in [User -> Role \cup {Null}]
      BY <2>1 DEF RowsOK
    <3> QED BY <2>1, <2>2, <3>1 DEF RowsOK
  <2> QED BY <1>1, <2>3
<1>3. CASE PurgeExpiredProjects
  <2>1. project' \in ProjectRow /\ project'.owner = project.owner /\ project'.overdue = FALSE
        /\ project.owner \in User
    BY <1>3 DEF PurgeExpiredProjects, Expired, Purge, RowsOK, ProjectRow
  <2> QED BY <1>1, <1>3, <2>1
          DEF PurgeExpiredProjects, Purge, RowsOK, InvitationRow, NoInvitation
<1>4. CASE RetentionEnds
  <2>1. project' \in ProjectRow /\ project'.owner = project.owner
        /\ project'.state = "trashed" /\ project.owner \in User
    BY <1>4 DEF RetentionEnds, RowsOK, ProjectRow
  <2> QED BY <1>1, <1>4, <2>1 DEF RetentionEnds, RowsOK
<1>5. CASE InvitationExpires
  <2>1. PICK i \in Invitation :
          invitation' = [invitation EXCEPT ![i] = [invitation[i] EXCEPT !.expired = TRUE]]
    BY <1>5 DEF InvitationExpires, RowsOK
  <2> DEFINE renewed == [invitation[i] EXCEPT !.expired = TRUE]
  <2>2. renewed \in InvitationRow /\ (renewed.status # "none" => renewed.email \in User)
    BY DEF RowsOK, InvitationRow
  <2>3. invitation' = [invitation EXCEPT ![i] = renewed]
    BY <2>1
  <2> HIDE DEF renewed
  <2> QED BY <1>1, <1>5, <2>2, <2>3 DEF InvitationExpires, RowsOK
<1>6. CASE UNCHANGED vars
  BY <1>1, <1>6 DEF vars, rows, RowsOK
<1> QED BY <1>2, <1>3, <1>4, <1>5, <1>6 DEF ProjectStep

\* Tables and handlers stay well formed, whoever acts and in whatever order: a project
\* that exists has an owner, an invitation has an address, and no handler that changes
\* another member acts on its own actor.
THEOREM TypeCorrect == Spec => []TypeOK
<1>1. TypeOK /\ [Next]_vars => TypeOK'
  BY BeginType, CheckType, MemberWriteType, InvitationWriteType, OtherType
     DEF Next, MemberStep, InvitationStep
<1> QED BY <1>1, InitType, PTL DEF Spec

-----------------------------------------------------------------------------
\* No step but a transfer, and the making of a project, writes the role OWNER.
LEMMA OwnerRows ==
  ASSUME TypeOK, [Next]_vars, NEW u \in User, member'[u] = "OWNER"
  PROVE  \/ member[u] = "OWNER" /\ UNCHANGED <<project.owner, displaced>>
         \/ \E r \in Request : TransferOwnership(r)
         \/ Create("OWNER")
<1> USE DEF TypeOK
<1> SUFFICES ASSUME ~ \E r \in Request : TransferOwnership(r), ~Create("OWNER")
             PROVE  member[u] = "OWNER" /\ UNCHANGED <<project.owner, displaced>>
  OBVIOUS
<1>1. ASSUME NEW r \in Request,
             \/ BeginAddMember(r) \/ BeginJoinProject(r) \/ BeginChangeMember(r)
             \/ BeginTransferOwnership(r) \/ BeginDeleteProject(r) \/ BeginOnTrashed(r)
             \/ BeginInvite(r) \/ BeginAccept(r) \/ BeginRevoke(r)
             \/ CheckExisting(r) \/ CheckTarget(r) \/ WriteRefused(r) \/ Abort(r)
      PROVE  UNCHANGED <<member, project, displaced>>
  BY <1>1
     DEF BeginAddMember, BeginJoinProject, BeginChangeMember, BeginTransferOwnership,
         BeginDeleteProject, BeginOnTrashed, BeginInvite, BeginAccept, BeginRevoke,
         CheckExisting, CheckTarget, WriteRefused, Abort, rows
<1>2. ASSUME NEW r \in Request,
             RevokePending(r) \/ CreateInvitation(r) \/ Settle(r) \/ Revoke(r)
      PROVE  UNCHANGED <<member, project, displaced>>
  BY <1>2 DEF RevokePending, CreateInvitation, Settle, Revoke
<1>3. ASSUME NEW r \in Request, DeleteProject(r) \/ RestoreProject(r)
      PROVE  UNCHANGED <<member, project.owner, displaced>>
  BY <1>3 DEF DeleteProject, RestoreProject, RowsOK, ProjectRow
<1>4. ASSUME NEW r \in Request, InsertMember(r) \/ UpdateMemberRole(r) \/ Admit(r)
      PROVE  /\ UNCHANGED <<project, displaced>>
             /\ member' = [member EXCEPT ![req[r].target] = req[r].role]
             /\ req[r].role \in Assignable
  BY <1>4, WriterOK DEF InsertMember, UpdateMemberRole, Admit, Admission, Handler
<1>5. ASSUME NEW r \in Request, RemoveMember(r)
      PROVE  /\ UNCHANGED <<project, displaced>>
             /\ member' = [member EXCEPT ![req[r].target] = Null]
  BY <1>5 DEF RemoveMember
<1>6. CASE \E r \in Request : PurgeProjectNow(r)
  BY <1>6, NullAssumption DEF PurgeProjectNow, Purge
<1>7. CASE ProjectStep \/ InvitationExpires
  <2>1. CASE CreateProject
    <3>1. PICK v \in User : member' = [member EXCEPT ![v] = "MEMBER"] /\ project.state = "none"
      BY <2>1 DEF CreateProject, Create
    <3>2. member'[u] \in {"MEMBER", Null}
      BY <3>1 DEF RowsOK
    <3> QED BY <3>2, NullAssumption DEF Role
  <2>2. CASE PurgeExpiredProjects \/ RetentionEnds \/ InvitationExpires
    BY <2>2, NullAssumption
       DEF PurgeExpiredProjects, Purge, RetentionEnds, InvitationExpires, RowsOK, ProjectRow
  <2> QED BY <1>7, <2>1, <2>2 DEF ProjectStep, Instantiate
<1>8. CASE UNCHANGED vars
  BY <1>8 DEF vars, rows
<1>9. CASE \E r \in Request : InsertMember(r) \/ UpdateMemberRole(r) \/ Admit(r) \/ RemoveMember(r)
  BY <1>4, <1>5, <1>9, NullAssumption DEF RowsOK
<1> QED BY <1>1, <1>2, <1>3, <1>6, <1>7, <1>8, <1>9 DEF Next, MemberStep, InvitationStep

\* A row says OWNER only for the owner, or for one whom somebody else's transfer replaced.
THEOREM SoleOwnership == Spec => []SoleOwner
<1>1. Init => SoleOwner
  BY NullAssumption DEF Init, SoleOwner
<1>2. TypeOK /\ SoleOwner /\ [Next]_vars => SoleOwner'
  <2> SUFFICES ASSUME TypeOK, SoleOwner, [Next]_vars, NEW u \in User, member'[u] = "OWNER"
               PROVE  u = project'.owner \/ u \in displaced'
    BY DEF SoleOwner
  <2>1. CASE member[u] = "OWNER" /\ UNCHANGED <<project.owner, displaced>>
    BY <2>1 DEF SoleOwner
  <2>2. ASSUME NEW r \in Request, TransferOwnership(r)
        PROVE  u = project'.owner \/ u \in displaced'
    <3> DEFINE h == req[r]
    <3>1. h.target \in User /\ h.actor \in User /\ h.target # h.actor
      BY <2>2, WriterOK DEF TransferOwnership, HandlerOK
    <3>2. project'.owner = h.target
      BY <2>2 DEF TransferOwnership, TypeOK, RowsOK, ProjectRow
    <3>3. u = h.target \/ (u # h.actor /\ member[u] = "OWNER")
      BY <2>2, <3>1 DEF TransferOwnership, NewRoles, TypeOK, RowsOK
    <3>4. displaced' = displaced \cup ({project.owner} \ {h.actor})
      BY <2>2 DEF TransferOwnership
    <3> QED BY <3>2, <3>3, <3>4 DEF SoleOwner
  <2>3. CASE Create("OWNER")
    <3>1. PICK v \in User : /\ member' = [member EXCEPT ![v] = "OWNER"]
                            /\ project' = [state |-> "live", owner |-> v, overdue |-> FALSE]
                            /\ project.state = "none"
      BY <2>3 DEF Create
    <3>2. u = v
      BY <3>1, NullAssumption DEF TypeOK, RowsOK, Role
    <3> QED BY <3>1, <3>2
  <2> QED BY <2>1, <2>2, <2>3, OwnerRows
<1> QED BY <1>1, <1>2, TypeCorrect, PTL DEF Spec

-----------------------------------------------------------------------------
\* A purge is total: no handler that was under way when the project was purged, and no
\* step after it, leaves a member or an invitation.
THEOREM TotalPurge == Spec => []PurgeIsTotal
<1>1. Init => PurgeIsTotal
  BY DEF Init, PurgeIsTotal
<1>2. TypeOK /\ PurgeIsTotal /\ [Next]_vars => PurgeIsTotal'
  <2> SUFFICES ASSUME TypeOK, PurgeIsTotal, [Next]_vars, project'.state = "purged"
               PROVE  /\ \A u \in User : member'[u] = Null
                      /\ \A i \in Invitation : invitation'[i] = NoInvitation
    BY DEF PurgeIsTotal
  <2> DEFINE Empty == /\ \A u \in User : member'[u] = Null
                      /\ \A i \in Invitation : invitation'[i] = NoInvitation
  <2>1. CASE Purge
    BY <2>1 DEF Purge
  <2>2. CASE UNCHANGED rows
    BY <2>2 DEF PurgeIsTotal, rows
  <2>3. ASSUME NEW r \in Request,
               \/ InsertMember(r) \/ RemoveMember(r) \/ UpdateMemberRole(r)
               \/ TransferOwnership(r) \/ DeleteProject(r) \/ RestoreProject(r)
               \/ CreateInvitation(r) \/ Admit(r) \/ Revoke(r)
        PROVE  FALSE
    <3>1. project.state \in {"live", "trashed"}
      BY <2>3, WriterOK
         DEF InsertMember, RemoveMember, UpdateMemberRole, TransferOwnership, DeleteProject,
             RestoreProject, CreateInvitation, Admit, Revoke
    <3>2. project'.state \in {project.state, "live", "trashed"}
      BY <2>3
         DEF InsertMember, RemoveMember, UpdateMemberRole, TransferOwnership, DeleteProject,
             RestoreProject, CreateInvitation, Admit, Revoke, TypeOK, RowsOK, ProjectRow
    <3> QED BY <3>1, <3>2
  <2>4. ASSUME NEW r \in Request, RevokePending(r) \/ Settle(r)
        PROVE  Empty
    <3>1. project.state = "purged" /\ UNCHANGED member
      BY <2>4 DEF RevokePending, Settle
    <3>2. \A i \in Invitation : invitation[i] = NoInvitation /\ invitation[i].status = "none"
      <4>1. NoInvitation.status = "none"
        BY DEF NoInvitation
      <4> QED BY <3>1, <4>1 DEF PurgeIsTotal
    <3>3. CASE RevokePending(r)
      BY <3>1, <3>2, <3>3 DEF RevokePending, Replaced, PurgeIsTotal
    <3>4. CASE Settle(r)
      <4>1. req[r].invitation \in Invitation
        BY <3>4 DEF Settle, At, TypeOK, HandlersOK, HandlerOK
      <4> QED BY <3>1, <3>2, <3>4, <4>1 DEF Settle, PurgeIsTotal
    <3> QED BY <2>4, <3>3, <3>4
  <2>5. CASE CreateProject \/ Instantiate \/ RetentionEnds
    BY <2>5 DEF CreateProject, Instantiate, Create, RetentionEnds, TypeOK, RowsOK, ProjectRow
  <2>6. CASE InvitationExpires
    BY <2>6 DEF InvitationExpires, PurgeIsTotal, NoInvitation
  <2>7. ASSUME NEW r \in Request,
               \/ BeginAddMember(r) \/ BeginJoinProject(r) \/ BeginChangeMember(r)
               \/ BeginTransferOwnership(r) \/ BeginDeleteProject(r) \/ BeginOnTrashed(r)
               \/ BeginInvite(r) \/ BeginAccept(r) \/ BeginRevoke(r)
               \/ CheckExisting(r) \/ CheckTarget(r) \/ WriteRefused(r) \/ Abort(r)
        PROVE  UNCHANGED rows
    BY <2>7
       DEF BeginAddMember, BeginJoinProject, BeginChangeMember, BeginTransferOwnership,
           BeginDeleteProject, BeginOnTrashed, BeginInvite, BeginAccept, BeginRevoke,
           CheckExisting, CheckTarget, WriteRefused, Abort, rows
  <2>8. CASE UNCHANGED vars
    BY <2>2, <2>8 DEF vars, rows
  <2>9. (\E r \in Request : PurgeProjectNow(r)) \/ PurgeExpiredProjects => Purge
    BY DEF PurgeProjectNow, PurgeExpiredProjects
  <2> QED BY <2>1, <2>2, <2>3, <2>4, <2>5, <2>6, <2>7, <2>8, <2>9
          DEF Next, MemberStep, InvitationStep, ProjectStep
<1> QED BY <1>1, <1>2, TypeCorrect, PTL DEF Spec

\* The tables of the project, and nothing of it after its purge.
THEOREM MembershipCorrect == Spec => []MembershipWellFormed
BY TypeCorrect, TotalPurge, PTL DEF MembershipWellFormed

-----------------------------------------------------------------------------
(***************************************************************************)
(* What a handler may do on the strength of what it read: the ranks that    *)
(* changes of membership respect, who empties the trash, and the outcome of *)
(* an invitation.  The argument is the same for all: what a handler read    *)
(* still holds when it writes, or the history says that it is stale.        *)
(***************************************************************************)
\* Which handler takes which way, and what joining asks for.
Shaped(h) ==
  /\ h.pc = "existing" => h.op \in {"addMember", "joinProject", "invite", "accept"}
  /\ h.pc = "replace" => h.op = "invite"
  /\ h.pc = "target" =>
       h.op \in {"removeMember", "updateMemberRole", "transferOwnership", "revoke"}
  /\ h.op = "joinProject" => h.actor = h.target /\ h.role = "MEMBER"

\* What the reads of a handler told it, as the rows are now.
Standing(h) == EffectiveRole(project, member, h.actor)
Fresh(h) ==
  /\ h.op = "addMember" => Outranks(Standing(h), h.role)
  /\ h.op \in {"removeMember", "updateMemberRole"} =>
       /\ h.pc = "target" => h.as = Standing(h)
       /\ h.pc = "write" => Outranks(Standing(h), member[h.target])
  /\ h.op = "updateMemberRole" /\ h.pc = "write" => Outranks(Standing(h), h.role)
  /\ h.op = "transferOwnership" => Standing(h) = "OWNER"
  /\ h.op = "purgeProjectNow" =>
       project.state = "trashed" /\ h.actor \in GlobalAdmin \cup {project.owner}
  /\ h.op = "accept" =>
       LET i == invitation[h.invitation] IN
       /\ i.status = "PENDING" /\ i.email = h.target /\ i.role = h.role
       /\ h.pc = "settle" => member[h.target] # Null
  /\ h.op = "revoke" /\ h.pc = "write" => invitation[h.invitation].status = "PENDING"

InvitesNow(h) == h.pc = "write" /\ h.op = "invite"
Undisturbed(h) == h.op # "none" /\ ~h.stale
AllShaped == \A r \in Request : Shaped(req[r])
AllFresh ==
  project.state # "purged" => \A r \in Request : Undisturbed(req[r]) => Fresh(req[r])
\* Before the project exists nothing is under way.
Unborn ==
  project.state = "none" =>
    /\ \A r \in Request : req[r].op = "none"
    /\ \A i \in Invitation : invitation[i].status = "none"
MemberInv == AllShaped /\ AllFresh /\ Unborn

-----------------------------------------------------------------------------
\* What a handler read is the same to it while its sight is undisturbed.
LEMMA SightKept ==
  ASSUME NEW h \in Handler, HandlerOK(h), h.op # "none", Fresh(h), ~Disturbed(h)
  PROVE  Fresh(h)'
<1>1. /\ project'.state = project.state /\ project'.owner = project.owner
      /\ Standing(h)' = Standing(h)
      /\ h.target # Null => member'[h.target] = member[h.target]
      /\ h.invitation # Null => invitation'[h.invitation] = invitation[h.invitation]
  BY DEF Disturbed, Standing
<1>2. /\ h.op \in {"addMember", "joinProject", "removeMember", "updateMemberRole",
                   "transferOwnership", "invite", "accept"} => h.target # Null
      /\ h.op \in {"accept", "revoke"} => h.invitation # Null
  BY NullAssumption DEF HandlerOK
<1> QED BY <1>1, <1>2 DEF Fresh

\* Nor does it matter to the handlers that the rows are all as they were.
LEMMA RowsSame ==
  ASSUME NEW h, Fresh(h), UNCHANGED rows
  PROVE  Fresh(h)'
BY DEF Fresh, rows, Standing

\* A handler that reads leaves the others what they know.
LEMMA SlotFresh ==
  ASSUME TypeOK, MemberInv, NEW r \in Request, NEW h \in Handler, UNCHANGED rows,
         Shaped(h), project.state # "none" \/ h.op = "none",
         project.state # "purged" /\ Undisturbed(h) => Fresh(h),
         req' = [req EXCEPT ![r] = h]
  PROVE  MemberInv'
<1>1. \A q \in Request : req'[q] \in {h, req[q]}
  BY DEF TypeOK, HandlersOK
<1>2. AllShaped'
  <2> SUFFICES ASSUME NEW q \in Request
               PROVE  Shaped(req[q])'
    BY DEF AllShaped
  <2>1. Shaped(req'[q])
    BY <1>1 DEF MemberInv, AllShaped
  <2> QED BY <2>1 DEF Shaped
<1>3. AllFresh'
  <2> SUFFICES ASSUME NEW q \in Request, project'.state # "purged", Undisturbed(req[q])'
               PROVE  Fresh(req[q])'
    BY DEF AllFresh
  <2>1. PICK g : g = req'[q]
    OBVIOUS
  <2>2. project.state # "purged" /\ Undisturbed(g)
    BY <2>1 DEF rows, Undisturbed
  <2>3. Fresh(g)
    BY <1>1, <2>1, <2>2 DEF MemberInv, AllFresh
  <2>4. Fresh(g)'
    BY <2>3, RowsSame
  <2> QED BY <2>1, <2>4 DEF Fresh, Standing
<1>4. Unborn'
  BY <1>1 DEF MemberInv, Unborn, rows
<1> QED BY <1>2, <1>3, <1>4 DEF MemberInv

LEMMA FinishFresh ==
  ASSUME TypeOK, MemberInv, NEW r \in Request, UNCHANGED rows, Finish(r)
  PROVE  MemberInv'
<1>1. Resting \in Handler /\ Shaped(Resting) /\ Resting.op = "none" /\ ~Undisturbed(Resting)
  BY RestingOK DEF Resting, Shaped, Undisturbed
<1> QED BY <1>1, SlotFresh DEF Finish

\* A write that leaves its handler a well-shaped remainder leaves the other handlers
\* fresh, or stale.
LEMMA CommitFresh ==
  ASSUME TypeOK, MemberInv, NEW r \in Request, NEW h \in Handler, Commit(r, h),
         Shaped(h), h.op \in {"none", "invite"},
         project.state # "none", project'.state # "none",
         project.state = "purged" => project'.state = "purged"
  PROVE  MemberInv'
<1>1. \A q \in Request \ {r} :
        /\ req'[q] = [req[q] EXCEPT !.stale = req[q].stale \/ Disturbed(req[q])]
        /\ req[q] \in Handler /\ HandlerOK(req[q])
  BY DEF Commit, TypeOK, HandlersOK
<1>2. req'[r] = h
  BY DEF Commit
<1>3. AllShaped'
  <2> SUFFICES ASSUME NEW q \in Request
               PROVE  Shaped(req[q])'
    BY DEF AllShaped
  <2>1. CASE q = r
    BY <1>2, <2>1 DEF Shaped
  <2>2. CASE q # r
    <3> DEFINE b == req[q].stale \/ Disturbed(req[q])
    <3>1. req'[q] = [req[q] EXCEPT !.stale = b] /\ req[q] \in Handler
      BY <1>1, <2>2
    <3> HIDE DEF b
    <3>2. Shaped(req[q])
      BY DEF MemberInv, AllShaped
    <3> QED BY <3>1, <3>2 DEF Shaped, Handler
  <2> QED BY <2>1, <2>2
<1>4. AllFresh'
  <2> SUFFICES ASSUME NEW q \in Request, project'.state # "purged", Undisturbed(req[q])'
               PROVE  Fresh(req[q])'
    BY DEF AllFresh
  <2>1. CASE q = r
    BY <1>2, <2>1 DEF Fresh, Undisturbed
  <2>2. CASE q # r
    <3> DEFINE b == req[q].stale \/ Disturbed(req[q])
    <3>1. req'[q] = [req[q] EXCEPT !.stale = b] /\ req[q] \in Handler
      BY <1>1, <2>2
    <3>2. b \in BOOLEAN
      OBVIOUS
    <3>3. ~b /\ req'[q] = req[q] /\ req[q].op # "none"
      <4> HIDE DEF b
      <4>1. req'[q].stale = b /\ req'[q].op = req[q].op
        BY <3>1 DEF Handler
      <4>2. ~b /\ req[q].op # "none"
        BY <4>1 DEF Undisturbed
      <4>3. b = FALSE
        BY <3>2, <4>2
      <4>4. req[q].stale = FALSE
        BY <4>3, <3>1 DEF b, Handler
      <4>5. [req[q] EXCEPT !.stale = FALSE] = req[q]
        BY <3>1, <4>4 DEF Handler
      <4> QED BY <3>1, <4>2, <4>3, <4>5
    <3>4. PICK g \in Handler : g = req[q]
      BY <3>1
    <3>5. HandlerOK(g) /\ Undisturbed(g) /\ ~Disturbed(g)
      BY <1>1, <2>2, <3>3, <3>4 DEF Undisturbed
    <3>6. Fresh(g)
      BY <3>4, <3>5 DEF MemberInv, AllFresh
    <3>7. Fresh(g)'
      BY <3>5, <3>6, SightKept DEF Undisturbed
    <3> QED BY <3>3, <3>4, <3>7 DEF Fresh, Standing
  <2> QED BY <2>1, <2>2
<1> QED BY <1>3, <1>4 DEF MemberInv, Unborn

-----------------------------------------------------------------------------
\* What the access check judged is what the handler relies on.
LEMMA Begun ==
  ASSUME TypeOK, MemberInv, NEW r \in Request,
         \/ BeginAddMember(r) \/ BeginJoinProject(r) \/ BeginChangeMember(r)
         \/ BeginTransferOwnership(r) \/ BeginDeleteProject(r) \/ BeginOnTrashed(r)
         \/ BeginInvite(r) \/ BeginAccept(r) \/ BeginRevoke(r)
  PROVE  \E h \in Handler :
           /\ Shaped(h) /\ Fresh(h) /\ ~InvitesNow(h)
           /\ project.state # "none" /\ Accept(r, h)
<1>0. /\ \A u \in User : EffectiveRole(project, member, u) \in Role \cup {Null}
      /\ RankOf("OWNER") = 4
      /\ \A x \in Role \cup {Null} : RankOf(x) \in 0..4 /\ (RankOf(x) >= 4 => x = "OWNER")
  BY NullAssumption DEF TypeOK, RowsOK, EffectiveRole, RankOf
<1> USE DEF Handler, Resting, Op, Step, Shaped, Fresh, Standing, InvitesNow
<1>1. CASE BeginAddMember(r) \/ BeginInvite(r)
  BY <1>1, OfferedAssumption DEF BeginAddMember, BeginInvite, Requires
<1>2. CASE BeginJoinProject(r)
  BY <1>2 DEF BeginJoinProject
<1>3. CASE BeginChangeMember(r)
  <2>1. PICK u, v \in User :
          /\ Requires(u, "ADMIN") /\ u # v
          /\ \/ Accept(r, [Resting EXCEPT !.op = "removeMember", !.pc = "target", !.actor = u,
                            !.as = EffectiveRole(project, member, u), !.target = v])
             \/ \E x \in Offered :
                  Accept(r, [Resting EXCEPT !.op = "updateMemberRole", !.pc = "target",
                               !.actor = u, !.as = EffectiveRole(project, member, u),
                               !.target = v, !.role = x])
    BY <1>3 DEF BeginChangeMember
  <2> DEFINE as == EffectiveRole(project, member, u)
             removing == [Resting EXCEPT !.op = "removeMember", !.pc = "target", !.actor = u,
                            !.as = as, !.target = v]
             changing(x) == [Resting EXCEPT !.op = "updateMemberRole", !.pc = "target",
                                  !.actor = u, !.as = as, !.target = v, !.role = x]
  <2>2. as \in Role \cup {Null} /\ project.state # "none"
    BY <1>0, <2>1 DEF Requires
  <2>3. CASE Accept(r, removing)
    <3>1. removing \in Handler /\ Shaped(removing) /\ Fresh(removing)
          /\ ~InvitesNow(removing)
      BY <2>2
    <3> QED BY <2>2, <2>3, <3>1
  <2>4. ASSUME NEW x \in Offered, Accept(r, changing(x))
        PROVE  \E h \in Handler :
                 /\ Shaped(h) /\ Fresh(h) /\ ~InvitesNow(h)
                 /\ project.state # "none" /\ Accept(r, h)
    <3>1. changing(x) \in Handler /\ Shaped(changing(x)) /\ Fresh(changing(x))
          /\ ~InvitesNow(changing(x))
      BY <2>2, OfferedAssumption
    <3> QED BY <2>2, <2>4, <3>1
  <2> QED BY <2>1, <2>3, <2>4
<1>4. CASE BeginTransferOwnership(r)
  <2>1. PICK u, v \in User :
          /\ Requires(u, "OWNER") /\ u # v
          /\ Accept(r, [Resting EXCEPT !.op = "transferOwnership", !.pc = "target",
                                       !.actor = u, !.as = "OWNER", !.target = v])
    BY <1>4 DEF BeginTransferOwnership
  <2>2. project.state = "live" /\ EffectiveRole(project, member, u) = "OWNER"
    BY <1>0, <2>1 DEF Requires
  <2> QED BY <2>1, <2>2
<1>5. CASE BeginDeleteProject(r)
  BY <1>5 DEF BeginDeleteProject, Requires
<1>6. CASE BeginOnTrashed(r)
  BY <1>6 DEF BeginOnTrashed, OwnsTrashed
<1>7. CASE BeginAccept(r)
  <2>1. PICK i \in Invitation :
          /\ invitation[i].status = "PENDING"
          /\ Accept(r, [Resting EXCEPT !.op = "accept", !.pc = "existing",
                       !.actor = invitation[i].email, !.target = invitation[i].email,
                       !.role = invitation[i].role, !.invitation = i])
    BY <1>7 DEF BeginAccept, Usable
  <2>2. invitation[i].email \in User /\ invitation[i].role \in Assignable
        /\ project.state # "none"
    BY <2>1 DEF MemberInv, Unborn, TypeOK, RowsOK, InvitationRow
  <2> QED BY <2>1, <2>2
<1>8. CASE BeginRevoke(r)
  BY <1>8 DEF BeginRevoke, Requires
<1> QED BY <1>1, <1>2, <1>3, <1>4, <1>5, <1>6, <1>7, <1>8

LEMMA BeginFresh ==
  ASSUME TypeOK, MemberInv, NEW r \in Request,
         \/ BeginAddMember(r) \/ BeginJoinProject(r) \/ BeginChangeMember(r)
         \/ BeginTransferOwnership(r) \/ BeginDeleteProject(r) \/ BeginOnTrashed(r)
         \/ BeginInvite(r) \/ BeginAccept(r) \/ BeginRevoke(r)
  PROVE  MemberInv'
<1>1. UNCHANGED rows
  BY DEF BeginAddMember, BeginJoinProject, BeginChangeMember, BeginTransferOwnership,
         BeginDeleteProject, BeginOnTrashed, BeginInvite, BeginAccept, BeginRevoke
<1> QED BY <1>1, Begun, SlotFresh DEF Accept

\* What a later read tells is added to it.
LEMMA CheckFresh ==
  ASSUME TypeOK, MemberInv, NEW r \in Request,
         CheckExisting(r) \/ CheckTarget(r) \/ WriteRefused(r) \/ Abort(r)
  PROVE  MemberInv'
<1> DEFINE h == req[r]
<1>0. /\ h \in Handler /\ HandlerOK(h) /\ Shaped(h)
      /\ project.state # "purged" /\ Undisturbed(h) => Fresh(h)
      /\ project.state # "none" \/ h.op = "none"
  BY DEF TypeOK, HandlersOK, MemberInv, AllShaped, AllFresh, Unborn
<1>1. UNCHANGED rows
  BY DEF CheckExisting, CheckTarget, WriteRefused, Abort
<1>2. ASSUME NEW s \in {"write", "replace", "settle"}, Goto(r, s), h.pc = "existing",
             s = "settle" => member[h.target] # Null,
             s = "replace" => h.op = "invite"
      PROVE  MemberInv'
  <2> DEFINE g == [h EXCEPT !.pc = s]
  <2>1. g \in Handler /\ Shaped(g) /\ g.op = h.op
    BY <1>0, <1>2 DEF Handler, Shaped, Step
  <2>2. Undisturbed(h) /\ Fresh(h) => Fresh(g)
    BY <1>0, <1>2 DEF Fresh, Standing, Handler, Shaped
  <2>3. Undisturbed(g) => Undisturbed(h)
    BY <1>0 DEF Undisturbed, Handler
  <2>4. req' = [req EXCEPT ![r] = g]
    BY <1>2 DEF Goto, TypeOK, HandlersOK
  <2> QED BY <1>0, <1>1, <2>1, <2>2, <2>3, <2>4, SlotFresh
<1>3. CASE CheckExisting(r)
  <2>1. CASE Finish(r)
    BY <1>1, <2>1, FinishFresh
  <2>2. CASE member[h.target] = Null /\ Goto(r, IF h.op = "invite" THEN "replace" ELSE "write")
    BY <1>2, <1>3, <2>2 DEF CheckExisting, At
  <2>3. CASE member[h.target] # Null /\ Goto(r, "settle")
    BY <1>2, <1>3, <2>3 DEF CheckExisting, At
  <2> QED BY <1>3, <2>1, <2>2, <2>3 DEF CheckExisting
<1>4. CASE CheckTarget(r) /\ Permitted(h)
  <2> DEFINE g == [h EXCEPT !.pc = "write", !.as = Null]
  <2>1. g \in Handler /\ Shaped(g) /\ g.op = h.op
    BY <1>0 DEF Handler, Shaped, Step
  <2>2. Undisturbed(h) /\ Fresh(h) => Fresh(g)
    BY <1>0, <1>4 DEF Fresh, Standing, Handler, Shaped, Permitted, CheckTarget, At
  <2>3. Undisturbed(g) => Undisturbed(h)
    BY <1>0 DEF Undisturbed, Handler
  <2>4. req' = [req EXCEPT ![r] = g]
    BY <1>4 DEF CheckTarget, TypeOK, HandlersOK
  <2> QED BY <1>0, <1>1, <2>1, <2>2, <2>3, <2>4, SlotFresh
<1>5. CASE (CheckTarget(r) /\ ~Permitted(h)) \/ WriteRefused(r) \/ Abort(r)
  BY <1>1, <1>5, FinishFresh DEF CheckTarget, WriteRefused, Abort
<1> QED BY <1>3, <1>4, <1>5

\* Every write is a commit on a project that exists, or of an invitation of one purged.
LEMMA WriteFresh ==
  ASSUME TypeOK, MemberInv, NEW r \in Request,
         \/ InsertMember(r) \/ RemoveMember(r) \/ UpdateMemberRole(r)
         \/ TransferOwnership(r) \/ DeleteProject(r) \/ RestoreProject(r)
         \/ PurgeProjectNow(r) \/ RevokePending(r) \/ CreateInvitation(r)
         \/ Settle(r) \/ Admit(r) \/ Revoke(r)
  PROVE  MemberInv'
<1> DEFINE h == req[r]
<1>0. Resting \in Handler /\ Shaped(Resting) /\ Resting.op = "none"
  BY RestingOK DEF Resting, Shaped
<1>1. CASE \/ InsertMember(r) \/ RemoveMember(r) \/ UpdateMemberRole(r)
           \/ CreateInvitation(r) \/ Admit(r) \/ Revoke(r)
  BY <1>0, <1>1, WriterOK, CommitFresh
     DEF InsertMember, RemoveMember, UpdateMemberRole, CreateInvitation, Admit, Revoke
<1>2. CASE TransferOwnership(r) \/ DeleteProject(r) \/ RestoreProject(r) \/ PurgeProjectNow(r)
  <2>1. project.state \in {"live", "trashed"} /\ project \in ProjectRow
    BY <1>2, WriterOK
       DEF TransferOwnership, DeleteProject, RestoreProject, PurgeProjectNow, TypeOK, RowsOK
  <2>2. project'.state \in {"live", "trashed", "purged"}
    BY <1>2, <2>1
       DEF TransferOwnership, DeleteProject, RestoreProject, PurgeProjectNow, Purge, ProjectRow
  <2>3. Commit(r, Resting)
    BY <1>2 DEF TransferOwnership, DeleteProject, RestoreProject, PurgeProjectNow
  <2> QED BY <1>0, <2>1, <2>2, <2>3, CommitFresh
<1>3. CASE RevokePending(r) \/ Settle(r)
  <2>1. h \in Handler /\ HandlerOK(h) /\ Shaped(h) /\ h.pc \in {"replace", "settle"}
    BY <1>3 DEF RevokePending, Settle, At, TypeOK, HandlersOK, MemberInv, AllShaped
  <2>2. project.state # "none" /\ UNCHANGED project
    BY <1>3, <2>1 DEF HandlerOK, MemberInv, Unborn, RevokePending, Settle
  <2>3. CASE Settle(r)
    BY <1>0, <2>2, <2>3, CommitFresh DEF Settle
  <2>4. CASE RevokePending(r)
    <3> DEFINE g == [h EXCEPT !.pc = "write"]
    <3>1. g \in Handler /\ Shaped(g) /\ g.op = "invite" /\ Commit(r, g)
      BY <2>1, <2>4 DEF RevokePending, At, Handler, Shaped, Step
    <3> QED BY <2>2, <3>1, CommitFresh
  <2> QED BY <1>3, <2>3, <2>4
<1> QED BY <1>1, <1>2, <1>3

\* What happens to the project without a handler, and the passing of time.
LEMMA OtherFresh ==
  ASSUME TypeOK, MemberInv, ProjectStep \/ InvitationExpires \/ UNCHANGED vars
  PROVE  MemberInv'
<1>1. UNCHANGED req
  BY DEF ProjectStep, CreateProject, Instantiate, Create, PurgeExpiredProjects, RetentionEnds,
         InvitationExpires, vars
<1>2. AllShaped'
  BY <1>1 DEF MemberInv, AllShaped, Shaped
<1>3. CASE CreateProject \/ Instantiate
  BY <1>1, <1>2, <1>3
     DEF CreateProject, Instantiate, Create, MemberInv, Unborn, AllFresh, Undisturbed
<1>4. CASE PurgeExpiredProjects
  BY <1>1, <1>2, <1>4
     DEF PurgeExpiredProjects, Purge, MemberInv, Unborn, AllFresh, TypeOK, RowsOK, ProjectRow
<1>5. CASE RetentionEnds \/ InvitationExpires \/ UNCHANGED vars
  <2>1. /\ project'.state = project.state /\ project'.owner = project.owner
        /\ member' = member
        /\ \A i \in Invitation : /\ invitation'[i].status = invitation[i].status
                                 /\ invitation'[i].email = invitation[i].email
                                 /\ invitation'[i].role = invitation[i].role
    BY <1>5
       DEF RetentionEnds, InvitationExpires, vars, TypeOK, RowsOK, ProjectRow, InvitationRow
  <2>2. AllFresh'
    <3> SUFFICES ASSUME NEW q \in Request, project'.state # "purged", Undisturbed(req[q])'
                 PROVE  Fresh(req[q])'
      BY DEF AllFresh
    <3>1. PICK g \in Handler : g = req[q] /\ g = req'[q] /\ HandlerOK(g)
      BY <1>1 DEF TypeOK, HandlersOK
    <3>2. Fresh(g)
      BY <2>1, <3>1 DEF MemberInv, AllFresh, Undisturbed
    <3>3. Fresh(g)'
      BY <2>1, <3>1, <3>2 DEF Fresh, Standing, EffectiveRole, HandlerOK
    <3> QED BY <3>1, <3>3 DEF Fresh, Standing
  <2>3. Unborn'
    BY <1>1, <2>1 DEF MemberInv, Unborn
  <2> QED BY <1>2, <2>2, <2>3 DEF MemberInv
<1> QED BY <1>3, <1>4, <1>5 DEF ProjectStep

\* The writes of every handler rest on reads that still hold, or the history says not.
LEMMA ReadsHold == Spec => []MemberInv
<1>1. Init => MemberInv
  BY DEF Init, MemberInv, AllShaped, AllFresh, Unborn, Shaped, Undisturbed, Resting,
         NoInvitation
<1>2. TypeOK /\ MemberInv /\ [Next]_vars => MemberInv'
  BY BeginFresh, CheckFresh, WriteFresh, OtherFresh DEF Next, MemberStep, InvitationStep
<1> QED BY <1>1, <1>2, TypeCorrect, PTL DEF Spec

-----------------------------------------------------------------------------
\* No step but the two purges purges a project.
LEMMA OnlyPurges ==
  ASSUME TypeOK, [Next]_vars, project'.state = "purged", project.state # "purged"
  PROVE  PurgeExpiredProjects \/ \E r \in Request : PurgeProjectNow(r)
<1> USE DEF TypeOK, RowsOK, ProjectRow
<1>1. ASSUME NEW r \in Request,
             \/ BeginAddMember(r) \/ BeginJoinProject(r) \/ BeginChangeMember(r)
             \/ BeginTransferOwnership(r) \/ BeginDeleteProject(r) \/ BeginOnTrashed(r)
             \/ BeginInvite(r) \/ BeginAccept(r) \/ BeginRevoke(r)
             \/ CheckExisting(r) \/ CheckTarget(r) \/ WriteRefused(r) \/ Abort(r)
      PROVE  FALSE
  BY <1>1
     DEF BeginAddMember, BeginJoinProject, BeginChangeMember, BeginTransferOwnership,
         BeginDeleteProject, BeginOnTrashed, BeginInvite, BeginAccept, BeginRevoke,
         CheckExisting, CheckTarget, WriteRefused, Abort, rows
<1>2. ASSUME NEW r \in Request,
             \/ InsertMember(r) \/ RemoveMember(r) \/ UpdateMemberRole(r)
             \/ RevokePending(r) \/ CreateInvitation(r) \/ Settle(r) \/ Admit(r) \/ Revoke(r)
      PROVE  FALSE
  BY <1>2
     DEF InsertMember, RemoveMember, UpdateMemberRole, RevokePending, CreateInvitation,
         Settle, Admit, Revoke
<1>3. ASSUME NEW r \in Request, TransferOwnership(r) \/ DeleteProject(r) \/ RestoreProject(r)
      PROVE  FALSE
  BY <1>3 DEF TransferOwnership, DeleteProject, RestoreProject
<1>4. CASE CreateProject \/ Instantiate \/ RetentionEnds \/ InvitationExpires \/ UNCHANGED vars
  BY <1>4 DEF CreateProject, Instantiate, Create, RetentionEnds, InvitationExpires, vars, rows
<1> QED BY <1>1, <1>2, <1>3, <1>4 DEF Next, MemberStep, InvitationStep, ProjectStep

\* A live project is never purged: only one in the trash is, when it is overdue or by the
\* hand of who owns it, unless it was restored after purgeProjectNow had read it.
THEOREM PurgesAuthorized == Spec => NoLivePurge
<1>1. TypeOK /\ MemberInv /\ [Next]_vars =>
        (project'.state = "purged" /\ project.state # "purged" =>
           \/ \E r \in Request : Excused(r)
           \/ /\ project.state = "trashed"
              /\ \/ project.overdue
                 \/ \E r \in Request :
                      /\ Writing(r)
                      /\ req[r].actor \in GlobalAdmin \cup {project.owner})
  <2> SUFFICES ASSUME TypeOK, MemberInv, [Next]_vars, project'.state = "purged",
                      project.state # "purged", ~ \E r \in Request : Excused(r)
               PROVE  /\ project.state = "trashed"
                      /\ \/ project.overdue
                         \/ \E r \in Request :
                              Writing(r) /\ req[r].actor \in GlobalAdmin \cup {project.owner}
    OBVIOUS
  <2>1. PurgeExpiredProjects \/ \E r \in Request : PurgeProjectNow(r)
    BY OnlyPurges
  <2>2. ASSUME NEW r \in Request, PurgeProjectNow(r)
        PROVE  /\ project.state = "trashed" /\ Writing(r)
               /\ req[r].actor \in GlobalAdmin \cup {project.owner}
    <3>1. req[r].op = "purgeProjectNow" /\ req'[r] = Resting
      BY <2>2, WriterOK DEF PurgeProjectNow, Commit
    <3>2. Writing(r) /\ ~req[r].stale
      BY <3>1 DEF Writing, Excused
    <3> QED BY <3>1, <3>2 DEF MemberInv, AllFresh, Undisturbed, Fresh
  <2> QED BY <2>1, <2>2 DEF PurgeExpiredProjects, Expired
<1> QED BY <1>1, TypeCorrect, ReadsHold, PTL DEF Spec, NoLivePurge

-----------------------------------------------------------------------------
\* The steps that may end or settle an invitation, and what they read of it.
LEMMA StatusSteps ==
  ASSUME TypeOK, MemberInv, [Next]_vars, NEW i \in Invitation,
         invitation[i].status # "none", invitation'[i].status # "none",
         invitation'[i].status # invitation[i].status
  PROVE  \E r \in Request :
           \/ RevokePending(r) /\ Replaced(i, req[r].target)
           \/ Settle(r) /\ req[r].invitation = i
           \/ Admit(r) /\ req[r].invitation = i
           \/ Revoke(r) /\ req[r].invitation = i
<1> USE DEF TypeOK, RowsOK, InvitationRow
<1>1. ASSUME NEW r \in Request,
             \/ BeginAddMember(r) \/ BeginJoinProject(r) \/ BeginChangeMember(r)
             \/ BeginTransferOwnership(r) \/ BeginDeleteProject(r) \/ BeginOnTrashed(r)
             \/ BeginInvite(r) \/ BeginAccept(r) \/ BeginRevoke(r)
             \/ CheckExisting(r) \/ CheckTarget(r) \/ WriteRefused(r) \/ Abort(r)
      PROVE  FALSE
  BY <1>1
     DEF BeginAddMember, BeginJoinProject, BeginChangeMember, BeginTransferOwnership,
         BeginDeleteProject, BeginOnTrashed, BeginInvite, BeginAccept, BeginRevoke,
         CheckExisting, CheckTarget, WriteRefused, Abort, rows
<1>2. ASSUME NEW r \in Request,
             \/ InsertMember(r) \/ RemoveMember(r) \/ UpdateMemberRole(r)
             \/ TransferOwnership(r) \/ DeleteProject(r) \/ RestoreProject(r)
      PROVE  FALSE
  BY <1>2
     DEF InsertMember, RemoveMember, UpdateMemberRole, TransferOwnership, DeleteProject,
         RestoreProject
<1>3. ~ Purge
  BY DEF Purge, NoInvitation
<1>4. ASSUME NEW r \in Request, CreateInvitation(r)
      PROVE  FALSE
  BY <1>4 DEF CreateInvitation
<1>5. CASE CreateProject \/ Instantiate \/ RetentionEnds \/ UNCHANGED vars
  BY <1>5 DEF CreateProject, Instantiate, Create, RetentionEnds, vars, rows
<1>6. CASE InvitationExpires
  BY <1>6 DEF InvitationExpires
<1>7. ASSUME NEW r \in Request, RevokePending(r)
      PROVE  Replaced(i, req[r].target)
  BY <1>7 DEF RevokePending
<1>8. ASSUME NEW r \in Request, Settle(r) \/ Admit(r) \/ Revoke(r)
      PROVE  req[r].invitation = i
  BY <1>8 DEF Settle, Admit, Revoke, SetStatus
<1> QED BY <1>1, <1>2, <1>3, <1>4, <1>5, <1>6, <1>7, <1>8
        DEF Next, MemberStep, InvitationStep, ProjectStep, PurgeProjectNow,
            PurgeExpiredProjects

\* An invitation is used or revoked only while pending, and whoever used it is a member
\* then, unless what its handler read was overtaken.
LEMMA OneOutcome ==
  ASSUME TypeOK, MemberInv, PurgeIsTotal, [Next]_vars, NEW i \in Invitation,
         invitation[i].status # "none", invitation'[i].status # "none",
         invitation'[i].status # invitation[i].status,
         ~ \E r \in Request : Excused(r)
  PROVE  /\ invitation[i].status = "PENDING"
         /\ invitation'[i].status = "ACCEPTED" => member'[invitation[i].email] # Null
<1>1. project.state # "purged"
  BY DEF PurgeIsTotal, NoInvitation
<1>2. ASSUME NEW r \in Request, req[r].op # "none", req'[r] = Resting
      PROVE  Fresh(req[r])
  <2>1. ~req[r].stale
    BY <1>2 DEF Excused, Writing
  <2> QED BY <1>1, <1>2, <2>1 DEF MemberInv, AllFresh, Undisturbed
<1>3. ASSUME NEW r \in Request, RevokePending(r), Replaced(i, req[r].target)
      PROVE  invitation[i].status = "PENDING" /\ invitation'[i].status = "REVOKED"
  BY <1>3 DEF RevokePending, Replaced, TypeOK, RowsOK, InvitationRow
<1>4. ASSUME NEW r \in Request, Settle(r), req[r].invitation = i
      PROVE  invitation[i].status = "PENDING" /\ member'[invitation[i].email] # Null
  <2>1. req[r].op = "accept" /\ req[r].pc = "settle" /\ req'[r] = Resting
    BY <1>4 DEF Settle, At, Commit, TypeOK, HandlersOK, HandlerOK
  <2>2. UNCHANGED member
    BY <1>4 DEF Settle
  <2> QED BY <1>2, <1>4, <2>1, <2>2 DEF Fresh
<1>5. ASSUME NEW r \in Request, Admit(r), req[r].invitation = i
      PROVE  invitation[i].status = "PENDING" /\ member'[invitation[i].email] # Null
  <2>1. /\ req[r].op = "accept" /\ req'[r] = Resting
        /\ req[r].target \in User /\ req[r].role \in Assignable
    BY <1>5, WriterOK DEF Admit, Commit, HandlerOK, Handler
  <2>2. member'[req[r].target] = req[r].role
    BY <1>5, <2>1 DEF Admit, Admission, TypeOK, RowsOK
  <2> QED BY <1>2, <1>5, <2>1, <2>2, NullAssumption DEF Fresh
<1>6. ASSUME NEW r \in Request, Revoke(r), req[r].invitation = i
      PROVE  invitation[i].status = "PENDING" /\ invitation'[i].status = "REVOKED"
  <2>1. req[r].op = "revoke" /\ req[r].pc = "write" /\ req'[r] = Resting
    BY <1>6, WriterOK DEF Revoke, Commit
  <2>2. invitation'[i].status = "REVOKED"
    BY <1>6 DEF Revoke, SetStatus, TypeOK, RowsOK, InvitationRow
  <2> QED BY <1>2, <1>6, <2>1, <2>2 DEF Fresh
<1> QED BY <1>3, <1>4, <1>5, <1>6, StatusSteps

-----------------------------------------------------------------------------
LEMMA Ranks ==
  /\ RankOf("OWNER") = 4 /\ RankOf("ADMIN") = 3 /\ RankOf(Null) = 0
  /\ \A x \in Role \cup {Null} : RankOf(x) \in 0..4
  /\ \A x \in Assignable : RankOf(x) \in 1..3
BY NullAssumption DEF RankOf

\* The steps that change a member's row while the project stays.
LEMMA MemberSteps ==
  ASSUME TypeOK, [Next]_vars, NEW u \in User, member'[u] # member[u],
         project.state # "none", project'.state # "purged"
  PROVE  \E r \in Request :
           \/ InsertMember(r) /\ req[r].target = u
           \/ RemoveMember(r) /\ req[r].target = u
           \/ UpdateMemberRole(r) /\ req[r].target = u
           \/ Admit(r) /\ req[r].target = u
           \/ TransferOwnership(r) /\ u \in {req[r].target, req[r].actor}
<1> USE DEF TypeOK, RowsOK
<1>1. ASSUME NEW r \in Request,
             \/ BeginAddMember(r) \/ BeginJoinProject(r) \/ BeginChangeMember(r)
             \/ BeginTransferOwnership(r) \/ BeginDeleteProject(r) \/ BeginOnTrashed(r)
             \/ BeginInvite(r) \/ BeginAccept(r) \/ BeginRevoke(r)
             \/ CheckExisting(r) \/ CheckTarget(r) \/ WriteRefused(r) \/ Abort(r)
      PROVE  FALSE
  BY <1>1
     DEF BeginAddMember, BeginJoinProject, BeginChangeMember, BeginTransferOwnership,
         BeginDeleteProject, BeginOnTrashed, BeginInvite, BeginAccept, BeginRevoke,
         CheckExisting, CheckTarget, WriteRefused, Abort, rows
<1>2. ASSUME NEW r \in Request,
             \/ DeleteProject(r) \/ RestoreProject(r) \/ RevokePending(r)
             \/ CreateInvitation(r) \/ Settle(r) \/ Revoke(r)
      PROVE  FALSE
  BY <1>2
     DEF DeleteProject, RestoreProject, RevokePending, CreateInvitation, Settle, Revoke
<1>3. CASE CreateProject \/ Instantiate \/ RetentionEnds \/ InvitationExpires \/ UNCHANGED vars
  BY <1>3 DEF CreateProject, Instantiate, Create, RetentionEnds, InvitationExpires, vars, rows
<1>4. ~ Purge
  BY DEF Purge, ProjectRow
<1>5. ASSUME NEW r \in Request,
             InsertMember(r) \/ RemoveMember(r) \/ UpdateMemberRole(r) \/ Admit(r)
      PROVE  req[r].target = u
  BY <1>5 DEF InsertMember, RemoveMember, UpdateMemberRole, Admit, Admission
<1>6. ASSUME NEW r \in Request, TransferOwnership(r)
      PROVE  u \in {req[r].target, req[r].actor}
  BY <1>6 DEF TransferOwnership, NewRoles
<1> QED BY <1>1, <1>2, <1>3, <1>4, <1>5, <1>6
        DEF Next, MemberStep, InvitationStep, ProjectStep, PurgeProjectNow,
            PurgeExpiredProjects

\* Whoever loses standing loses it to one above, or by its own transfer; whoever gains
\* some has it of one who may grant it.
LEMMA RankChange ==
  ASSUME TypeOK, MemberInv, [Next]_vars, NEW u \in User,
         project.state # "none", project'.state # "purged"
  PROVE  /\ Loses(u) => \E r \in Request :
              Writing(r) /\ (req[r].stale \/ TakenBy(req[r], u))
         /\ Gains(u) => \E r \in Request :
              Writing(r) /\ (req[r].stale \/ GrantedBy(req[r], u))
<1>0. /\ member[u] \in Role \cup {Null} /\ member'[u] \in Role \cup {Null}
      /\ RankOf(member[u]) \in 0..4 /\ RankOf(member'[u]) \in 0..4
  <2>1. TypeOK'
    BY BeginType, CheckType, MemberWriteType, InvitationWriteType, OtherType
       DEF Next, MemberStep, InvitationStep
  <2> QED BY <2>1, Ranks DEF TypeOK, RowsOK
<1> SUFFICES ASSUME member'[u] # member[u]
             PROVE  \E r \in Request : /\ Writing(r)
                                       /\ ~req[r].stale /\ Loses(u) => TakenBy(req[r], u)
                                       /\ ~req[r].stale /\ Gains(u) => GrantedBy(req[r], u)
  BY <1>0 DEF Loses, Gains
<1>1. ASSUME NEW r \in Request, NEW ops, Writes(r, ops), Commit(r, Resting),
             "none" \notin ops
      PROVE  /\ Writing(r) /\ req[r].op \in ops /\ req[r].pc = "write" /\ Writable(req[r])
             /\ req[r] \in Handler /\ HandlerOK(req[r]) /\ Shaped(req[r])
             /\ ~req[r].stale => Fresh(req[r])
  <2>1. /\ req[r] \in Handler /\ HandlerOK(req[r]) /\ req[r].pc = "write"
        /\ req[r].op \in ops /\ req[r].op # "none" /\ project.state # "purged"
    BY <1>1, WriterOK
  <2>2. Writing(r)
    BY <1>1, <2>1 DEF Writing, Commit
  <2> QED BY <1>1, <2>1, <2>2 DEF MemberInv, AllFresh, AllShaped, Undisturbed, Writes
<1>2. ASSUME NEW r \in Request, InsertMember(r), req[r].target = u
      PROVE  /\ Writing(r) /\ ~Loses(u)
             /\ ~req[r].stale /\ Gains(u) => GrantedBy(req[r], u)
  <2>1. Writes(r, {"addMember", "joinProject"}) /\ Commit(r, Resting)
    BY <1>2 DEF InsertMember
  <2>2. member[u] = Null /\ member'[u] = req[r].role
    BY <1>1, <1>2, <2>1 DEF InsertMember, Writable, TypeOK, RowsOK
  <2>3. ~Loses(u)
    BY <1>0, <2>2, Ranks DEF Loses
  <2>4. CASE req[r].op = "addMember"
    BY <1>1, <2>1, <2>2, <2>3, <2>4 DEF Fresh, Standing, Outranks, GrantedBy, Above
  <2>5. CASE req[r].op = "joinProject"
    BY <1>1, <1>2, <2>1, <2>2, <2>3, <2>5 DEF Shaped, GrantedBy
  <2> QED BY <1>1, <2>1, <2>4, <2>5
<1>3. ASSUME NEW r \in Request, RemoveMember(r), req[r].target = u
      PROVE  /\ Writing(r) /\ ~Gains(u)
             /\ ~req[r].stale /\ Loses(u) => TakenBy(req[r], u)
  <2>1. Writes(r, {"removeMember"}) /\ Commit(r, Resting)
    BY <1>3 DEF RemoveMember
  <2>2. member'[u] = Null
    BY <1>3 DEF RemoveMember, TypeOK, RowsOK
  <2>3. ~Gains(u)
    BY <1>0, <2>2, Ranks DEF Gains
  <2> QED BY <1>1, <1>3, <2>1, <2>3 DEF Fresh, Standing, Outranks, TakenBy, Above
<1>4. ASSUME NEW r \in Request, UpdateMemberRole(r), req[r].target = u
      PROVE  /\ Writing(r)
             /\ ~req[r].stale => TakenBy(req[r], u)
             /\ ~req[r].stale => GrantedBy(req[r], u)
  <2>1. Writes(r, {"updateMemberRole"}) /\ Commit(r, Resting)
    BY <1>4 DEF UpdateMemberRole
  <2>2. member'[u] = req[r].role
    BY <1>4 DEF UpdateMemberRole, TypeOK, RowsOK
  <2> QED BY <1>1, <1>4, <2>1, <2>2
          DEF Fresh, Standing, Outranks, TakenBy, GrantedBy, Above
<1>5. ASSUME NEW r \in Request, Admit(r), req[r].target = u
      PROVE  /\ Writing(r) /\ ~Loses(u)
             /\ ~req[r].stale => GrantedBy(req[r], u)
  <2>1. Writes(r, {"accept"}) /\ Commit(r, Resting)
    BY <1>5 DEF Admit
  <2>2. member[u] = Null /\ member'[u] = req[r].role
    BY <1>1, <1>5, <2>1 DEF Admit, Admission, Writable, TypeOK, RowsOK
  <2>3. ~Loses(u)
    BY <1>0, <2>2, Ranks DEF Loses
  <2>4. req[r].invitation \in Invitation
    BY <1>1, <2>1 DEF HandlerOK
  <2> QED BY <1>1, <1>5, <2>1, <2>2, <2>3, <2>4 DEF Fresh, GrantedBy
<1>6. ASSUME NEW r \in Request, TransferOwnership(r), u \in {req[r].target, req[r].actor}
      PROVE  /\ Writing(r)
             /\ Loses(u) => TakenBy(req[r], u)
             /\ ~req[r].stale => GrantedBy(req[r], u)
  <2>1. Writes(r, {"transferOwnership"}) /\ Commit(r, Resting)
    BY <1>6 DEF TransferOwnership
  <2>2. req[r].target # req[r].actor
    BY <1>1, <2>1 DEF HandlerOK
  <2>3. member'[u] = IF u = req[r].actor THEN "ADMIN" ELSE "OWNER"
    BY <1>6, <2>2 DEF TransferOwnership, NewRoles, TypeOK, RowsOK
  <2>4. ~req[r].stale => EffectiveRole(project, member, req[r].actor) = "OWNER"
    BY <1>1, <2>1 DEF Fresh, Standing
  <2>5. CASE u = req[r].actor
    BY <1>1, <2>1, <2>3, <2>4, <2>5, Ranks DEF TakenBy, GrantedBy, Above
  <2>6. CASE u # req[r].actor
    <3>1. ~Loses(u)
      BY <1>0, <2>3, <2>6, Ranks DEF Loses
    <3> QED BY <1>1, <2>1, <2>3, <2>4, <2>6, <3>1 DEF GrantedBy
  <2> QED BY <2>5, <2>6
<1> QED BY <1>2, <1>3, <1>4, <1>5, <1>6, MemberSteps

\* Nobody loses standing but to somebody above it or by its own transfer, and nobody gains
\* any but from one who may give it, by a link or by an invitation, unless what the handler
\* had read was overtaken: the checks of removeMember, updateMemberRole, addMember,
\* transferOwnership and the two ways in.
THEOREM RanksHold == Spec => RanksRespected
<1>1. TypeOK /\ MemberInv /\ [Next]_vars =>
        (project.state # "none" /\ project'.state # "purged" =>
           \A u \in User :
             /\ Loses(u) => \E r \in Request :
                  Writing(r) /\ (req[r].stale \/ TakenBy(req[r], u))
             /\ Gains(u) => \E r \in Request :
                  Writing(r) /\ (req[r].stale \/ GrantedBy(req[r], u)))
  BY RankChange
<1> QED BY <1>1, TypeCorrect, ReadsHold, PTL DEF Spec, RanksRespected

-----------------------------------------------------------------------------
\* The links of an address are counted with the handlers about to make one.
LinksCounted(v) ==
  /\ IsFiniteSet(Pending(v))
  /\ Cardinality(Pending(v)) + Cardinality(Inviting(v)) <= Cardinality(Request)
LinksInv == \A v \in User : LinksCounted(v)

LEMMA InvitingFinite ==
  ASSUME NEW v
  PROVE  /\ IsFiniteSet(Inviting(v))
         /\ Cardinality(Inviting(v)) <= Cardinality(Request)
         /\ Cardinality(Inviting(v)) \in Nat /\ Cardinality(Request) \in Nat
<1>1. Inviting(v) \subseteq Request
  BY DEF Inviting
<1> QED BY <1>1, RequestAssumption, FS_Subset, FS_CardinalityType

\* The count does not grow when neither of its parts does.
LEMMA CountShrinks ==
  ASSUME NEW v, LinksCounted(v), Pending(v)' \subseteq Pending(v),
         Inviting(v)' \subseteq Inviting(v)
  PROVE  LinksCounted(v)'
<1>1. /\ IsFiniteSet(Pending(v)') /\ IsFiniteSet(Inviting(v)')
      /\ Cardinality(Pending(v)') <= Cardinality(Pending(v))
      /\ Cardinality(Inviting(v)') <= Cardinality(Inviting(v))
  BY InvitingFinite, FS_Subset DEF LinksCounted
<1>2. /\ Cardinality(Pending(v)') \in Nat /\ Cardinality(Inviting(v)') \in Nat
      /\ Cardinality(Pending(v)) \in Nat /\ Cardinality(Inviting(v)) \in Nat
      /\ Cardinality(Request) \in Nat
  BY <1>1, InvitingFinite, FS_CardinalityType DEF LinksCounted
<1>3. Cardinality(Pending(v)') + Cardinality(Inviting(v)') <= Cardinality(Request)
  BY <1>1, <1>2 DEF LinksCounted
<1> QED BY <1>1, <1>3 DEF LinksCounted

\* A commit makes no other handler one that is about to invite.
LEMMA CommitInviting ==
  ASSUME TypeOK, NEW r \in Request, NEW h \in Handler, Commit(r, h), NEW v,
         h.op # "none" => h.target # v
  PROVE  Inviting(v)' \subseteq Inviting(v) \ {r}
<1> SUFFICES ASSUME NEW q \in Request, req'[q].pc = "write", req'[q].op = "invite",
                    req'[q].target = v
             PROVE  q \in Inviting(v) \ {r}
  BY DEF Inviting, At
<1>1. q # r
  BY DEF Commit
<1> DEFINE b == req[q].stale \/ Disturbed(req[q])
<1>2. req'[q] = [req[q] EXCEPT !.stale = b] /\ req[q] \in Handler
  BY <1>1 DEF Commit, TypeOK, HandlersOK
<1> HIDE DEF b
<1>3. req[q].pc = "write" /\ req[q].op = "invite" /\ req[q].target = v
  BY <1>2 DEF Handler
<1> QED BY <1>1, <1>3 DEF Inviting, At

\* The steps that touch no invitation, or end some, keep the count.
LEMMA OthersKeepCount ==
  ASSUME TypeOK, MemberInv, LinksInv, [Next]_vars, NEW v \in User,
         ~ \E r \in Request : RevokePending(r) \/ CreateInvitation(r)
  PROVE  LinksCounted(v)'
<1>1. SUFFICES Pending(v)' \subseteq Pending(v) /\ Inviting(v)' \subseteq Inviting(v)
  BY CountShrinks DEF LinksInv
<1> DEFINE Less == \A i \in Invitation :
                     /\ invitation'[i].status = "PENDING" => invitation[i].status = "PENDING"
                     /\ invitation'[i].status = "PENDING" =>
                          invitation'[i].email = invitation[i].email
<1>2. Less => Pending(v)' \subseteq Pending(v)
  BY DEF Pending
<1>3. ASSUME NEW r \in Request, NEW h \in Handler, req' = [req EXCEPT ![r] = h],
             h.pc = "write" => h.op # "invite"
      PROVE  Inviting(v)' \subseteq Inviting(v)
  <2>1. \A q \in Request : req'[q] \in {h, req[q]}
    BY <1>3 DEF TypeOK, HandlersOK
  <2> QED BY <1>3, <2>1 DEF Inviting, At
<1>4. ASSUME NEW r \in Request, Finish(r)
      PROVE  Inviting(v)' \subseteq Inviting(v)
  BY <1>3, <1>4, RestingOK DEF Finish, Resting
<1>5. ASSUME NEW r \in Request,
             \/ BeginAddMember(r) \/ BeginJoinProject(r) \/ BeginChangeMember(r)
             \/ BeginTransferOwnership(r) \/ BeginDeleteProject(r) \/ BeginOnTrashed(r)
             \/ BeginInvite(r) \/ BeginAccept(r) \/ BeginRevoke(r)
      PROVE  Less /\ Inviting(v)' \subseteq Inviting(v)
  <2>1. UNCHANGED rows
    BY <1>5 DEF BeginAddMember, BeginJoinProject, BeginChangeMember, BeginTransferOwnership,
           BeginDeleteProject, BeginOnTrashed, BeginInvite, BeginAccept, BeginRevoke
  <2>2. PICK h : Accept(r, h) /\ ~InvitesNow(h)
    BY <1>5, Begun
  <2>3. \A q \in Request : req'[q] \in {h, req[q]}
    BY <2>2 DEF Accept, TypeOK, HandlersOK
  <2>4. Inviting(v)' \subseteq Inviting(v)
    BY <2>2, <2>3 DEF Inviting, At, InvitesNow
  <2> QED BY <2>1, <2>4 DEF rows
<1>6. ASSUME NEW r \in Request, WriteRefused(r) \/ Abort(r) \/ (CheckTarget(r) /\ Finish(r))
      PROVE  Less /\ Inviting(v)' \subseteq Inviting(v)
  BY <1>4, <1>6 DEF WriteRefused, Abort, CheckTarget, rows
<1>7. ASSUME NEW r \in Request, CheckExisting(r)
      PROVE  Less /\ Inviting(v)' \subseteq Inviting(v)
  <2>1. Less
    BY <1>7 DEF CheckExisting, rows
  <2>2. CASE Finish(r)
    BY <1>4, <2>1, <2>2
  <2>3. ASSUME NEW s, Goto(r, s), s = "write" => req[r].op # "invite"
        PROVE  Inviting(v)' \subseteq Inviting(v)
    <3>1. req[r] \in Handler
      BY DEF TypeOK, HandlersOK
    <3>2. \A q \in Request : req'[q] \in {[req[r] EXCEPT !.pc = s], req[q]}
      BY <2>3 DEF Goto, TypeOK, HandlersOK
    <3>3. [req[r] EXCEPT !.pc = s].pc = s /\ [req[r] EXCEPT !.pc = s].op = req[r].op
      BY <3>1 DEF Handler
    <3> QED BY <2>3, <3>2, <3>3 DEF Inviting, At
  <2>4. CASE Goto(r, IF req[r].op = "invite" THEN "replace" ELSE "write")
    BY <2>1, <2>3, <2>4
  <2>5. CASE Goto(r, "settle")
    BY <2>1, <2>3, <2>5
  <2> QED BY <1>7, <2>2, <2>4, <2>5 DEF CheckExisting
<1>8. ASSUME NEW r \in Request, CheckTarget(r), Permitted(req[r])
      PROVE  Less /\ Inviting(v)' \subseteq Inviting(v)
  <2>1. Less
    BY <1>8 DEF CheckTarget, rows
  <2>2. req[r] \in Handler /\ req[r].op # "invite"
    BY <1>8 DEF CheckTarget, At, MemberInv, AllShaped, Shaped, TypeOK, HandlersOK
  <2>3. \A q \in Request : req'[q] \in {[req[r] EXCEPT !.pc = "write", !.as = Null], req[q]}
    BY <1>8 DEF CheckTarget, TypeOK, HandlersOK
  <2>4. [req[r] EXCEPT !.pc = "write", !.as = Null].op = req[r].op
    BY <2>2 DEF Handler
  <2> QED BY <2>1, <2>2, <2>3, <2>4 DEF Inviting, At
<1>9. ASSUME NEW r \in Request,
             \/ InsertMember(r) \/ RemoveMember(r) \/ UpdateMemberRole(r)
             \/ TransferOwnership(r) \/ DeleteProject(r) \/ RestoreProject(r)
             \/ PurgeProjectNow(r) \/ Settle(r) \/ Admit(r) \/ Revoke(r)
      PROVE  Less /\ Inviting(v)' \subseteq Inviting(v)
  <2>1. Commit(r, Resting)
    BY <1>9 DEF InsertMember, RemoveMember, UpdateMemberRole, TransferOwnership,
                DeleteProject, RestoreProject, PurgeProjectNow, Settle, Admit, Revoke
  <2>2. Inviting(v)' \subseteq Inviting(v)
    BY <2>1, CommitInviting, RestingOK DEF Resting
  <2>3. CASE PurgeProjectNow(r)
    BY <2>2, <2>3 DEF PurgeProjectNow, Purge, NoInvitation
  <2>4. CASE Settle(r) \/ Admit(r) \/ Revoke(r)
    BY <2>2, <2>4 DEF Settle, Admit, Revoke, SetStatus, TypeOK, RowsOK, InvitationRow
  <2>5. CASE \/ InsertMember(r) \/ RemoveMember(r) \/ UpdateMemberRole(r)
             \/ TransferOwnership(r) \/ DeleteProject(r) \/ RestoreProject(r)
    BY <2>2, <2>5 DEF InsertMember, RemoveMember, UpdateMemberRole, TransferOwnership,
                      DeleteProject, RestoreProject
  <2> QED BY <1>9, <2>3, <2>4, <2>5
<1>10. CASE ProjectStep \/ InvitationExpires \/ UNCHANGED vars
  <2>1. UNCHANGED req
    BY <1>10 DEF ProjectStep, CreateProject, Instantiate, Create, PurgeExpiredProjects,
                 RetentionEnds, InvitationExpires, vars
  <2>2. Inviting(v)' \subseteq Inviting(v)
    BY <2>1 DEF Inviting, At
  <2>3. Less
    BY <1>10 DEF ProjectStep, CreateProject, Instantiate, Create, PurgeExpiredProjects, Purge,
                 NoInvitation, RetentionEnds, InvitationExpires, vars, rows, TypeOK, RowsOK, InvitationRow
  <2> QED BY <1>2, <2>2, <2>3
<1> HIDE DEF Less
<1>11. ASSUME NEW r \in Request, CheckTarget(r)
       PROVE  Less /\ Inviting(v)' \subseteq Inviting(v)
  BY <1>6, <1>8, <1>11 DEF CheckTarget
<1> QED BY <1>2, <1>5, <1>6, <1>7, <1>9, <1>10, <1>11 DEF Next, MemberStep, InvitationStep

\* Replacing what is pending makes room for the link that its handler will create.
LEMMA ReplaceCounted ==
  ASSUME TypeOK, MemberInv, LinksInv, NEW r \in Request, RevokePending(r), NEW v \in User
  PROVE  LinksCounted(v)'
<1> DEFINE h == [req[r] EXCEPT !.pc = "write"]
<1>1. h \in Handler /\ h.target = req[r].target /\ Commit(r, h)
  BY DEF RevokePending, TypeOK, HandlersOK, Handler, Step
<1>2. CASE v = req[r].target
  <2>1. Pending(v)' = {}
    BY <1>2 DEF RevokePending, Pending, Replaced, TypeOK, RowsOK, InvitationRow
  <2>2. /\ Cardinality(Inviting(v)') <= Cardinality(Request)
        /\ Cardinality(Inviting(v)') \in Nat
    <3>1. Inviting(v)' \subseteq Request
      BY DEF Inviting
    <3> QED BY <3>1, RequestAssumption, FS_Subset, FS_CardinalityType
  <2>3. IsFiniteSet(Pending(v)') /\ Cardinality(Pending(v)') = 0
    BY <2>1, FS_EmptySet
  <2>4. Cardinality(Pending(v)') + Cardinality(Inviting(v)') <= Cardinality(Request)
    BY <2>2, <2>3, RequestAssumption, FS_CardinalityType
  <2> QED BY <2>3, <2>4 DEF LinksCounted
<1>3. CASE v # req[r].target
  <2>1. Inviting(v)' \subseteq Inviting(v)
    BY <1>1, <1>3, CommitInviting
  <2>2. Pending(v)' \subseteq Pending(v)
    BY DEF RevokePending, Pending, Replaced, TypeOK, RowsOK, InvitationRow
  <2> QED BY <2>1, <2>2, CountShrinks DEF LinksInv
<1> QED BY <1>2, <1>3

\* The link created takes the place of the handler that creates it.
LEMMA CreateCounted ==
  ASSUME TypeOK, LinksInv, NEW r \in Request, CreateInvitation(r), NEW v \in User
  PROVE  LinksCounted(v)'
<1>0. Commit(r, Resting) /\ req[r].op = "invite" /\ At(r, "write")
  BY WriterOK DEF CreateInvitation, At
<1>1. PICK i \in Invitation :
        /\ invitation[i].status = "none"
        /\ invitation' = [invitation EXCEPT ![i] =
             [status |-> "PENDING", email |-> req[r].target, role |-> req[r].role,
              expired |-> FALSE]]
  BY DEF CreateInvitation
<1>2. Inviting(v)' \subseteq Inviting(v) \ {r}
  BY <1>0, CommitInviting, RestingOK DEF Resting
<1>3. CASE v # req[r].target
  <2>1. Pending(v)' \subseteq Pending(v)
    BY <1>1, <1>3 DEF Pending, TypeOK, RowsOK
  <2> QED BY <1>2, <2>1, CountShrinks DEF LinksInv
<1>4. CASE v = req[r].target
  <2>1. Pending(v)' = Pending(v) \cup {i} /\ i \notin Pending(v)
    BY <1>1, <1>4 DEF Pending, TypeOK, RowsOK
  <2>2. r \in Inviting(v)
    BY <1>0, <1>4 DEF Inviting
  <2>3. /\ IsFiniteSet(Pending(v)')
        /\ Cardinality(Pending(v)') = Cardinality(Pending(v)) + 1
    BY <2>1, FS_AddElement DEF LinksInv, LinksCounted
  <2>4. /\ IsFiniteSet(Inviting(v) \ {r})
        /\ Cardinality(Inviting(v) \ {r}) = Cardinality(Inviting(v)) - 1
    BY <2>2, InvitingFinite, FS_RemoveElement
  <2>5. /\ IsFiniteSet(Inviting(v)')
        /\ Cardinality(Inviting(v)') <= Cardinality(Inviting(v) \ {r})
    BY <1>2, <2>4, FS_Subset
  <2>6. /\ Cardinality(Inviting(v)') \in Nat /\ Cardinality(Inviting(v)) \in Nat
        /\ Cardinality(Pending(v)) \in Nat /\ Cardinality(Request) \in Nat
    BY <2>5, InvitingFinite, FS_CardinalityType DEF LinksInv, LinksCounted
  <2>7. Cardinality(Pending(v)') + Cardinality(Inviting(v)') <= Cardinality(Request)
    BY <2>3, <2>4, <2>5, <2>6 DEF LinksInv, LinksCounted
  <2> QED BY <2>3, <2>7 DEF LinksCounted
<1> QED BY <1>3, <1>4

LEMMA LinksBounded == Spec => []LinksInv
<1>1. Init => LinksInv
  <2> SUFFICES ASSUME Init, NEW v \in User
               PROVE  LinksCounted(v)
    BY DEF LinksInv
  <2>1. Pending(v) = {} /\ Inviting(v) = {}
    BY DEF Init, Pending, Inviting, NoInvitation, Resting, At
  <2>2. IsFiniteSet(Pending(v)) /\ Cardinality(Pending(v)) = 0 /\ Cardinality(Inviting(v)) = 0
    BY <2>1, FS_EmptySet
  <2> QED BY <2>2, RequestAssumption, FS_CardinalityType DEF LinksCounted
<1>2. TypeOK /\ MemberInv /\ LinksInv /\ [Next]_vars => LinksInv'
  <2> SUFFICES ASSUME TypeOK, MemberInv, LinksInv, [Next]_vars, NEW v \in User
               PROVE  LinksCounted(v)'
    BY DEF LinksInv
  <2> QED BY OthersKeepCount, ReplaceCounted, CreateCounted
<1> QED BY <1>1, <1>2, TypeCorrect, ReadsHold, PTL DEF Spec

\* The valid links of one address never outnumber the handlers at once, and an invitation
\* is settled once, while pending, with its account in the project: InvitationService's
\* replacement of pending links and its transaction of acceptance.
THEOREM InvitationsSettled == Spec => InvitationsHold
<1>1. LinksInv => PendingBounded
  BY DEF LinksInv, LinksCounted, PendingBounded
<1>2. TypeOK /\ MemberInv /\ PurgeIsTotal /\ [Next]_vars =>
        (\A i \in Invitation :
           LET before == invitation[i].status  after == invitation'[i].status IN
           before # after /\ after # "none" /\ before # "none" =>
             \/ \E r \in Request : Excused(r)
             \/ /\ before = "PENDING"
                /\ after = "ACCEPTED" => member'[invitation[i].email] # Null)
  BY OneOutcome
<1> QED BY <1>1, <1>2, TypeCorrect, ReadsHold, TotalPurge, LinksBounded, PTL
        DEF Spec, InvitationsHold, InvitationOutcome

-----------------------------------------------------------------------------
(***************************************************************************)
(* Contributions: whatever changes while a request collects the rights of     *)
(* its user, it writes only by rights the user had meanwhile.                *)
(***************************************************************************)
HIDE DEF Role, Assignable

\* What a request is about, and what its user's rights have come from.
Subject(h) ==
  /\ h.user \in Writer
  /\ h.row \in Access!About(h.op) \/ (h.row \in Content /\ row[h.row].kind = "none")
  /\ h.kept \subseteq Access!Sources(h.user, h.row)
  /\ Access!Sources(h.user, h.row) \subseteq h.held

\* Which operation comes to which step.
Course(h) ==
  /\ h.pc = "row" => h.op \notin Access!OnProject
  /\ h.pc = "task" => h.op \in {"deleteComment", "createIssue"} /\ h.row # Null
  /\ h.op = "createIssue" => h.on = h.row
  /\ h.pc = "task" /\ h.op = "deleteComment" /\ row[h.row].kind # "none" =>
       row[h.row].on = h.on
  /\ h.first => h.op = "createDocumentComment"

\* What it has read of whose the row is.
OwnRead(h) ==
  /\ h.own => "own" \in h.held
  /\ h.pc \in {"task", "role", "admin"} /\ "own" \in h.kept => h.own \/ h.op \in Access!OnProject
  /\ h.pc \in {"role", "admin"} /\ h.op = "removeIssue" => ~h.own

\* What it has read of the role: no more than was held, and no less than was kept.
Bounds(h) == \A s \in h.kept \cap Access!Role : Access!RankOf(s) <= Access!RankOf(h.role)
RoleRead(h) ==
  /\ h.pc = "admin" =>
       /\ "live" \in h.held /\ Access!RankOf(h.role) <= Access!Standing(h.held)
       /\ "owner" \notin h.kept /\ Bounds(h)
  /\ h.pc = "list" => Access!RankOf(h.role) <= Access!Standing(h.held)
  /\ h.pc = "roles" =>
       /\ Access!RankOf(h.role) <= Access!Standing(h.held)
       /\ "memberships" \notin h.todo => Bounds(h)
       /\ "owned" \notin h.todo /\ "owner" \in h.kept => Access!RankOf(h.role) = 4
       /\ "admin" \notin h.todo /\ "admin" \in h.kept => Access!RankOf(h.role) = 4
  /\ h.pc = "write" \/ (h.pc = "task" /\ h.op = "createIssue") => Access!Entitled(h.held)

Underway(h) == Subject(h) /\ Course(h) /\ OwnRead(h) /\ RoleRead(h)

ContributionInv ==
  /\ Access!TypeOK
  /\ asked.pc \notin {"none", "done"} => Underway(asked)
  /\ Access!RightsAreThose

-----------------------------------------------------------------------------
(***************************************************************************)
(* SourceRanks, and the standing that a set of sources gives.                     *)
(***************************************************************************)
LEMMA SourceRanks ==
  ASSUME Access!NullApart
  PROVE  /\ Access!RankOf("OWNER") = 4 /\ Access!RankOf("ADMIN") = 3
         /\ Access!RankOf("MEMBER") = 2 /\ Access!RankOf("VIEWER") = 1 /\ Access!RankOf(Null) = 0
         /\ \A s \in {"live", "own", "owner", "admin", "gone"} : Access!RankOf(s) = 0
         /\ \A s \in Access!Role \cup Access!Source \cup {Null} : Access!RankOf(s) \in 0 .. 4
         /\ \A s \in Access!Role : Access!RankOf(s) >= 1
BY DEF Access!NullApart, Access!Role, Access!Source, Access!RankOf

LEMMA MaxOfFew ==
  ASSUME NEW T \in SUBSET (0 .. 4), T # {}
  PROVE  Access!Max(T) \in T /\ \A y \in T : Access!Max(T) >= y
<1>1. \E x \in T : \A y \in T : x >= y
  <2>1. CASE 4 \in T
    BY <2>1
  <2>2. CASE 4 \notin T /\ 3 \in T
    BY <2>2
  <2>3. CASE 4 \notin T /\ 3 \notin T /\ 2 \in T
    BY <2>3
  <2>4. CASE 4 \notin T /\ 3 \notin T /\ 2 \notin T /\ 1 \in T
    BY <2>4
  <2>5. CASE 4 \notin T /\ 3 \notin T /\ 2 \notin T /\ 1 \notin T
    <3>1. \A y \in T : y = 0
      <4> TAKE y \in T
      <4>1. y \in 0 .. 4
        OBVIOUS
      <4>2. y # 1 /\ y # 2 /\ y # 3 /\ y # 4
        BY <2>5
      <4> QED BY <4>1, <4>2
    <3>2. 0 \in T
      BY <3>1
    <3>3. \A y \in T : 0 >= y
      BY <3>1
    <3> QED BY <3>2, <3>3
  <2> QED BY <2>1, <2>2, <2>3, <2>4, <2>5
<1> QED BY <1>1 DEF Access!Max

\* Standing, without a maximum: the least bound of the ranks, which is one of them or none.
LEMMA StandingIs ==
  ASSUME Access!NullApart, NEW S \in SUBSET Access!Source
  PROVE  /\ Access!Standing(S) \in 0 .. 4
         /\ S \cap {"owner", "admin"} # {} => Access!Standing(S) = 4
         /\ \A s \in S : Access!RankOf(s) <= Access!Standing(S)
         /\ S \cap {"owner", "admin"} = {} =>
              Access!Standing(S) = 0 \/ \E s \in S \cap Access!Role : Access!RankOf(s) = Access!Standing(S)
<1> DEFINE T == {Access!RankOf(s) : s \in S} \cup {0}
<1>1. T \in SUBSET (0 .. 4) /\ T # {}
  BY SourceRanks
<1>2. Access!Max(T) \in T /\ \A y \in T : Access!Max(T) >= y
  BY <1>1, MaxOfFew
<1>3. CASE S \cap {"owner", "admin"} # {}
  BY <1>3, SourceRanks DEF Access!Standing
<1>4. CASE S \cap {"owner", "admin"} = {}
  <2>1. Access!Standing(S) = Access!Max(T)
    BY <1>4 DEF Access!Standing
  <2>2. \A s \in S : Access!RankOf(s) \in T
    OBVIOUS
  <2>3. Access!Max(T) = 0 \/ \E s \in S : Access!RankOf(s) = Access!Max(T)
    BY <1>2
  <2>4. \A s \in S \ Access!Role : Access!RankOf(s) = 0
    BY SourceRanks DEF Access!Source
  <2> HIDE DEF T
  <2>5. Access!Max(T) \in 0 .. 4 /\ \A s \in S : Access!RankOf(s) <= Access!Max(T)
    BY <1>1, <1>2, <2>2
  <2> QED BY <1>4, <2>1, <2>3, <2>4, <2>5
<1> QED BY <1>3, <1>4

LEMMA StandingGrows ==
  ASSUME Access!NullApart, NEW S \in SUBSET Access!Source, NEW T \in SUBSET Access!Source,
         S \subseteq T
  PROVE  Access!Standing(S) <= Access!Standing(T)
BY StandingIs

LEMMA EntitledGrows ==
  ASSUME Access!NullApart, NEW S \in SUBSET Access!Source, NEW T \in SUBSET Access!Source,
         S \subseteq T, Access!Entitled(S)
  PROVE  Access!Entitled(T)
<1>1. /\ Access!Standing(S) <= Access!Standing(T) /\ Access!Standing(S) \in 0 .. 4
      /\ Access!Standing(T) \in 0 .. 4
  BY StandingGrows, StandingIs
<1>2. Access!RankOf("ADMIN") = 3 /\ Access!RankOf("MEMBER") = 2
  BY SourceRanks
<1> QED BY <1>1, <1>2 DEF Access!Entitled

\* A role that is no more than a request has held, or no less than it has kept, judges it.
LEMMA PermittedEntitled ==
  ASSUME Access!NullApart, NEW S \in SUBSET Access!Source, NEW r \in Access!Role \cup {Null},
         NEW own \in BOOLEAN,
         Access!Permits(asked.op, own, r), Access!RankOf(r) <= Access!Standing(S), "live" \in S,
         own => "own" \in S
  PROVE  Access!Entitled(S)
<1>1. Access!Standing(S) \in 0 .. 4 /\ Access!RankOf(r) \in 0 .. 4
  BY StandingIs, SourceRanks
<1>2. Access!RankOf("ADMIN") = 3 /\ Access!RankOf("MEMBER") = 2
  BY SourceRanks
<1> QED BY <1>1, <1>2 DEF Access!Entitled, Access!Permits

LEMMA RefusedNotEntitled ==
  ASSUME Access!NullApart, NEW S \in SUBSET Access!Source, NEW r \in Access!Role \cup {Null},
         NEW own \in BOOLEAN,
         ~Access!Permits(asked.op, own, r), Access!Standing(S) <= Access!RankOf(r),
         "own" \in S => own \/ asked.op \in Access!OnProject, asked.op = "removeIssue" => ~own
  PROVE  ~Access!Entitled(S)
<1>1. Access!Standing(S) \in 0 .. 4 /\ Access!RankOf(r) \in 0 .. 4
  BY StandingIs, SourceRanks
<1>2. Access!RankOf("ADMIN") = 3 /\ Access!RankOf("MEMBER") = 2
  BY SourceRanks
<1> QED BY <1>1, <1>2 DEF Access!Entitled, Access!Permits, Access!OnProject, Access!OnComment

LEMMA NeedsTheProject ==
  ASSUME NEW S, "live" \notin S, "own" \in S => asked.op # "removeIssue"
  PROVE  ~Access!Entitled(S)
BY DEF Access!Entitled

-----------------------------------------------------------------------------
(***************************************************************************)
(* Where rights come from, and what rows are on.                            *)
(***************************************************************************)
LEMMA SourceFacts ==
  ASSUME NEW u, NEW x
  PROVE  /\ Access!Sources(u, x) \subseteq Access!Source
         /\ "live" \in Access!Sources(u, x) <=> live
         /\ "own" \in Access!Sources(u, x) <=> Access!IsOwn(x, u)
         /\ "owner" \in Access!Sources(u, x) <=> u = owner
         /\ "admin" \in Access!Sources(u, x) <=> u \in admin
         /\ "gone" \in Access!Sources(u, x) <=> x # Null /\ row[x].kind = "none"
         /\ \A s \in Access!Role : s \in Access!Sources(u, x) <=> Access!RankOf(role[u]) >= Access!RankOf(s)
BY DEF Access!Sources, Access!Source, Access!Role

LEMMA SourcesSame ==
  ASSUME UNCHANGED Access!rows
  PROVE  \A u, x : Access!Sources(u, x)' = Access!Sources(u, x)
BY DEF Access!Sources, Access!IsOwn, Access!rows, Access!people

\* What row x is on, of rows f.
OnFits(f, x) ==
  /\ f[x].kind \in {"taskComment", "documentComment"} => f[x].on \in Content
  /\ f[x].kind = "issue" => f[x].on \in Content \cup {Null}
  /\ f[x].kind = "documentComment" => f[f[x].on].kind = "document"
  /\ f[x].kind \in {"taskComment", "issue"} /\ f[x].on # Null => f[f[x].on].kind = "task"
  /\ f[x].kind \in {"none", "task", "document"} => f[x].on = Null
  /\ f[x].author = Null <=> f[x].kind \in {"none", "task"}

LEMMA RowsOKIs ==
  ASSUME Access!NullApart
  PROVE  Access!RowsOK <=> row \in [Content -> Access!RowState] /\ \A x \in Content : OnFits(row, x)
<1> SUFFICES ASSUME row \in [Content -> Access!RowState]
             PROVE  Access!RowsOK <=> \A x \in Content : OnFits(row, x)
  BY DEF Access!RowsOK
<1>1. \A x \in Content : /\ row[x].kind \in {"none", "task", "document", "taskComment",
                                         "documentComment", "issue"}
                     /\ row[x].on \in Content \cup {Null} /\ Null \notin Content
  BY DEF Access!RowState, Access!NullApart
<1> QED BY <1>1 DEF Access!RowsOK, OnFits, Access!Rows

-----------------------------------------------------------------------------
LEMMA InitInv == ASSUME Access!NullApart, Access!Init PROVE ContributionInv
<1>1. Access!NoRequest \in Access!Asking
  BY DEF Access!NoRequest, Access!Asking, Access!Op, Access!OnProject
<1>2. Access!TypeOK
  BY <1>1 DEF Access!Init, Access!TypeOK, Access!RowsOK, Access!NoRequest
<1> QED
  BY <1>2
     DEF Access!Init, Access!NoRequest, ContributionInv, Access!RightsAreThose, Access!At

\* Rights that do not depend on what the tables hold.
LEMMA EntitledSame ==
  ASSUME asked'.op = asked.op
  PROVE  \A S : Access!Entitled(S)' <=> Access!Entitled(S)
BY DEF Access!Entitled

LEMMA TablesSame ==
  ASSUME Access!TypeOK, UNCHANGED Access!rows, asked' \in Access!Asking, asked'.row = Null => "gone" \notin asked'.held
  PROVE  Access!TypeOK'
BY DEF Access!TypeOK, Access!rows, Access!people, Access!RowsOK, Access!Rows

\* A step of the request that only reads keeps the invariant if what it has read is so.
LEMMA ReadStep ==
  ASSUME Access!NullApart, ContributionInv, UNCHANGED Access!rows, NEW h \in Access!Asking,
         asked' = h,
         h.pc \notin {"none", "done"}, Underway(h), h.row = Null => "gone" \notin h.held,
         h.op = asked.op \/ h.pc \notin {"task", "write"}
  PROVE  ContributionInv'
<1>1. Access!TypeOK'
  BY TablesSame DEF ContributionInv
<1>2. Subject(h)' /\ Course(h)' /\ OwnRead(h)'
  BY SourcesSame DEF Underway, Subject, Course, OwnRead, Access!About, Access!Rows, Access!rows
<1>3. RoleRead(h)'
  BY EntitledSame DEF Underway, RoleRead, Bounds
<1> QED BY <1>1, <1>2, <1>3 DEF ContributionInv, Underway, Access!RightsAreThose, Access!At

\* What an answer must tell.
Warranted(answer) ==
  /\ answer = "written" => Access!Entitled(asked.held)
  /\ answer = "refused" => ~Access!Entitled(asked.kept)
  /\ answer = "missing" => "gone" \in asked.held
  /\ answer = "unlisted" => ~({"live", "VIEWER"} \subseteq asked.kept)
  /\ answer \in Access!Role =>
       /\ Access!Standing(asked.kept) <= Access!RankOf(answer)
       /\ Access!RankOf(answer) <= Access!Standing(asked.held)

LEMMA AnswerTells ==
  ASSUME Access!NullApart, asked \in Access!Asking,
         NEW answer \in {"written", "refused", "missing", "unlisted"} \cup Access!Role,
         Warranted(answer), Access!Answer(answer)
  PROVE  asked' \in Access!Asking /\ Access!RightsAreThose' /\ asked'.pc = "done"
<1>1. /\ asked' \in Access!Asking /\ asked'.op = asked.op /\ asked'.pc = "done"
      /\ asked'.answer = answer /\ asked'.held = asked.held /\ asked'.kept = asked.kept
  BY DEF Access!Answer, Access!Asking
<1>2. asked.held \in SUBSET Access!Source /\ asked.kept \in SUBSET Access!Source
  BY DEF Access!Asking
<1>3. CASE answer \in Access!Role
  <2>1. /\ Access!RankOf(answer) \in 0 .. 4
        /\ Access!Standing(asked.kept) \in 0 .. 4 /\ Access!Standing(asked.held) \in 0 .. 4
    BY <1>2, <1>3, SourceRanks, StandingIs
  <2>2. Access!RankOf(answer) \in Access!Standing(asked.kept) .. Access!Standing(asked.held)
    BY <1>3, <2>1 DEF Warranted
  <2>3. answer \notin {"written", "refused", "missing", "unlisted"}
    BY <1>3 DEF Access!Role
  <2> QED BY <1>1, <2>2, <2>3 DEF Access!RightsAreThose
<1>4. CASE answer \notin Access!Role
  BY <1>1, <1>4, EntitledSame DEF Access!RightsAreThose, Warranted
<1> QED BY <1>1, <1>3, <1>4

LEMMA AnswerStep ==
  ASSUME Access!NullApart, ContributionInv, UNCHANGED Access!rows,
         NEW answer \in {"written", "refused", "missing", "unlisted"} \cup Access!Role,
         Warranted(answer), Access!Answer(answer)
  PROVE  ContributionInv'
<1>1. asked \in Access!Asking
  BY DEF ContributionInv, Access!TypeOK
<1>2. asked' \in Access!Asking /\ Access!RightsAreThose' /\ asked'.pc = "done"
  BY <1>1, AnswerTells
<1>3. asked'.row = asked.row /\ asked'.held = asked.held
  BY <1>1 DEF Access!Answer, Access!Asking
<1>4. Access!TypeOK'
  BY <1>2, <1>3, TablesSame DEF ContributionInv, Access!TypeOK
<1> QED BY <1>2, <1>4 DEF ContributionInv

-----------------------------------------------------------------------------
(***************************************************************************)
(* The reads of a request.                                                  *)
(***************************************************************************)
\* What is known of a request under way.
LEMMA AskedFacts ==
  ASSUME ContributionInv, asked.pc \notin {"none", "done"}
  PROVE  /\ Underway(asked) /\ asked \in Access!Asking /\ asked.user \in Writer
         /\ asked.row \in Content \cup {Null}
         /\ asked.kept \in SUBSET Access!Source /\ asked.held \in SUBSET Access!Source
         /\ asked.kept \subseteq Access!Sources(asked.user, asked.row)
         /\ Access!Sources(asked.user, asked.row) \subseteq asked.held
         /\ asked.row = Null => "gone" \notin asked.held
         /\ asked.own \in BOOLEAN /\ asked.role \in Access!Role \cup {Null}
BY DEF ContributionInv, Access!TypeOK, Access!Asking, Underway, Subject

LEMMA BeginStep == ASSUME Access!NullApart, ContributionInv, Access!Begin PROVE ContributionInv'
<1>0. PICK op \in Access!Op, u \in Writer : \E x \in Access!About(op) :
        asked' = [Access!NoRequest EXCEPT !.op = op, !.user = u, !.row = x,
         !.pc = CASE op = "getMyProjects" -> "list"
                  [] op \in Access!OnProject \ {"getMyProjects"} -> "role"
                  [] OTHER -> "row",
         !.on = IF op = "createIssue" THEN x ELSE Null,
         !.first = op = "createDocumentComment",
         !.held = Access!Sources(u, x), !.kept = Access!Sources(u, x)]
  BY DEF Access!Begin
<1>1. PICK x \in Access!About(op) :
        asked' = [Access!NoRequest EXCEPT !.op = op, !.user = u, !.row = x,
         !.pc = CASE op = "getMyProjects" -> "list"
                  [] op \in Access!OnProject \ {"getMyProjects"} -> "role"
                  [] OTHER -> "row",
         !.on = IF op = "createIssue" THEN x ELSE Null,
         !.first = op = "createDocumentComment",
         !.held = Access!Sources(u, x), !.kept = Access!Sources(u, x)]
  BY <1>0, Zenon
<1>2. PICK pc \in {"list", "role", "row"} :
        /\ pc = CASE op = "getMyProjects" -> "list"
                  [] op \in Access!OnProject \ {"getMyProjects"} -> "role"
                  [] OTHER -> "row"
        /\ pc = "row" => op \notin Access!OnProject
  BY DEF Access!OnProject
<1>3. PICK on \in Content \cup {Null} :
        on = (IF op = "createIssue" THEN x ELSE Null) /\ (op = "createIssue" => on = x)
  BY DEF Access!About, Access!Rows
<1>4. PICK first \in BOOLEAN : first = (op = "createDocumentComment")
  BY Zenon
<1>5. PICK h : h = [Access!NoRequest EXCEPT !.op = op, !.user = u, !.row = x, !.pc = pc, !.on = on,
                      !.first = first, !.held = Access!Sources(u, x), !.kept = Access!Sources(u, x)]
  OBVIOUS
<1>6. asked' = h
  BY <1>1, <1>2, <1>3, <1>4, <1>5, Zenon
<1>7. /\ h.op = op /\ h.user = u /\ h.row = x /\ h.pc = pc /\ h.on = on /\ h.first = first
      /\ h.held = Access!Sources(u, x) /\ h.kept = Access!Sources(u, x) /\ h.own = FALSE
  BY <1>5 DEF Access!NoRequest
<1>8. x \in Content \cup {Null}
  BY DEF Access!About, Access!Rows
<1>9. h \in Access!Asking
  BY <1>5, <1>8, SourceFacts DEF Access!NoRequest, Access!Asking
<1>10. Subject(h) /\ (h.row = Null => "gone" \notin h.held)
  BY <1>7, SourceFacts DEF Subject
<1>11. Course(h)
  BY <1>2, <1>3, <1>4, <1>7 DEF Course
<1>12. OwnRead(h)
  <2>1. CASE pc = "role"
    BY <1>2, <1>7, <2>1 DEF OwnRead, Access!OnProject
  <2>2. CASE pc # "role"
    BY <1>2, <1>7, <2>2 DEF OwnRead
  <2> QED BY <2>1, <2>2
<1>13. RoleRead(h)
  <2>1. Access!Standing(h.held) \in 0 .. 4
    BY <1>7, SourceFacts, StandingIs
  <2>2. h.role = Null /\ Access!RankOf(Null) = 0
    BY <1>5, SourceRanks DEF Access!NoRequest
  <2> QED BY <1>2, <1>7, <2>1, <2>2 DEF RoleRead
<1>14. UNCHANGED Access!rows
  BY DEF Access!Begin
<1> QED BY <1>2, <1>6, <1>7, <1>9, <1>10, <1>11, <1>12, <1>13, <1>14, ReadStep DEF Underway

LEMMA ReadRowStep ==
  ASSUME Access!NullApart, ContributionInv, Access!ReadRow
  PROVE  ContributionInv'
<1>1. UNCHANGED Access!rows /\ asked.pc = "row"
  BY DEF Access!ReadRow, Access!Reads, Access!At
<1>2. /\ asked \in Access!Asking /\ asked.row \in Content /\ Underway(asked)
      /\ asked.op \notin Access!OnProject
  BY <1>1, AskedFacts DEF Underway, Subject, Course, Access!About, Access!Rows, Access!Op
<1>3. CASE row[asked.row].kind = "none"
  <2>1. "gone" \in asked.held
    BY <1>1, <1>2, <1>3, AskedFacts, SourceFacts DEF Access!NullApart
  <2>2. Warranted("missing")
    BY <2>1 DEF Warranted, Access!Role
  <2> QED BY <1>1, <1>3, <2>2, AnswerStep DEF Access!ReadRow
<1>4. CASE row[asked.row].kind # "none"
  <2>1. PICK own \in BOOLEAN : own = Access!IsOwn(asked.row, asked.user)
    BY Zenon DEF Access!IsOwn
  <2>2. PICK pc \in {"write", "task", "role"} :
          /\ pc = CASE asked.op = "removeIssue" /\ own -> "write"
                    [] asked.op = "deleteComment" -> "task"
                    [] OTHER -> "role"
          /\ pc = "write" <=> asked.op = "removeIssue" /\ own
          /\ pc = "task" <=> asked.op = "deleteComment"
    OBVIOUS
  <2>3. PICK h : h = [asked EXCEPT !.own = own, !.on = row[asked.row].on, !.pc = pc]
    OBVIOUS
  <2>4. asked' = h
    BY <1>4, <2>1, <2>2, <2>3 DEF Access!ReadRow, Access!Goto
  <2>5. row[asked.row].on \in Content \cup {Null}
    BY <1>2 DEF ContributionInv, Access!TypeOK, Access!RowsOK, Access!RowState
  <2>6. /\ h \in Access!Asking /\ h.pc = pc /\ h.own = own /\ h.on = row[asked.row].on
        /\ h.op = asked.op /\ h.user = asked.user /\ h.row = asked.row
        /\ h.first = asked.first /\ h.held = asked.held /\ h.kept = asked.kept
    BY <1>2, <2>3, <2>5 DEF Access!Asking
  <2>7. Subject(h) /\ (h.row = Null => "gone" \notin h.held)
    BY <1>1, <2>6, AskedFacts DEF Underway, Subject
  <2>8. Course(h)
    BY <1>2, <2>2, <2>6 DEF Underway, Course, Access!NullApart, Access!OnProject
  <2>9. OwnRead(h)
    BY <1>1, <2>1, <2>2, <2>6, AskedFacts, SourceFacts DEF OwnRead
  <2>10. RoleRead(h)
    <3>1. pc = "write" => Access!Entitled(asked.held)
      BY <1>1, <2>1, <2>2, AskedFacts, SourceFacts DEF Access!Entitled, Access!OnComment
    <3> QED BY <2>2, <2>6, <3>1, <1>2 DEF RoleRead, Access!OnProject
  <2> QED BY <1>1, <2>2, <2>4, <2>6, <2>7, <2>8, <2>9, <2>10, ReadStep DEF Underway
<1> QED BY <1>3, <1>4

LEMMA ReadTaskStep ==
  ASSUME Access!NullApart, ContributionInv, Access!ReadTask
  PROVE  ContributionInv'
<1>1. UNCHANGED Access!rows /\ asked.pc = "task"
  BY DEF Access!ReadTask, Access!Reads, Access!At
<1>2. /\ asked \in Access!Asking /\ asked.row \in Content /\ Underway(asked)
      /\ asked.op \in {"deleteComment", "createIssue"}
  BY <1>1, AskedFacts DEF Underway, Course
<1>3. CASE row[asked.on].kind = "none"
  <2>1. row[asked.row].kind = "none"
    <3>1. CASE asked.op = "createIssue"
      BY <1>2, <1>3, <3>1 DEF Underway, Course
    <3>2. CASE asked.op = "deleteComment"
      <4>1. row[asked.row].kind \in {"taskComment", "none"}
        BY <1>2, <3>2
           DEF Underway, Subject, Access!About, Access!Rows, Access!OnTask, Access!OnDocument,
               Access!OnProject, Access!NullApart
      <4>2. row[asked.row].kind # "none" => row[asked.row].on = asked.on
        BY <1>1, <1>2, <3>2 DEF Underway, Course
      <4>3. OnFits(row, asked.row)
        BY <1>2, RowsOKIs DEF ContributionInv, Access!TypeOK
      <4> QED BY <1>2, <1>3, <4>1, <4>2, <4>3 DEF OnFits, Access!NullApart
    <3> QED BY <1>2, <3>1, <3>2
  <2>2. "gone" \in asked.held
    BY <1>1, <1>2, <2>1, AskedFacts, SourceFacts DEF Access!NullApart
  <2>3. Warranted("missing")
    BY <2>2 DEF Warranted, Access!Role
  <2> QED BY <1>1, <1>3, <2>3, AnswerStep DEF Access!ReadTask
<1>4. CASE row[asked.on].kind # "none"
  <2>1. PICK pc \in {"write", "role"} :
          /\ pc = IF asked.op = "createIssue" THEN "write" ELSE "role"
          /\ pc = "write" <=> asked.op = "createIssue"
    OBVIOUS
  <2>2. PICK h : h = [asked EXCEPT !.pc = pc]
    OBVIOUS
  <2>3. asked' = h
    BY <1>4, <2>1, <2>2 DEF Access!ReadTask, Access!Goto
  <2>4. /\ h \in Access!Asking /\ h.pc = pc /\ h.own = asked.own /\ h.on = asked.on
        /\ h.op = asked.op /\ h.user = asked.user /\ h.row = asked.row
        /\ h.first = asked.first /\ h.held = asked.held /\ h.kept = asked.kept
    BY <1>2, <2>2 DEF Access!Asking
  <2>5. Subject(h) /\ (h.row = Null => "gone" \notin h.held)
    BY <1>1, <2>4, AskedFacts DEF Underway, Subject
  <2>6. Course(h)
    BY <1>2, <2>1, <2>4 DEF Underway, Course
  <2>7. OwnRead(h)
    BY <1>1, <1>2, <2>1, <2>4 DEF Underway, OwnRead
  <2>8. RoleRead(h)
    BY <1>1, <1>2, <2>1, <2>4 DEF Underway, RoleRead
  <2> QED BY <1>1, <2>1, <2>3, <2>4, <2>5, <2>6, <2>7, <2>8, ReadStep DEF Underway
<1> QED BY <1>3, <1>4

\* A role read that is one of those held, and no less than any kept, is judged rightly.
LEMMA JudgeStep ==
  ASSUME Access!NullApart, ContributionInv, UNCHANGED Access!rows, asked.pc \in {"role", "admin"},
         NEW r \in Access!Role \cup {Null}, Access!Judge(r), "live" \in asked.held,
         Access!RankOf(r) <= Access!Standing(asked.held),
         Access!Standing(asked.kept) <= Access!RankOf(r)
  PROVE  ContributionInv'
<1>1. /\ Underway(asked) /\ asked \in Access!Asking
      /\ asked.kept \in SUBSET Access!Source /\ asked.held \in SUBSET Access!Source
      /\ asked.own \in BOOLEAN
      /\ asked.row = Null => "gone" \notin asked.held
  BY AskedFacts
<1>2. /\ "own" \in asked.kept => asked.own \/ asked.op \in Access!OnProject
      /\ asked.op = "removeIssue" => ~asked.own
      /\ asked.own => "own" \in asked.held
      /\ asked.first => asked.op = "createDocumentComment"
  BY <1>1 DEF Underway, OwnRead, Course
<1>3. \/ asked.first /\ Access!Goto([asked EXCEPT !.first = FALSE, !.role = Null], "role")
      \/ /\ ~asked.first /\ Access!Permits(asked.op, asked.own, r)
         /\ Access!Goto([asked EXCEPT !.role = r],
                 IF asked.op = "createIssue" /\ asked.row # Null THEN "task" ELSE "write")
      \/ /\ ~(asked.first /\ Access!RankOf(r) >= Access!RankOf("VIEWER"))
         /\ ~(~asked.first /\ Access!Permits(asked.op, asked.own, r))
         /\ Access!Answer("refused")
  BY DEF Access!Judge
<1>4. CASE asked.first /\ Access!Goto([asked EXCEPT !.first = FALSE, !.role = Null], "role")
  <2>1. PICK h : h = [asked EXCEPT !.first = FALSE, !.role = Null, !.pc = "role"]
    OBVIOUS
  <2>2. asked' = h
    BY <1>1, <1>4, <2>1 DEF Access!Goto, Access!Asking
  <2>3. /\ h \in Access!Asking /\ h.pc = "role" /\ h.own = asked.own /\ h.on = asked.on
        /\ h.op = asked.op /\ h.user = asked.user /\ h.row = asked.row
        /\ h.first = FALSE /\ h.held = asked.held /\ h.kept = asked.kept
    BY <1>1, <2>1 DEF Access!Asking
  <2>4. Subject(h) /\ Course(h) /\ OwnRead(h) /\ RoleRead(h)
    BY <1>1, <1>2, <2>3 DEF Underway, Subject, Course, OwnRead, RoleRead
  <2> QED BY <1>1, <2>2, <2>3, <2>4, ReadStep DEF Underway
<1>5. CASE /\ ~asked.first /\ Access!Permits(asked.op, asked.own, r)
           /\ Access!Goto([asked EXCEPT !.role = r],
                   IF asked.op = "createIssue" /\ asked.row # Null THEN "task" ELSE "write")
  <2>1. PICK pc \in {"task", "write"} :
          /\ pc = IF asked.op = "createIssue" /\ asked.row # Null THEN "task" ELSE "write"
          /\ pc = "task" => asked.op = "createIssue" /\ asked.row # Null
    OBVIOUS
  <2>2. PICK h : h = [asked EXCEPT !.role = r, !.pc = pc]
    OBVIOUS
  <2>3. asked' = h
    BY <1>1, <1>5, <2>1, <2>2 DEF Access!Goto, Access!Asking
  <2>4. /\ h \in Access!Asking /\ h.pc = pc /\ h.own = asked.own /\ h.on = asked.on
        /\ h.op = asked.op /\ h.user = asked.user /\ h.row = asked.row
        /\ h.first = asked.first /\ h.held = asked.held /\ h.kept = asked.kept
    BY <1>1, <2>2 DEF Access!Asking
  <2>5. Access!Entitled(asked.held)
    BY <1>1, <1>2, <1>5, PermittedEntitled
  <2>6. Subject(h) /\ RoleRead(h)
    BY <1>1, <2>1, <2>4, <2>5 DEF Underway, Subject, RoleRead
  <2>7. Course(h) /\ OwnRead(h)
    BY <1>1, <1>2, <2>1, <2>4 DEF Underway, Course, OwnRead, Access!OnProject
  <2> QED BY <1>1, <2>1, <2>3, <2>4, <2>6, <2>7, ReadStep DEF Underway
<1>6. CASE /\ ~(asked.first /\ Access!RankOf(r) >= Access!RankOf("VIEWER"))
           /\ ~(~asked.first /\ Access!Permits(asked.op, asked.own, r))
           /\ Access!Answer("refused")
  <2>1. ~Access!Permits(asked.op, asked.own, r)
    <3>1. CASE asked.first
      <4>1. Access!RankOf(r) \in 0 .. 4 /\ ~(Access!RankOf(r) >= 1) /\ Access!RankOf("MEMBER") = 2
        BY <1>6, <3>1, SourceRanks
      <4> QED BY <1>2, <3>1, <4>1 DEF Access!Permits, Access!OnComment
    <3>2. CASE ~asked.first
      BY <1>6, <3>2
    <3> QED BY <3>1, <3>2
  <2>2. ~Access!Entitled(asked.kept)
    BY <1>1, <1>2, <2>1, RefusedNotEntitled
  <2>3. Warranted("refused")
    BY <2>2 DEF Warranted, Access!Role
  <2> QED BY <1>6, <2>3, AnswerStep
<1> QED BY <1>3, <1>4, <1>5, <1>6

\* Standing is within the ranks of the roles, where no source stands above them.
LEMMA StandingWithin ==
  ASSUME Access!NullApart, NEW S \in SUBSET Access!Source, NEW r \in Access!Role \cup {Null},
         \A s \in S \cap Access!Role : Access!RankOf(s) <= Access!RankOf(r),
         S \cap {"owner", "admin"} # {} => Access!RankOf(r) = 4
  PROVE  Access!Standing(S) <= Access!RankOf(r)
<1>1. Access!RankOf(r) \in 0 .. 4
  BY SourceRanks
<1> QED BY <1>1, StandingIs

LEMMA ReadRoleStep ==
  ASSUME Access!NullApart, ContributionInv, Access!ReadRole
  PROVE  ContributionInv'
<1> DEFINE u == asked.user
           S == Access!Sources(asked.user, asked.row)
<1>1. UNCHANGED Access!rows /\ asked.pc = "role"
  BY DEF Access!ReadRole, Access!Reads, Access!At
<1>2. /\ Underway(asked) /\ asked \in Access!Asking /\ u \in Writer
      /\ asked.kept \in SUBSET Access!Source /\ asked.held \in SUBSET Access!Source
      /\ asked.kept \subseteq S /\ S \subseteq asked.held
      /\ asked.row = Null => "gone" \notin asked.held
  BY <1>1, AskedFacts
<1>3. role[u] \in Access!Role \cup {Null}
  BY <1>2 DEF ContributionInv, Access!TypeOK
<1>4. /\ "live" \in S <=> live
      /\ "owner" \in S <=> u = owner
      /\ \A s \in Access!Role : s \in S <=> Access!RankOf(role[u]) >= Access!RankOf(s)
  BY SourceFacts
<1>5. Access!RankOf(role[u]) \in 0 .. 4 /\ Access!RankOf(Null) = 0 /\ Access!RankOf("OWNER") = 4
  BY <1>3, SourceRanks
<1>6. Access!RankOf(role[u]) <= Access!Standing(asked.held)
  <2>1. Access!Standing(asked.held) \in 0 .. 4
    BY <1>2, StandingIs
  <2>2. CASE role[u] = Null
    BY <1>5, <2>1, <2>2
  <2>3. CASE role[u] \in Access!Role
    BY <1>2, <1>4, <1>5, <2>3, StandingIs
  <2> QED BY <1>3, <2>2, <2>3
<1>7. CASE ~live
  <2>1. "live" \notin asked.kept /\ ("own" \in asked.kept => asked.op # "removeIssue")
    BY <1>1, <1>2, <1>4, <1>7 DEF Underway, OwnRead, Access!OnProject
  <2>2. Warranted("refused")
    BY <2>1, NeedsTheProject DEF Warranted, Access!Role
  <2>3. Access!Answer("refused")
    BY <1>7 DEF Access!ReadRole
  <2> QED BY <1>1, <2>2, <2>3, AnswerStep
<1>8. CASE live /\ (u = owner \/ role[u] = "OWNER")
  <2>1. Access!Judge("OWNER")
    BY <1>8 DEF Access!ReadRole
  <2>2. Access!Standing(asked.held) = 4 /\ Access!Standing(asked.kept) \in 0 .. 4
    <3>1. CASE u = owner
      BY <1>2, <1>4, <3>1, StandingIs
    <3>2. CASE role[u] = "OWNER"
      BY <1>2, <1>5, <1>6, <3>2, StandingIs
    <3> QED BY <1>8, <3>1, <3>2
  <2>3. /\ "live" \in asked.held /\ "OWNER" \in Access!Role \cup {Null}
        /\ Access!RankOf("OWNER") <= Access!Standing(asked.held)
        /\ Access!Standing(asked.kept) <= Access!RankOf("OWNER")
    BY <1>2, <1>4, <1>5, <1>8, <2>2 DEF Access!Role
  <2> QED BY <1>1, <2>1, <2>3, JudgeStep
<1>9. CASE live /\ u # owner /\ role[u] # "OWNER"
  <2>1. PICK h : h = [asked EXCEPT !.role = role[u], !.pc = "admin"]
    OBVIOUS
  <2>2. asked' = h
    BY <1>2, <1>9, <2>1 DEF Access!ReadRole, Access!Goto, Access!Asking
  <2>3. /\ h \in Access!Asking /\ h.pc = "admin" /\ h.own = asked.own /\ h.on = asked.on
        /\ h.op = asked.op /\ h.user = asked.user /\ h.row = asked.row /\ h.role = role[u]
        /\ h.first = asked.first /\ h.held = asked.held /\ h.kept = asked.kept
    BY <1>2, <1>3, <2>1 DEF Access!Asking
  <2>4. Subject(h) /\ Course(h) /\ OwnRead(h)
    BY <1>1, <1>2, <2>3 DEF Underway, Subject, Course, OwnRead
  <2>5. RoleRead(h)
    BY <1>2, <1>4, <1>5, <1>6, <1>9, <2>3 DEF RoleRead, Bounds
  <2> QED BY <1>1, <1>2, <2>2, <2>3, <2>4, <2>5, ReadStep DEF Underway
<1> QED BY <1>7, <1>8, <1>9

LEMMA ReadAdminStep ==
  ASSUME Access!NullApart, ContributionInv, Access!ReadAdmin
  PROVE  ContributionInv'
<1> DEFINE S == Access!Sources(asked.user, asked.row)
<1>1. UNCHANGED Access!rows /\ asked.pc = "admin"
  BY DEF Access!ReadAdmin, Access!Reads, Access!At
<1>2. /\ asked.kept \in SUBSET Access!Source /\ asked.held \in SUBSET Access!Source
      /\ asked.kept \subseteq S /\ S \subseteq asked.held
      /\ "live" \in asked.held /\ Access!RankOf(asked.role) <= Access!Standing(asked.held)
      /\ "owner" \notin asked.kept /\ \A s \in asked.kept \cap Access!Role : Access!RankOf(s) <= Access!RankOf(asked.role)
      /\ asked.role \in Access!Role \cup {Null}
  BY <1>1, AskedFacts DEF Underway, RoleRead, Bounds
<1>3. "admin" \in S <=> asked.user \in admin
  BY SourceFacts
<1>4. CASE asked.user \in admin
  <2>1. Access!Standing(asked.held) = 4 /\ Access!Standing(asked.kept) \in 0 .. 4
    BY <1>2, <1>3, <1>4, StandingIs
  <2>2. Access!RankOf("OWNER") = 4 /\ "OWNER" \in Access!Role
    BY SourceRanks DEF Access!Role
  <2>3. Access!Judge("OWNER")
    BY <1>4 DEF Access!ReadAdmin
  <2> QED BY <1>1, <1>2, <2>1, <2>2, <2>3, JudgeStep
<1>5. CASE asked.user \notin admin
  <2>1. "admin" \notin asked.kept
    BY <1>2, <1>3, <1>5
  <2>2. Access!Standing(asked.kept) <= Access!RankOf(asked.role)
    BY <1>2, <2>1, StandingWithin
  <2>3. Access!Judge(asked.role)
    BY <1>5 DEF Access!ReadAdmin
  <2> QED BY <1>1, <1>2, <2>2, <2>3, JudgeStep
<1> QED BY <1>4, <1>5

LEMMA ReadMyProjectsStep ==
  ASSUME Access!NullApart, ContributionInv, Access!ReadMyProjects PROVE ContributionInv'
<1> DEFINE u == asked.user
           S == Access!Sources(asked.user, asked.row)
<1>1. UNCHANGED Access!rows /\ asked.pc = "list"
  BY DEF Access!ReadMyProjects, Access!Reads, Access!At
<1>2. /\ Underway(asked) /\ asked \in Access!Asking /\ u \in Writer
      /\ asked.held \in SUBSET Access!Source /\ asked.kept \subseteq S
      /\ asked.row = Null => "gone" \notin asked.held
  BY <1>1, AskedFacts
<1>3. /\ "live" \in S <=> live
      /\ "VIEWER" \in S <=> Access!RankOf(role[u]) >= Access!RankOf("VIEWER")
  BY SourceFacts DEF Access!Role
<1>4. CASE live /\ role[u] # Null
  <2>1. PICK h : h = [asked EXCEPT !.todo = {"memberships", "owned", "admin"}, !.pc = "roles"]
    OBVIOUS
  <2>2. asked' = h
    BY <1>2, <1>4, <2>1 DEF Access!ReadMyProjects, Access!Goto, Access!Asking
  <2>3. /\ h \in Access!Asking /\ h.pc = "roles" /\ h.own = asked.own /\ h.on = asked.on
        /\ h.op = asked.op /\ h.user = asked.user /\ h.row = asked.row /\ h.role = asked.role
        /\ h.first = asked.first /\ h.held = asked.held /\ h.kept = asked.kept
        /\ h.todo = {"memberships", "owned", "admin"}
    BY <1>2, <2>1 DEF Access!Asking
  <2>4. Subject(h) /\ Course(h) /\ OwnRead(h)
    BY <1>1, <1>2, <2>3 DEF Underway, Subject, Course, OwnRead
  <2>5. Access!RankOf(asked.role) <= Access!Standing(asked.held)
    BY <1>1, <1>2 DEF Underway, RoleRead
  <2>6. RoleRead(h)
    BY <2>3, <2>5 DEF RoleRead
  <2> QED BY <1>1, <1>2, <2>2, <2>3, <2>4, <2>6, ReadStep DEF Underway
<1>5. CASE ~(live /\ role[u] # Null)
  <2>1. ~({"live", "VIEWER"} \subseteq asked.kept)
    BY <1>2, <1>3, <1>5, SourceRanks
  <2>2. Warranted("unlisted")
    BY <2>1 DEF Warranted, Access!Role
  <2>3. Access!Answer("unlisted")
    BY <1>5 DEF Access!ReadMyProjects
  <2> QED BY <1>1, <2>2, <2>3, AnswerStep
<1> QED BY <1>4, <1>5

LEMMA ReadRolesStep ==
  ASSUME Access!NullApart, ContributionInv, NEW table \in {"memberships", "owned", "admin"},
         Access!ReadRoles(table)
  PROVE  ContributionInv'
<1> DEFINE u == asked.user
           S == Access!Sources(asked.user, asked.row)
<1>1. UNCHANGED Access!rows /\ asked.pc = "roles" /\ table \in asked.todo
  BY DEF Access!ReadRoles, Access!Reads, Access!At
<1>2. /\ Underway(asked) /\ asked \in Access!Asking /\ u \in Writer
      /\ asked.kept \in SUBSET Access!Source /\ asked.held \in SUBSET Access!Source
      /\ asked.kept \subseteq S /\ S \subseteq asked.held
      /\ asked.role \in Access!Role \cup {Null}
      /\ asked.row = Null => "gone" \notin asked.held
  BY <1>1, AskedFacts
<1>3. /\ Access!RankOf(asked.role) <= Access!Standing(asked.held)
      /\ "memberships" \notin asked.todo => Bounds(asked)
      /\ "owned" \notin asked.todo /\ "owner" \in asked.kept => Access!RankOf(asked.role) = 4
      /\ "admin" \notin asked.todo /\ "admin" \in asked.kept => Access!RankOf(asked.role) = 4
  BY <1>1, <1>2 DEF Underway, RoleRead
<1>4. /\ "owner" \in S <=> u = owner
      /\ "admin" \in S <=> u \in admin
      /\ \A s \in Access!Role : s \in S <=> Access!RankOf(role[u]) >= Access!RankOf(s)
  BY SourceFacts
<1>5. PICK read \in Access!Role \cup {Null} :
        /\ read = CASE table = "memberships" -> role[u]
                    [] table = "owned" -> IF u = owner THEN "OWNER" ELSE Null
                    [] table = "admin" -> IF u \in admin THEN "OWNER" ELSE Null
        /\ table = "memberships" => read = role[u]
        /\ table = "owned" => read = IF u = owner THEN "OWNER" ELSE Null
        /\ table = "admin" => read = IF u \in admin THEN "OWNER" ELSE Null
  <2>1. role[u] \in Access!Role \cup {Null}
    BY <1>2 DEF ContributionInv, Access!TypeOK
  <2> QED BY <2>1 DEF Access!Role
<1>6. PICK r \in Access!Role \cup {Null} :
        r = IF Access!RankOf(read) > Access!RankOf(asked.role) THEN read ELSE asked.role
  BY <1>2
<1>7. /\ Access!RankOf(read) \in 0 .. 4 /\ Access!RankOf(asked.role) \in 0 .. 4
      /\ Access!RankOf(r) \in 0 .. 4
      /\ Access!RankOf("OWNER") = 4 /\ Access!RankOf(Null) = 0
      /\ Access!Standing(asked.held) \in 0 .. 4
      /\ \A s \in Access!Role : Access!RankOf(s) \in 1 .. 4
  BY <1>2, SourceRanks, StandingIs
<1>8. Access!RankOf(r) >= Access!RankOf(read) /\ Access!RankOf(r) >= Access!RankOf(asked.role)
  BY <1>6, <1>7
<1>9. Access!RankOf(read) <= Access!Standing(asked.held)
  <2>1. CASE table = "memberships"
    <3>1. read \in Access!Role => read \in asked.held
      BY <1>2, <1>4, <1>5, <1>7, <2>1
    <3> QED BY <1>2, <1>7, <3>1, StandingIs
  <2>2. CASE table = "owned" /\ u = owner
    BY <1>2, <1>4, <1>7, <2>2, StandingIs
  <2>3. CASE table = "admin" /\ u \in admin
    BY <1>2, <1>4, <1>7, <2>3, StandingIs
  <2>4. CASE read = Null
    BY <1>7, <2>4
  <2> QED BY <1>5, <2>1, <2>2, <2>3, <2>4
<1>10. Access!RankOf(r) <= Access!Standing(asked.held)
  BY <1>3, <1>6, <1>9
<1>11. "memberships" \notin asked.todo \ {table} =>
         \A s \in asked.kept \cap Access!Role : Access!RankOf(s) <= Access!RankOf(r)
  <2>1. CASE table = "memberships"
    <3>1. \A s \in asked.kept \cap Access!Role : Access!RankOf(s) <= Access!RankOf(read)
      BY <1>2, <1>4, <1>5, <1>7, <2>1
    <3> QED BY <1>7, <1>8, <3>1
  <2>2. CASE table # "memberships"
    BY <1>3, <1>7, <1>8, <2>2 DEF Bounds
  <2> QED BY <2>1, <2>2
<1>12. "owned" \notin asked.todo \ {table} /\ "owner" \in asked.kept => Access!RankOf(r) = 4
  BY <1>2, <1>3, <1>4, <1>5, <1>7, <1>8
<1>13. "admin" \notin asked.todo \ {table} /\ "admin" \in asked.kept => Access!RankOf(r) = 4
  BY <1>2, <1>3, <1>4, <1>5, <1>7, <1>8
<1>14. CASE asked.todo # {table}
  <2>1. PICK h : h = [asked EXCEPT !.role = r, !.todo = asked.todo \ {table}]
    OBVIOUS
  <2>2. asked' = h
    BY <1>5, <1>6, <1>14, <2>1 DEF Access!ReadRoles
  <2>3. /\ h \in Access!Asking /\ h.pc = "roles" /\ h.own = asked.own /\ h.on = asked.on
        /\ h.op = asked.op /\ h.user = asked.user /\ h.row = asked.row /\ h.role = r
        /\ h.first = asked.first /\ h.held = asked.held /\ h.kept = asked.kept
        /\ h.todo = asked.todo \ {table}
    BY <1>1, <1>2, <2>1 DEF Access!Asking
  <2>4. Subject(h) /\ Course(h) /\ OwnRead(h)
    BY <1>1, <1>2, <2>3 DEF Underway, Subject, Course, OwnRead
  <2>5. RoleRead(h)
    BY <1>10, <1>11, <1>12, <1>13, <2>3 DEF RoleRead, Bounds
  <2> QED BY <1>1, <1>2, <2>2, <2>3, <2>4, <2>5, ReadStep DEF Underway
<1>15. CASE asked.todo = {table}
  <2>1. Access!Standing(asked.kept) <= Access!RankOf(r)
    BY <1>2, <1>11, <1>12, <1>13, <1>15, StandingWithin
  <2>2. PICK answer \in {"unlisted"} \cup Access!Role : answer = IF r = Null THEN "unlisted" ELSE r
    OBVIOUS
  <2>3. PICK h : h = [asked EXCEPT !.todo = {}, !.pc = "done", !.answer = answer]
    OBVIOUS
  <2>4. asked' = h
    BY <1>5, <1>6, <1>15, <2>2, <2>3 DEF Access!ReadRoles
  <2>5. /\ h \in Access!Asking /\ h.row = asked.row /\ h.pc = "done" /\ h.answer = answer
        /\ h.held = asked.held /\ h.kept = asked.kept /\ h.op = asked.op
    BY <1>2, <2>3 DEF Access!Asking
  <2>6. Access!TypeOK'
    BY <1>1, <1>2, <2>4, <2>5, TablesSame DEF ContributionInv
  <2>7. CASE r = Null
    <3>1. "VIEWER" \notin asked.kept
      BY <1>2, <1>7, <2>1, <2>7, StandingIs, SourceRanks
    <3> QED BY <2>2, <2>4, <2>5, <2>6, <2>7, <3>1
            DEF ContributionInv, Access!RightsAreThose, Access!NullApart, Access!Role
  <2>8. CASE r # Null
    <3>1. Access!RankOf(r) \in Access!Standing(asked.kept) .. Access!Standing(asked.held)
      BY <1>2, <1>7, <1>10, <2>1, StandingIs
    <3>2. answer = r /\ answer \notin {"written", "refused", "missing", "unlisted"}
      BY <2>2, <2>8 DEF Access!Role
    <3> QED BY <2>4, <2>5, <2>6, <3>1, <3>2 DEF ContributionInv, Access!RightsAreThose
  <2> QED BY <2>7, <2>8
<1> QED BY <1>14, <1>15

-----------------------------------------------------------------------------
(***************************************************************************)
(* The steps that write rows.                                               *)
(***************************************************************************)
LEMMA RowsOKNext ==
  ASSUME Access!NullApart, row' \in [Content -> Access!RowState],
         \A x \in Content : OnFits(row', x)
  PROVE  Access!RowsOK'
<1>1. \A x \in Content : /\ row'[x].kind \in {"none", "task", "document", "taskComment",
                                          "documentComment", "issue"}
                     /\ row'[x].on \in Content \cup {Null} /\ Null \notin Content
  BY DEF Access!RowState, Access!NullApart
<1> QED BY <1>1 DEF Access!RowsOK, OnFits, Access!Rows

\* What becomes of a row: it stays, or it goes; an issue may lose the task it is about.
Stays(y) ==
  \/ row'[y] = row[y]
  \/ row'[y] = Access!NoRow
  \/ row[y].kind = "issue" /\ row'[y].kind = "issue"

LEMMA DeleteKeeps ==
  ASSUME Access!NullApart, Access!TypeOK, NEW x \in Content, Access!Delete(x)
  PROVE  /\ Access!RowsOK' /\ assigned' \subseteq Access!Rows("task")' \X Writer
         /\ \A y \in Content : Stays(y)
<1>1. row \in [Content -> Access!RowState] /\ (\A y \in Content : OnFits(row, y)) /\ Null \notin Content
  BY RowsOKIs DEF Access!TypeOK, Access!NullApart
<1>2. row' = Access!Without(x) /\ Access!NoRow \in Access!RowState
  BY DEF Access!Delete, Access!NoRow, Access!RowState
<1>3. \A y \in Content :
        /\ y = x \/ (row[y].on = x /\ row[y].kind # "issue") => row'[y] = Access!NoRow
        /\ y # x /\ row[y].on = x /\ row[y].kind = "issue" =>
             row'[y] = [row[y] EXCEPT !.on = Null]
        /\ y # x /\ row[y].on # x => row'[y] = row[y]
  BY <1>2 DEF Access!Without
<1>4. \A y \in Content :
        row[y].kind = "issue" =>
          LET z == [row[y] EXCEPT !.on = Null] IN
          z \in Access!RowState /\ z.kind = "issue" /\ z.author = row[y].author /\ z.on = Null
  BY <1>1 DEF Access!RowState
<1>5. row' \in [Content -> Access!RowState]
  <2>1. \A y \in Content : row'[y] \in Access!RowState
    BY <1>1, <1>2, <1>3, <1>4
  <2>2. DOMAIN row' = Content /\ row' = [y \in Content |-> row'[y]]
    BY <1>2 DEF Access!Without
  <2> QED BY <2>1, <2>2
<1>6. \A y \in Content : y # x /\ row[y].kind \in {"task", "document"} => row'[y] = row[y]
  <2> SUFFICES ASSUME NEW y \in Content, y # x, row[y].kind \in {"task", "document"}
               PROVE  row'[y] = row[y]
    OBVIOUS
  <2>1. OnFits(row, y)
    BY <1>1
  <2>2. row[y].on # x
    BY <1>1, <2>1 DEF OnFits
  <2> QED BY <1>3, <2>2
<1>7. ASSUME NEW y \in Content
      PROVE  OnFits(row', y)
  <2>0. OnFits(row, y)
    BY <1>1
  <2>1. CASE row'[y] = Access!NoRow
    BY <2>1 DEF OnFits, Access!NoRow
  <2>2. CASE y # x /\ row[y].on # x
    <3>1. row'[y] = row[y]
      BY <1>3, <2>2
    <3>2. row[y].on \in Content /\ row[row[y].on].kind \in {"task", "document"} =>
            row'[row[y].on] = row[row[y].on]
      BY <1>6, <2>2
    <3> QED BY <2>0, <3>1, <3>2 DEF OnFits
  <2>3. CASE y # x /\ row[y].on = x /\ row[y].kind = "issue"
    <3>1. row'[y].kind = "issue" /\ row'[y].on = Null /\ row'[y].author = row[y].author
      BY <1>3, <1>4, <2>3
    <3> QED BY <2>0, <2>3, <3>1 DEF OnFits
  <2> QED BY <1>3, <2>1, <2>2, <2>3
<1>8. Access!RowsOK'
  BY <1>5, <1>7, RowsOKNext
<1>9. assigned' \subseteq Access!Rows("task")' \X Writer
  <2>1. assigned' = assigned \ ({x} \X Writer)
    BY DEF Access!Delete
  <2> QED BY <1>6, <2>1 DEF Access!TypeOK, Access!Rows
<1>10. \A y \in Content : Stays(y)
  BY <1>3, <1>4 DEF Stays
<1> QED BY <1>8, <1>9, <1>10

LEMMA InsertKeeps ==
  ASSUME Access!NullApart, Access!TypeOK,
         NEW kind \in {"document", "issue", "taskComment", "documentComment"},
         Access!Insert(kind), asked.user \in Writer,
         kind = "document" => asked.row = Null,
         kind = "issue" /\ asked.row # Null => asked.row \in Access!Rows("task"),
         kind = "taskComment" => asked.row \in Access!Rows("task"),
         kind = "documentComment" => asked.row \in Access!Rows("document"),
         asked.row \in Content \cup {Null}
  PROVE  Access!RowsOK' /\ assigned' \subseteq Access!Rows("task")' \X Writer
<1>1. row \in [Content -> Access!RowState] /\ (\A y \in Content : OnFits(row, y)) /\ Null \notin Content \cup Writer
  BY RowsOKIs DEF Access!TypeOK, Access!NullApart
<1>2. PICK x \in Access!Rows("none") :
        row' = [row EXCEPT ![x] = [kind |-> kind, author |-> asked.user, on |-> asked.row]]
  BY DEF Access!Insert
<1>3. x \in Content /\ row[x].kind = "none"
  BY <1>2 DEF Access!Rows
<1>4. PICK z : z = [kind |-> kind, author |-> asked.user, on |-> asked.row]
  OBVIOUS
<1>5. z \in Access!RowState /\ z.kind = kind /\ z.author = asked.user /\ z.on = asked.row
  BY <1>4 DEF Access!RowState
<1>6. /\ row' \in [Content -> Access!RowState] /\ row'[x] = z
      /\ \A y \in Content \ {x} : row'[y] = row[y]
  BY <1>1, <1>2, <1>3, <1>4, <1>5
<1>7. ASSUME NEW y \in Content
      PROVE  OnFits(row', y)
  <2>1. CASE y = x
    <3>1. asked.row # Null => asked.row # x /\ row'[asked.row] = row[asked.row]
      BY <1>3, <1>6 DEF Access!Rows
    <3> QED BY <1>1, <1>5, <1>6, <2>1, <3>1 DEF OnFits, Access!Rows
  <2>2. CASE y # x
    <3>1. row'[y] = row[y] /\ OnFits(row, y)
      BY <1>1, <1>6, <2>2
    <3>2. row[y].on \in Content /\ row[row[y].on].kind # "none" => row'[row[y].on] = row[row[y].on]
      BY <1>3, <1>6
    <3> QED BY <1>1, <3>1, <3>2 DEF OnFits, Access!RowState
  <2> QED BY <2>1, <2>2
<1>8. Access!RowsOK'
  BY <1>6, <1>7, RowsOKNext
<1>9. \A y \in Access!Rows("task") : y \in Access!Rows("task")'
  BY <1>3, <1>6 DEF Access!Rows
<1> QED BY <1>8, <1>9 DEF Access!TypeOK, Access!Insert

LEMMA WriteStep == ASSUME Access!NullApart, ContributionInv, Access!Write PROVE ContributionInv'
<1>1. UNCHANGED Access!people /\ asked.pc = "write" /\ UNCHANGED changes
  BY DEF Access!Write, Access!At
<1>2. /\ Underway(asked) /\ asked \in Access!Asking /\ asked.user \in Writer
      /\ asked.row \in Content \cup {Null} /\ Access!TypeOK /\ Access!Entitled(asked.held)
      /\ Access!Sources(asked.user, asked.row) \subseteq asked.held
  BY <1>1, AskedFacts DEF ContributionInv, Underway, RoleRead
<1>3. CASE asked.row # Null /\ row[asked.row].kind = "none"
  <2>1. "gone" \in asked.held
    BY <1>2, <1>3, SourceFacts
  <2>2. Warranted("missing")
    BY <2>1 DEF Warranted, Access!Role
  <2>3. Access!Answer("missing") /\ UNCHANGED Access!rows
    BY <1>1, <1>3 DEF Access!Write, Access!rows
  <2> QED BY <2>2, <2>3, AnswerStep
<1>4. CASE ~(asked.row # Null /\ row[asked.row].kind = "none")
  <2>1. Access!Answer("written") /\ Warranted("written")
    BY <1>2, <1>4 DEF Access!Write, Warranted, Access!Role
  <2>2. asked' \in Access!Asking /\ Access!RightsAreThose' /\ asked'.pc = "done"
    BY <1>2, <2>1, AnswerTells
  <2>3. asked'.row = asked.row /\ asked'.held = asked.held
    BY <1>2, <2>1 DEF Access!Answer, Access!Asking
  <2>4. asked.row \in Access!About(asked.op)
    BY <1>2, <1>4 DEF Underway, Subject, Access!NullApart
  <2>5. Access!RowsOK' /\ assigned' \subseteq Access!Rows("task")' \X Writer
    <3>1. CASE asked.op = "createDocument" /\ Access!Insert("document")
      <4>1. asked.row = Null
        BY <2>4, <3>1 DEF Access!About, Access!OnTask, Access!OnDocument, Access!OnProject
      <4> QED BY <1>2, <3>1, <4>1, InsertKeeps
    <3>2. CASE asked.op = "createIssue" /\ Access!Insert("issue")
      <4>1. asked.row = Null \/ asked.row \in Access!Rows("task")
        BY <2>4, <3>2 DEF Access!About, Access!OnTask, Access!OnDocument, Access!OnProject
      <4> QED BY <1>2, <3>2, <4>1, InsertKeeps
    <3>3. CASE asked.op = "createComment" /\ Access!Insert("taskComment")
      <4>1. asked.row \in Access!Rows("task")
        BY <2>4, <3>3 DEF Access!About, Access!OnTask, Access!OnDocument, Access!OnProject
      <4> QED BY <1>2, <3>3, <4>1, InsertKeeps
    <3>4. CASE asked.op = "createDocumentComment" /\ Access!Insert("documentComment")
      <4>1. asked.row \in Access!Rows("document")
        BY <2>4, <3>4 DEF Access!About, Access!OnTask, Access!OnDocument, Access!OnProject
      <4> QED BY <1>2, <3>4, <4>1, InsertKeeps
    <3>5. CASE /\ asked.op \in Access!OnComment \cup {"deleteDocument", "removeIssue"}
               /\ Access!Delete(asked.row)
      <4>1. asked.row \in Content
        BY <2>4, <3>5
           DEF Access!About, Access!OnTask, Access!OnDocument, Access!OnProject,
               Access!OnComment, Access!Rows
      <4> QED BY <1>2, <3>5, <4>1, DeleteKeeps
    <3>6. CASE UNCHANGED <<row, assigned>>
      BY <1>2, <3>6 DEF Access!TypeOK, Access!RowsOK, Access!Rows
    <3> QED BY <1>4, <3>1, <3>2, <3>3, <3>4, <3>5, <3>6 DEF Access!Write, Access!Created
  <2>6. Access!TypeOK'
    BY <1>1, <1>2, <2>2, <2>3, <2>5 DEF Access!TypeOK, Access!people
  <2> QED BY <2>2, <2>6 DEF ContributionInv
<1> QED BY <1>3, <1>4

-----------------------------------------------------------------------------
(***************************************************************************)
(* What others change: what was held stays held, what is kept only shrinks. *)
(***************************************************************************)
LEMMA ChangeStep ==
  ASSUME Access!NullApart, ContributionInv, Access!Change,
         Access!RowsOK', assigned' \subseteq Access!Rows("task")' \X Writer,
         \A y \in Content : Stays(y),
         live' \in BOOLEAN, owner' \in Writer, admin' \subseteq Writer,
         role' \in [Writer -> Access!Role \cup {Null}]
  PROVE  ContributionInv'
<1>0. asked.pc \notin {"none", "done"}
  BY DEF Access!Change
<1>1. /\ Underway(asked) /\ asked \in Access!Asking /\ asked.row \in Content \cup {Null}
      /\ asked.kept \in SUBSET Access!Source /\ asked.held \in SUBSET Access!Source
      /\ asked.row = Null => "gone" \notin asked.held
  BY <1>0, AskedFacts
<1>2. PICK u, x :
        /\ u = asked.user /\ x = asked.row
        /\ asked' = [asked EXCEPT !.held = @ \cup Access!Sources(u, x)', !.kept = @ \cap Access!Sources(u, x)']
  BY DEF Access!Change
<1>3. PICK now : now = Access!Sources(u, x)'
  OBVIOUS
<1>4. now \in SUBSET Access!Source /\ (x = Null => "gone" \notin now)
  BY <1>3 DEF Access!Sources
<1>5. PICK h : h = [asked EXCEPT !.held = asked.held \cup now, !.kept = asked.kept \cap now]
  OBVIOUS
<1>6. asked' = h
  BY <1>2, <1>3, <1>5
<1>7. /\ h \in Access!Asking /\ h.pc = asked.pc /\ h.own = asked.own /\ h.on = asked.on
      /\ h.op = asked.op /\ h.user = u /\ h.row = x /\ h.role = asked.role
      /\ h.first = asked.first /\ h.todo = asked.todo
      /\ h.held = asked.held \cup now /\ h.kept = asked.kept \cap now
  BY <1>1, <1>2, <1>4, <1>5 DEF Access!Asking
<1>8. Access!TypeOK'
  BY <1>1, <1>2, <1>4, <1>6, <1>7 DEF Access!TypeOK
<1>9. Subject(h)'
  <2>1. u \in Writer /\ now \subseteq h.held /\ h.kept \subseteq now
    BY <1>1, <1>2, <1>7 DEF Underway, Subject
  <2>2. x \in Content =>
          row'[x].kind = "none" \/ row'[x].kind = row[x].kind
    BY DEF Stays, Access!NoRow
  <2>3. x \in Access!About(h.op) \/ (x \in Content /\ row[x].kind = "none")
    BY <1>1, <1>2, <1>7 DEF Underway, Subject
  <2>4. x \in Access!About(h.op)' \/ (x \in Content /\ row'[x].kind = "none")
    <3>1. CASE x = Null /\ x \notin Content
      BY <2>3, <3>1 DEF Access!About, Access!Rows
    <3>2. CASE x \in Content /\ row'[x].kind = row[x].kind
      BY <2>3, <3>2 DEF Access!About, Access!Rows
    <3> QED BY <1>1, <1>2, <2>2, <3>1, <3>2 DEF Access!NullApart
  <2> QED BY <1>3, <1>7, <2>1, <2>4 DEF Subject
<1>10. Course(h)'
  <2>1. h.pc = "task" /\ h.op = "deleteComment" /\ row'[x].kind # "none" => row'[x].on = h.on
    <3> SUFFICES ASSUME h.pc = "task", h.op = "deleteComment", row'[x].kind # "none"
                 PROVE  row'[x].on = h.on
      OBVIOUS
    <3>1. x \in Content
      BY <1>1, <1>2, <1>7 DEF Underway, Course
    <3>2. row[x].kind \in {"none", "taskComment"}
      BY <1>1, <1>2, <1>7, <3>1
         DEF Underway, Subject, Access!About, Access!Rows, Access!OnTask, Access!OnDocument,
             Access!OnProject, Access!NullApart
    <3>3. row'[x] = row[x]
      BY <3>1, <3>2 DEF Stays, Access!NoRow
    <3> QED BY <1>1, <1>2, <1>7, <3>3 DEF Underway, Course
  <2> QED BY <1>1, <1>2, <1>7, <2>1 DEF Underway, Course
<1>11. OwnRead(h)'
  BY <1>1, <1>7 DEF Underway, OwnRead
<1>12. RoleRead(h)'
  <2>1. /\ h.held \in SUBSET Access!Source /\ asked.held \subseteq h.held
        /\ h.kept \subseteq asked.kept
    BY <1>1, <1>4, <1>7
  <2>2. /\ Access!Standing(asked.held) \in 0 .. 4 /\ Access!Standing(h.held) \in 0 .. 4
        /\ Access!Standing(asked.held) <= Access!Standing(h.held)
        /\ Access!RankOf(asked.role) \in 0 .. 4
    BY <1>1, <2>1, StandingGrows, StandingIs, AskedFacts, <1>0, SourceRanks
  <2>3. Access!Entitled(asked.held) => Access!Entitled(h.held)'
    <3>1. Access!Entitled(asked.held) => Access!Entitled(h.held)
      BY <1>1, <2>1, EntitledGrows
    <3> QED BY <1>6, <1>7, <3>1, EntitledSame
  <2>4. Bounds(asked) => Bounds(h)
    BY <1>7, <2>1 DEF Bounds
  <2> QED BY <1>1, <1>7, <2>1, <2>2, <2>3, <2>4 DEF Underway, RoleRead, Bounds
<1> QED BY <1>0, <1>6, <1>7, <1>8, <1>9, <1>10, <1>11, <1>12
        DEF ContributionInv, Underway, Access!RightsAreThose, Access!At

LEMMA OthersStep ==
  ASSUME Access!NullApart, ContributionInv, Access!Others
  PROVE  ContributionInv'
<1>1. Access!TypeOK /\ Access!Change
  BY DEF ContributionInv, Access!Others
<1>2. CASE UNCHANGED <<row, assigned>>
  <2>1. Access!RowsOK' /\ assigned' \subseteq Access!Rows("task")' \X Writer /\ \A y \in Content : Stays(y)
    BY <1>1, <1>2 DEF Access!TypeOK, Access!RowsOK, Access!Rows, Stays
  <2>2. /\ live' \in BOOLEAN /\ owner' \in Writer /\ admin' \subseteq Writer
        /\ role' \in [Writer -> Access!Role \cup {Null}]
    <3>1. CASE Access!Transferred
      BY <1>1, <3>1 DEF Access!Transferred, Access!TypeOK
    <3>2. CASE Access!MemberChanged
      BY <1>1, <3>2 DEF Access!MemberChanged, Access!TypeOK
    <3>3. CASE Access!AdminChanged
      BY <1>1, <3>3 DEF Access!AdminChanged, Access!TypeOK
    <3>4. CASE Access!TrashedOrRestored
      BY <1>1, <3>4 DEF Access!TrashedOrRestored, Access!TypeOK
    <3>5. CASE UNCHANGED Access!people
      BY <1>1, <3>5 DEF Access!people, Access!TypeOK
    <3> QED
      BY <3>1, <3>2, <3>3, <3>4, <3>5
         DEF Access!Others, Access!AssigneesChanged, Access!Deleted
  <2> QED BY <1>1, <2>1, <2>2, ChangeStep
<1>3. CASE Access!AssigneesChanged
  <2>1. UNCHANGED <<live, owner, role, admin, row>>
    BY <1>3 DEF Access!AssigneesChanged, Access!people
  <2>2. assigned' \subseteq Access!Rows("task") \X Writer
    BY <1>1, <1>3 DEF Access!AssigneesChanged, Access!TypeOK
  <2>3. Access!RowsOK' /\ assigned' \subseteq Access!Rows("task")' \X Writer /\ \A y \in Content : Stays(y)
    BY <1>1, <2>1, <2>2 DEF Access!TypeOK, Access!RowsOK, Access!Rows, Stays
  <2> QED BY <1>1, <2>1, <2>3, ChangeStep DEF Access!TypeOK
<1>4. CASE Access!Deleted
  <2>1. UNCHANGED <<live, owner, role, admin>>
    BY <1>4 DEF Access!Deleted, Access!people
  <2>2. Access!RowsOK' /\ assigned' \subseteq Access!Rows("task")' \X Writer /\ \A y \in Content : Stays(y)
    BY <1>1, <1>4, DeleteKeeps DEF Access!Deleted
  <2> QED BY <1>1, <2>1, <2>2, ChangeStep DEF Access!TypeOK
<1> QED BY <1>2, <1>3, <1>4
        DEF Access!Others, Access!Transferred, Access!MemberChanged, Access!AdminChanged,
            Access!TrashedOrRestored

-----------------------------------------------------------------------------
LEMMA NextInv ==
  ASSUME Access!NullApart, ContributionInv, [Access!Next]_Access!vars
  PROVE  ContributionInv'
<1>1. CASE UNCHANGED Access!vars
  <2>1. UNCHANGED Access!rows /\ asked' = asked
    BY <1>1 DEF Access!vars
  <2>2. CASE asked.pc \in {"none", "done"}
    <3>1. Access!TypeOK'
      BY <2>1, TablesSame DEF ContributionInv, Access!TypeOK
    <3>2. Access!RightsAreThose'
      BY <2>1 DEF ContributionInv, Access!RightsAreThose, Access!At, Access!Entitled
    <3> QED BY <2>1, <2>2, <3>1, <3>2 DEF ContributionInv
  <2>3. CASE asked.pc \notin {"none", "done"}
    <3>1. PICK h : h = asked
      OBVIOUS
    <3>2. Underway(h) /\ h \in Access!Asking /\ (h.row = Null => "gone" \notin h.held)
      BY <2>3, <3>1, AskedFacts
    <3> QED BY <2>1, <2>3, <3>1, <3>2, ReadStep
  <2> QED BY <2>2, <2>3
<1>2. CASE Access!Next
  BY <1>2, BeginStep, ReadRowStep, ReadTaskStep, ReadRoleStep, ReadAdminStep,
     ReadMyProjectsStep, ReadRolesStep, WriteStep, OthersStep DEF Access!Next
<1> QED BY <1>1, <1>2

\* Whatever others change while the access checks of ProjectAccessService read one table
\* after the other, a request writes only by rights its user had meanwhile, is refused only
\* to a user not entitled all the time, and a list shows a role the user had: for any number
\* of users, rows and changes.
THEOREM RightsHold == Access!Spec => []RightsAreThose
<1>1. Access!Init => ContributionInv
  BY InitInv, WritersAssumption
<1>2. ContributionInv /\ [Access!Next]_Access!vars => ContributionInv'
  BY NextInv, WritersAssumption
<1>3. ContributionInv => RightsAreThose
  BY DEF ContributionInv, RightsAreThose
<1> QED BY <1>1, <1>2, <1>3, PTL DEF Access!Spec
=============================================================================
