----------------------------- MODULE Invitations -----------------------------
(***************************************************************************)
(* Invitations to a project by name: InvitationService, composed with the   *)
(* members and the trash of the project, and what holds of the whole.       *)
(***************************************************************************)
EXTENDS ProjectMembers

\* A manager invites an address to a role below its own.
BeginInvite(r) ==
  /\ \E u, v \in User, role \in Offered :
       /\ Requires(u, "ADMIN")
       /\ Outranks(EffectiveRole(project, member, u), role)
       /\ Accept(r, [Resting EXCEPT !.op = "invite", !.pc = "existing", !.actor = u,
                                    !.target = v, !.role = role])
  /\ UNCHANGED <<rows, displaced>>

\* The account whose address was invited follows the link while it is valid; nothing
\* asks whether the project is in the trash.
Usable(i) == invitation[i].status = "PENDING" /\ ~invitation[i].expired

BeginAccept(r) ==
  /\ \E i \in Invitation :
       /\ Usable(i)
       /\ Accept(r, [Resting EXCEPT !.op = "accept", !.pc = "existing",
                       !.actor = invitation[i].email, !.target = invitation[i].email,
                       !.role = invitation[i].role, !.invitation = i])
  /\ UNCHANGED <<rows, displaced>>

BeginRevoke(r) ==
  /\ \E u \in User, i \in Invitation :
       /\ Requires(u, "ADMIN")
       /\ invitation[i].status # "none"
       /\ Accept(r, [Resting EXCEPT !.op = "revoke", !.pc = "target", !.actor = u,
                                    !.invitation = i])
  /\ UNCHANGED <<rows, displaced>>

\* A pending invitation of the same address is replaced: one updateMany, then a create.
Replaced(i, v) == invitation[i].status = "PENDING" /\ invitation[i].email = v

RevokePending(r) ==
  LET v == req[r].target IN
  /\ At(r, "replace")
  /\ invitation' = [i \in Invitation |->
       IF Replaced(i, v) THEN [invitation[i] EXCEPT !.status = "REVOKED"] ELSE invitation[i]]
  /\ UNCHANGED <<project, member, displaced>>
  /\ Commit(r, [req[r] EXCEPT !.pc = "write"])

CreateInvitation(r) ==
  LET h == req[r] IN
  /\ Writes(r, {"invite"})
  /\ \E i \in Invitation :
       /\ invitation[i].status = "none"
       /\ invitation' = [invitation EXCEPT ![i] =
            [status |-> "PENDING", email |-> h.target, role |-> h.role, expired |-> FALSE]]
  /\ UNCHANGED <<project, member, displaced>>
  /\ Commit(r, Resting)

SetStatus(i, status) == invitation' = [invitation EXCEPT ![i].status = status]

\* The reader is a member already: its invitation has served, unless it was purged.
Settle(r) ==
  LET i == req[r].invitation IN
  /\ At(r, "settle")
  /\ IF invitation[i].status # "none" THEN SetStatus(i, "ACCEPTED")
     ELSE UNCHANGED invitation
  /\ UNCHANGED <<project, member, displaced>>
  /\ Commit(r, Resting)

\* One transaction: the member's row and the end of the invitation.
Admission_InvitationOnly(m, u, role) == m
Admission(m, u, role) == [m EXCEPT ![u] = role]

Admit(r) ==
  LET h == req[r] IN
  /\ Writes(r, {"accept"})
  /\ member' = Admission(member, h.target, h.role)
  /\ SetStatus(h.invitation, "ACCEPTED")
  /\ UNCHANGED <<project, displaced>>
  /\ Commit(r, Resting)

Revoke(r) ==
  /\ Writes(r, {"revoke"})
  /\ SetStatus(req[r].invitation, "REVOKED")
  /\ UNCHANGED <<project, member, displaced>>
  /\ Commit(r, Resting)

\* Seven days pass.
InvitationExpires ==
  /\ \E i \in Invitation :
       /\ invitation[i].status = "PENDING" /\ ~invitation[i].expired
       /\ invitation' = [invitation EXCEPT ![i].expired = TRUE]
  /\ UNCHANGED <<project, member, req, displaced>>

InvitationStep(r) ==
  \/ BeginInvite(r) \/ BeginAccept(r) \/ BeginRevoke(r) \/ RevokePending(r)
  \/ CreateInvitation(r) \/ Settle(r) \/ Admit(r) \/ Revoke(r)

Next ==
  \/ \E r \in Request : MemberStep(r) \/ InvitationStep(r)
  \/ ProjectStep
  \/ InvitationExpires

Spec == Init /\ [][Next]_vars

-----------------------------------------------------------------------------
(***************************************************************************)
(* What holds however the handlers interleave.                              *)
(***************************************************************************)

\* A row says OWNER only for the owner, or for one whom somebody else's transfer
\* replaced (a global administrator's, or a second transfer begun before the first was
\* committed): the transaction demotes its actor and not the owner it replaces.
SoleOwner ==
  \A u \in User : member[u] = "OWNER" => u = project.owner \/ u \in displaced

\* A deletion is total: nothing that was under way when the project was purged leaves a
\* member or an invitation behind.
PurgeIsTotal ==
  project.state = "purged" =>
    /\ \A u \in User : member[u] = Null
    /\ \A i \in Invitation : invitation[i] = NoInvitation

\* ProjectService.purgeProjectNow, and the tables it leaves behind.
MembershipWellFormed == TypeOK /\ PurgeIsTotal

\* The valid links of one address do not pile up: never more than handlers at once, which
\* is one when requests are served one at a time.  An invitation about to be created counts.
Pending(v) == {i \in Invitation : invitation[i].status = "PENDING" /\ invitation[i].email = v}
Inviting(v) ==
  {r \in Request : At(r, "write") /\ req[r].op = "invite" /\ req[r].target = v}
PendingBounded ==
  \A v \in User : Cardinality(Pending(v)) + Cardinality(Inviting(v)) <= Cardinality(Request)

-----------------------------------------------------------------------------
(***************************************************************************)
(* What a step may not do, unless what its handler read had changed by then *)
(***************************************************************************)
Writing(r) == req[r].op # "none" /\ req'[r] = Resting
Excused(r) == Writing(r) /\ req[r].stale

\* Nobody loses standing but to somebody above it, or by its own transfer; nobody gains
\* standing but from somebody above what it gets, from the owner's transfer, by a link
\* open to all (as MEMBER) or by an invitation to that role.
Above(u, role) == RankOf(EffectiveRole(project, member, u)) > RankOf(role)
Loses(u) == RankOf(member'[u]) < RankOf(member[u])
Gains(u) == RankOf(member'[u]) > RankOf(member[u])
TakenBy(h, u) == Above(h.actor, member[u]) \/ h.actor = u
GrantedBy(h, u) ==
  \/ Above(h.actor, member'[u])
  \/ member'[u] = "OWNER" /\ EffectiveRole(project, member, h.actor) = "OWNER"
  \/ h.actor = u /\ member'[u] = "MEMBER"
  \/ \E i \in Invitation :
       <<invitation[i].status, invitation[i].email, invitation[i].role>> =
         <<"PENDING", u, member'[u]>>
RanksRespected ==
  [][project.state # "none" /\ project'.state # "purged" =>
       \A u \in User :
         /\ Loses(u) => \E r \in Request :
              Writing(r) /\ (req[r].stale \/ TakenBy(req[r], u))
         /\ Gains(u) => \E r \in Request :
              Writing(r) /\ (req[r].stale \/ GrantedBy(req[r], u))]_vars

\* A live project is never purged; only one restored between the read and the delete of
\* purgeProjectNow is.  A project leaves the trash for good after its 30 days, or by the
\* hand of who owns it.
NoLivePurge ==
  [][project'.state = "purged" /\ project.state # "purged" =>
       \/ \E r \in Request : Excused(r)
       \/ /\ project.state = "trashed"
          /\ \/ project.overdue
             \/ \E r \in Request :
                  /\ Writing(r)
                  /\ req[r].actor \in GlobalAdmin \cup {project.owner}]_vars

\* An invitation is used once, while pending, by the account it names, which is then a
\* member; one that was revoked or used stays so.
InvitationOutcome ==
  [][\A i \in Invitation :
       LET before == invitation[i].status  after == invitation'[i].status IN
       before # after /\ after # "none" /\ before # "none" =>
         \/ \E r \in Request : Excused(r)
         \/ /\ before = "PENDING"
            /\ after = "ACCEPTED" => member'[invitation[i].email] # Null]_vars

\* InvitationService: the links of one address do not pile up, and each has one outcome.
InvitationsHold == []PendingBounded /\ InvitationOutcome

-----------------------------------------------------------------------------
\* What the comment in removeMember says: the owner is never removed.
OwnerIsMember == Exists => member[project.owner] # Null
=============================================================================
