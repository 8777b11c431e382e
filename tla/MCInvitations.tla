---------------------------- MODULE MCInvitations ----------------------------
(***************************************************************************)
(* Instances of Invitations: each is Next with fewer operations called and  *)
(* fewer people involved at a time.  In one more, people write on a project  *)
(* by the roles they have, which module Contributions models apart.          *)
(***************************************************************************)
EXTENDS Invitations, TLC

CONSTANTS FirstInvitation, Writer, Content

VARIABLES instance,
          live, owner, role, admin, row, assigned, asked, changes
written == <<live, owner, role, admin, row, assigned, asked, changes>>
MCVars == <<vars, instance, written>>

Access == INSTANCE Contributions WITH User <- Writer, Row <- Content, Changes <- 2
ASSUME WritersAssumption == Access!NullApart

\* Users of the same global role and handlers are interchangeable; of the
\* two invitations one is always the first.
Symmetry == Permutations(User \ GlobalAdmin) \cup Permutations(Request)

AnyClient == Op
Trash == {"deleteProject", "restoreProject", "purgeProjectNow"}
Calls ==
  CASE instance = "members" ->
         {"joinProject", "removeMember", "updateMemberRole"}
    [] instance = "transfers" -> {"joinProject", "removeMember", "transferOwnership"}
    [] instance = "owners" -> Trash \cup {"addMember", "transferOwnership"}
    [] instance = "invitations" ->
         {"deleteProject", "purgeProjectNow", "invite", "accept", "revoke", "removeMember"}
    [] OTHER -> {}

\* Whom a row or a handler names after the step.
Involved ==
  {u \in User : \/ u \in displaced' \cup {project'.owner} \/ member'[u] # Null
                \/ \E i \in Invitation : invitation'[i].email = u
                \/ \E r \in Request : u \in {req'[r].actor, req'[r].target}}

Bounded ==
  /\ \A r \in Request : req'[r].op \in Calls \cup {"none"}
  /\ \A i \in Invitation :
       invitation'[i] # NoInvitation => invitation'[FirstInvitation] # NoInvitation
  /\ instance \in {"owners", "invitations"} =>
       /\ Cardinality(Involved \ GlobalAdmin) <= 2
       /\ \A r \in Request : req'[r].op \in {"addMember", "invite"} => req'[r].role = "ADMIN"
  /\ instance # "owners" => Involved \cap GlobalAdmin = {}

\* One user writes; of the others, who is the owner and an author is all that matters.
Actor == CHOOSE u \in Writer : TRUE
Idle(u) ==
  role[u] = Null /\ u \notin admin /\ \A x \in Content : <<x, u>> \notin assigned
WritingInit ==
  /\ Access!Init
  /\ \A u \in Writer \ {Actor} : Idle(u)
  /\ instance # "writing" =>
       ~live /\ owner = Actor /\ Idle(Actor) /\ Access!Rows("none") = Content

\* One request, and no row but the one it is about and what that is on.  What changes before
\* its first read or after its last, deletions aside, is no matter: its rights are those it
\* would have without.  A second change comes where the request reads most.
WritingInTime ==
  /\ asked.pc # "done"
  /\ asked.pc = "none" =>
       /\ asked'.user = Actor
       /\ IF asked'.row = Null THEN Access!Rows("none") = Content
          ELSE \A x \in Content : row[x].kind # "none" => x \in {asked'.row, row[asked'.row].on}
  /\ \A u \in Writer \ {Actor} : Idle(u)'
  /\ changes' > changes /\ row' = row =>
       /\ asked.pc \notin {"row", "list", "write"}
       /\ asked.pc = "role" => asked.op \notin Access!OnProject
  /\ changes' = 2 => asked.op \in {"updateTask", "getMyProjects"}

MCInit(instances) == Init /\ instance \in instances /\ WritingInit
MCNext ==
  /\ UNCHANGED instance
  /\ \/ instance # "writing" /\ Next /\ Bounded /\ UNCHANGED written
     \/ instance = "writing" /\ Access!Next /\ WritingInTime /\ UNCHANGED vars
MCSpec ==
  /\ MCInit({"members", "transfers", "owners", "invitations", "writing"})
  /\ [][MCNext]_MCVars
OwnerSpec == MCInit({"members", "transfers"}) /\ [][MCNext]_MCVars

\* As module Contributions states it: by what rights people write.
RightsAreThose ==
  instance = "writing" => Access!TypeOK /\ Access!RightsAreThose
=============================================================================
