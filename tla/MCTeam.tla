------------------------------- MODULE MCTeam -------------------------------
(***************************************************************************)
(* What a team does together, for TLC: its conversations, and the departure *)
(* of its people.  The two share no row: an instance calls the operations   *)
(* of one of them.                                                          *)
(***************************************************************************)
EXTENDS Conversations, TLC

CONSTANTS Colleague, Task, Plan,
          FirstMessage, FirstThread

VARIABLES account, project, member, assigned, work, calls, slipped
leaving == <<account, project, member, assigned, work, calls, slipped>>

Departures == INSTANCE Departures WITH User <- Colleague, req <- work

ASSUME LeaversAssumption == Departures!PlansFit

\* People and handlers are interchangeable.
Symmetry == Permutations(Colleague) \cup Permutations(Request)

RoomClient == {"joinProjectRoom", "leaveProjectRoom", "sendProjectMessage"}
DoorClient == {"joinProjectRoom", "leaveProjectRoom", "changeRole"}
RoleClient == {"sendProjectMessage", "changeRole"}
ThreadClient == {"openDirectConversation"}
TeamClients == {RoomClient, DoorClient, RoleClient, ThreadClient}
ThreadClients == {ThreadClient}

Leavers == {"deleteUser", "createProject", "transferOwnership", "deleteProject",
            "restoreProject", "addMember", "removeMember"}
Managers == {"deleteUser", "assignUsersToTask", "unassignUserFromTask"}
NoProject(called) == [calls |-> called, project |-> [state |-> "none", owner |-> Null],
                      member |-> {}, assigned |-> {}]
TeamOf(u) == [calls |-> Managers, project |-> [state |-> "live", owner |-> u],
              member |-> Colleague, assigned |-> Task \X {u}]
Nobody == {NoProject({})}
Everybody == {NoProject({}), NoProject(Leavers)} \cup {TeamOf(u) : u \in Colleague}

Talking == calls = {}

MCInit ==
  /\ Init /\ Departures!Init
  /\ ~Talking => client = ThreadClient /\ channel = FALSE

\* Identifiers are taken in order.
InOrder ==
  /\ messages' # <<>> => messages'[1] = FirstMessage
  /\ \A t \in Thread : thread'[t] # {} => thread'[FirstThread] # {}

MCNext ==
  \/ Talking /\ Next /\ InOrder /\ UNCHANGED leaving
  \/ ~Talking /\ Departures!Next /\ UNCHANGED vars

MCSpec == MCInit /\ [][MCNext]_<<vars, leaving>>

\* As module Departures states them.
WorkInLivingHands == Departures!WorkInLivingHands
AssigneesAsRequested == Departures!AssigneesAsRequested

\* The tables of both, and the threads two people have.
TeamWellFormed == TypeOK /\ ThreadsBounded /\ Departures!TypeOK
=============================================================================
