---------------------------- MODULE Conversations ----------------------------
(***************************************************************************)
(* The chat of a project and direct threads: ChatService,                   *)
(* DirectMessageService and the rooms of AppGateway.                        *)
(*                                                                          *)
(* A browser (it is not part of the repository) has one socket, which loses *)
(* nothing, and shows the messages of the history together with those it    *)
(* receives live.                                                           *)
(***************************************************************************)
EXTENDS Naturals, Sequences, FiniteSets, SequencesExt

CONSTANTS User,          \* accounts, each with one browser
          Message,       \* identifiers of chat messages
          Thread,        \* identifiers of direct conversations
          Request,       \* slots for handlers in flight
          Null,
          HistoryLimit,  \* messages that join-project-room sends: 100
          Clients        \* instances: the operations their clients call

ASSUME NullAssumption == Null \notin User \cup Message
ASSUME LimitAssumption == HistoryLimit \in Nat
ASSUME RequestAssumption == IsFiniteSet(Request)

VARIABLES role,      \* role of each user in the project, or Null
          channel,   \* whether the project has its conversation
          messages,  \* messages of that conversation, in order of creation
          room,      \* users whose socket is in the room of the project
          shown,     \* messages emitted to each browser since it came to the page
          thread,    \* direct conversations: their participants, {} for no row
          req,       \* handlers in flight
          client,    \* operations the clients of this instance call
          caughtUp,  \* history: users who were sent the history since they came in
          unsaid     \* history: messages whose handler ended before emitting them

chat == <<channel, messages>>
past == <<client, caughtUp, unsaid>>
vars == <<role, chat, room, shown, thread, req, past>>

\* "left" is history: the page was left since the handler began.
Handler == [op : {"none", "joinProjectRoom", "sendProjectMessage", "openDirectConversation"},
            pc : {"idle", "member", "join", "history", "send", "find", "create", "write", "emit"},
            user : User \cup {Null}, other : User \cup {Null},
            message : Message \cup {Null}, history : SUBSET Message, left : BOOLEAN]
Resting == [op |-> "none", pc |-> "idle", user |-> Null, other |-> Null,
            message |-> Null, history |-> {}, left |-> FALSE]

Init ==
  /\ role = [u \in User |-> "MEMBER"]
  /\ channel \in BOOLEAN
  /\ messages = <<>>
  /\ room = {}
  /\ shown = [u \in User |-> {}]
  /\ thread = [t \in Thread |-> {}]
  /\ req = [r \in Request |-> Resting]
  /\ client \in Clients
  /\ caughtUp = {}
  /\ unsaid = {}

At(r, op, step) == req[r].op = op /\ req[r].pc = step
Goto(r, step) == req' = [req EXCEPT ![r].pc = step]
Finish(r) == req' = [req EXCEPT ![r] = Resting]
Accept(r, h) == h.op \in client /\ req[r] = Resting /\ req' = [req EXCEPT ![r] = h]

\* What an emit to users adds: a set of messages.
Emit(users, ms) == shown' = [u \in User |-> IF u \in users THEN shown[u] \cup ms ELSE shown[u]]

-----------------------------------------------------------------------------
(***************************************************************************)
(* join-project-room: the membership is checked, the socket enters the      *)
(* room, and only then is the history read; leave-project-room.             *)
(***************************************************************************)
BeginJoinRoom(r) ==
  /\ \E u \in User :
       Accept(r, [Resting EXCEPT !.op = "joinProjectRoom", !.pc = "member", !.user = u])
  /\ UNCHANGED <<role, chat, room, shown, thread, past>>

CheckMembership(r) ==
  /\ At(r, "joinProjectRoom", "member")
  /\ IF role[req[r].user] # Null THEN Goto(r, "join") ELSE Finish(r)
  /\ UNCHANGED <<role, chat, room, shown, thread, past>>

JoinRoom(r) ==
  /\ At(r, "joinProjectRoom", "join")
  /\ room' = room \cup {req[r].user}
  /\ Goto(r, "history")
  /\ UNCHANGED <<role, chat, shown, thread, past>>

\* The first messages of the conversation, not the last.
ReadHistory(r) ==
  /\ At(r, "joinProjectRoom", "history")
  /\ req' = [req EXCEPT ![r].pc = "send", ![r].history =
       {messages[i] : i \in {i \in DOMAIN messages : i <= HistoryLimit}}]
  /\ UNCHANGED <<role, chat, room, shown, thread, past>>

SendHistory(r) ==
  /\ At(r, "joinProjectRoom", "send")
  /\ Emit({req[r].user}, req[r].history)
  /\ caughtUp' = IF req[r].left THEN caughtUp ELSE caughtUp \cup {req[r].user}
  /\ Finish(r)
  /\ UNCHANGED <<role, chat, room, thread, client, unsaid>>

JoinsOf(u) == {r \in Request : req[r].op = "joinProjectRoom" /\ req[r].user = u}

\* The page is left; what it showed is dropped.
LeaveRoom ==
  /\ "leaveProjectRoom" \in client
  /\ \E u \in room :
       /\ room' = room \ {u}
       /\ shown' = [shown EXCEPT ![u] = {}]
       /\ caughtUp' = caughtUp \ {u}
       /\ req' = [r \in Request |-> [req[r] EXCEPT !.left = @ \/ r \in JoinsOf(u)]]
  /\ UNCHANGED <<role, chat, thread, client, unsaid>>

\* The server never takes a socket out of the room.
ChangeRole ==
  /\ "changeRole" \in client
  /\ \E u \in User, new \in {"VIEWER", Null} : role' = [role EXCEPT ![u] = new]
  /\ UNCHANGED <<chat, room, shown, thread, req, past>>

-----------------------------------------------------------------------------
(***************************************************************************)
(* sendProjectMessage: the conversation is found or created, the message    *)
(* written, then emitted to the room.                                       *)
(***************************************************************************)
BeginSend(r) ==
  /\ \E u \in User :
       /\ role[u] \notin {Null, "VIEWER"}
       /\ Accept(r, [Resting EXCEPT !.op = "sendProjectMessage", !.pc = "find", !.user = u])
  /\ UNCHANGED <<role, chat, room, shown, thread, past>>

FindChannel(r) ==
  /\ At(r, "sendProjectMessage", "find")
  /\ Goto(r, IF channel THEN "write" ELSE "create")
  /\ UNCHANGED <<role, chat, room, shown, thread, past>>

\* A project has one conversation: a second one is refused, and the message with it.
CreateChannel(r) ==
  /\ At(r, "sendProjectMessage", "create")
  /\ channel' = TRUE
  /\ IF channel THEN Finish(r) ELSE Goto(r, "write")
  /\ UNCHANGED <<role, messages, room, shown, thread, past>>

WriteMessage(r) ==
  /\ At(r, "sendProjectMessage", "write")
  /\ \E m \in Message \ Range(messages) :
       /\ messages' = Append(messages, m)
       /\ req' = [req EXCEPT ![r].pc = "emit", ![r].message = m]
  /\ UNCHANGED <<role, channel, room, shown, thread, past>>

\* Whoever is in the room by now, the sender included.
Audience_Others(r) == room \ {req[r].user}
Audience(r) == room
EmitMessage(r) ==
  /\ At(r, "sendProjectMessage", "emit")
  /\ Emit(Audience(r), {req[r].message})
  /\ Finish(r)
  /\ UNCHANGED <<role, chat, room, thread, past>>

-----------------------------------------------------------------------------
(***************************************************************************)
(* openDirectConversation: found, or created, by either of the two people.  *)
(***************************************************************************)
Threads(u, v) == {t \in Thread : {u, v} \subseteq thread[t]}

BeginOpenThread(r) ==
  /\ \E u, v \in User :
       /\ u # v
       /\ Accept(r, [Resting EXCEPT !.op = "openDirectConversation", !.pc = "find",
                                    !.user = u, !.other = v])
  /\ UNCHANGED <<role, chat, room, shown, thread, past>>

\* Any thread they share answers the request.
Found_Own(h) == {t \in Thread : thread[t] = {h.user}} # {}
Found(h) == Threads(h.user, h.other) # {}
FindThread(r) ==
  /\ At(r, "openDirectConversation", "find")
  /\ IF Found(req[r]) THEN Finish(r) ELSE Goto(r, "create")
  /\ UNCHANGED <<role, chat, room, shown, thread, past>>

CreateThread(r) ==
  /\ At(r, "openDirectConversation", "create")
  /\ \E t \in Thread :
       /\ thread[t] = {}
       /\ thread' = [thread EXCEPT ![t] = {req[r].user, req[r].other}]
  /\ Finish(r)
  /\ UNCHANGED <<role, chat, room, shown, past>>

\* An awaited call fails, or the process restarts and the rest of the handler is lost.
Abort(r) ==
  /\ req[r] # Resting
  /\ Finish(r)
  /\ unsaid' = unsaid \cup ({req[r].message} \ {Null})
  /\ caughtUp' = IF req[r].op = "joinProjectRoom" THEN caughtUp \ {req[r].user} ELSE caughtUp
  /\ UNCHANGED <<role, chat, room, shown, thread, client>>

Next ==
  \/ \E r \in Request :
       \/ BeginJoinRoom(r) \/ CheckMembership(r) \/ JoinRoom(r) \/ ReadHistory(r) \/ SendHistory(r)
       \/ BeginSend(r) \/ FindChannel(r) \/ CreateChannel(r) \/ WriteMessage(r) \/ EmitMessage(r)
       \/ BeginOpenThread(r) \/ FindThread(r) \/ CreateThread(r)
       \/ Abort(r)
  \/ LeaveRoom \/ ChangeRole

Spec == Init /\ [][Next]_vars

-----------------------------------------------------------------------------
\* What a handler holds by the time it uses it.
HandlerOK(h) ==
  /\ h.op \in {"joinProjectRoom", "sendProjectMessage"} => h.user \in User
  /\ h.op = "openDirectConversation" => {h.user, h.other} \subseteq User /\ h.user # h.other
  /\ h.message # Null <=> h.op = "sendProjectMessage" /\ h.pc = "emit"
  /\ h.op = "sendProjectMessage" /\ h.pc = "write" => channel

\* Types of the tables, of what the browsers show and of the handlers.
TypeOK ==
  /\ role \in [User -> {"MEMBER", "VIEWER", Null}]
  /\ channel \in BOOLEAN /\ (messages # <<>> => channel)
  /\ messages \in Seq(Message)
  /\ room \subseteq User
  /\ shown \in [User -> SUBSET Message]
  /\ thread \in [Thread -> SUBSET User]
  /\ req \in [Request -> Handler]
  /\ \A r \in Request : HandlerOK(req[r])

\* join-project-room and sendProjectMessage: who is in the room and was sent the history
\* misses no message, whenever it was written and however often the page was opened: it
\* was sent it, or it is about to be.  (But for a message whose handler died, and for a
\* conversation longer than the history, of which only the beginning is sent.)
AboutToBeEmitted == {req[r].message : r \in Request}
NoMessageMissed ==
  Len(messages) <= HistoryLimit =>
    \A u \in room \cap caughtUp :
      Range(messages) \subseteq shown[u] \cup AboutToBeEmitted \cup unsaid

\* openDirectConversation: the threads of two people do not pile up, whoever opens them:
\* never more than requests at once, one when they are served one at a time.
Opening(u, v) ==
  {r \in Request : At(r, "openDirectConversation", "create") /\ {req[r].user, req[r].other} = {u, v}}
ThreadsBounded ==
  \A u, v \in User : u # v =>
    Cardinality(Threads(u, v)) + Cardinality(Opening(u, v)) <= Cardinality(Request)

-----------------------------------------------------------------------------
\* What the comment on openDirectConversation says: two people who write to each other
\* at the same moment find themselves in one thread, never in two.
OneThreadPerPair == \A u, v \in User : u # v => Cardinality(Threads(u, v)) <= 1
=============================================================================
