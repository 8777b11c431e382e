-------------------------- MODULE TeamProofs --------------------------
(***************************************************************************)
(* Theorems about what MCTeam composes: the chat of a project and the direct *)
(* threads, for any number of people, messages and handlers in flight and a   *)
(* history of any length; the deletion of accounts and the assignment of      *)
(* tasks, whatever work there is at first.                                    *)
(***************************************************************************)
EXTENDS MCTeam, FiniteSetTheorems, TLAPS

\* What a browser has, or is certain to have unless a handler dies.
Got(u) == shown[u] \cup AboutToBeEmitted \cup unsaid
Short == Len(messages) <= HistoryLimit

\* A page that was not left since its join entered the room is in the room, and what the
\* join has read of the conversation lacks nothing that did not come live.
Follows(h) ==
  /\ h.op = "joinProjectRoom" /\ h.pc \in {"history", "send"} /\ ~h.left => h.user \in room
  /\ h.op = "joinProjectRoom" /\ h.pc = "send" /\ ~h.left /\ Short =>
       Range(messages) \subseteq h.history \cup Got(h.user)

RoomInv ==
  /\ caughtUp \subseteq room
  /\ \A r \in Request : Follows(req[r])
  /\ Short => \A u \in caughtUp : Range(messages) \subseteq Got(u)

-----------------------------------------------------------------------------
LEMMA InitType == Init => TypeOK
BY NullAssumption DEF Init, TypeOK, Handler, HandlerOK, Resting

\* Putting a well-formed handler in a slot keeps every slot well formed.
LEMMA SlotType ==
  ASSUME TypeOK, NEW r \in Request, NEW h \in Handler, HandlerOK(h)', channel => channel',
         req' = [req EXCEPT ![r] = h]
  PROVE  req' \in [Request -> Handler] /\ \A q \in Request : HandlerOK(req[q])'
<1>1. \A q \in Request : req'[q] \in {h, req[q]}
  BY DEF TypeOK
<1> SUFFICES ASSUME NEW q \in Request
             PROVE  HandlerOK(req[q])'
  BY DEF TypeOK
<1>2. CASE req'[q] = h
  BY <1>2 DEF HandlerOK
<1>3. CASE req'[q] = req[q]
  BY <1>3 DEF TypeOK, HandlerOK
<1> QED BY <1>1, <1>2, <1>3

LEMMA RestingType == Resting \in Handler /\ HandlerOK(Resting)'
BY DEF Resting, Handler, HandlerOK

LEMMA FinishType ==
  ASSUME TypeOK, NEW r \in Request, Finish(r), channel => channel'
  PROVE  req' \in [Request -> Handler] /\ \A q \in Request : HandlerOK(req[q])'
BY RestingType, SlotType DEF Finish

LEMMA GotoType ==
  ASSUME TypeOK, NEW r \in Request, channel => channel',
         NEW s \in {"member", "join", "history", "send", "find", "create", "write"},
         req[r].pc # "emit", Goto(r, s), s = "write" => channel'
  PROVE  req' \in [Request -> Handler] /\ \A q \in Request : HandlerOK(req[q])'
<1>1. req[r] \in Handler /\ HandlerOK(req[r])
  BY DEF TypeOK
<1>2. PICK h : h = [req[r] EXCEPT !.pc = s]
  OBVIOUS
<1>3. /\ h \in Handler /\ h.op = req[r].op /\ h.user = req[r].user /\ h.other = req[r].other
      /\ h.message = req[r].message /\ h.pc = s
  BY <1>1, <1>2 DEF Handler
<1>4. HandlerOK(h)'
  BY <1>1, <1>3 DEF HandlerOK
<1>5. req' = [req EXCEPT ![r] = h]
  BY <1>2 DEF Goto, TypeOK
<1> QED BY <1>3, <1>4, <1>5, SlotType

\* join-project-room and leave-project-room.
LEMMA RoomType ==
  ASSUME TypeOK, NEW r \in Request,
         \/ BeginJoinRoom(r) \/ CheckMembership(r) \/ JoinRoom(r) \/ ReadHistory(r)
         \/ SendHistory(r)
  PROVE  TypeOK'
<1>0. req[r] \in Handler /\ HandlerOK(req[r])
  BY DEF TypeOK
<1>1. CASE BeginJoinRoom(r)
  <2>1. PICK u \in User :
          Accept(r, [Resting EXCEPT !.op = "joinProjectRoom", !.pc = "member", !.user = u])
    BY <1>1 DEF BeginJoinRoom
  <2>2. PICK h : h = [Resting EXCEPT !.op = "joinProjectRoom", !.pc = "member", !.user = u]
    OBVIOUS
  <2>3. h \in Handler /\ HandlerOK(h)'
    BY <2>2 DEF Resting, Handler, HandlerOK
  <2>4. req' \in [Request -> Handler] /\ \A q \in Request : HandlerOK(req[q])'
    BY <1>1, <2>1, <2>2, <2>3, SlotType DEF Accept, BeginJoinRoom, chat
  <2> QED BY <1>1, <2>4 DEF BeginJoinRoom, TypeOK, chat
<1>2. CASE CheckMembership(r)
  <2>1. req' \in [Request -> Handler] /\ \A q \in Request : HandlerOK(req[q])'
    BY <1>2, FinishType, GotoType DEF CheckMembership, At, chat
  <2> QED BY <1>2, <2>1 DEF CheckMembership, TypeOK, chat
<1>3. CASE JoinRoom(r)
  <2>1. req' \in [Request -> Handler] /\ \A q \in Request : HandlerOK(req[q])'
    BY <1>3, GotoType DEF JoinRoom, At, chat
  <2>2. req[r].user \in User
    BY <1>0, <1>3 DEF JoinRoom, At, HandlerOK
  <2> QED BY <1>3, <2>1, <2>2 DEF JoinRoom, TypeOK, chat
<1>4. CASE ReadHistory(r)
  <2> DEFINE read == {messages[i] : i \in {i \in DOMAIN messages : i <= HistoryLimit}}
  <2>1. read \in SUBSET Message
    BY DEF TypeOK
  <2>2. PICK h : h = [req[r] EXCEPT !.pc = "send", !.history = read]
    OBVIOUS
  <2>3. req' = [req EXCEPT ![r] = h]
    BY <1>4, <2>2 DEF ReadHistory, TypeOK
  <2> HIDE DEF read
  <2>4. /\ h \in Handler /\ h.op = req[r].op /\ h.user = req[r].user
        /\ h.message = req[r].message /\ h.pc = "send" /\ h.op = "joinProjectRoom"
    BY <1>0, <1>4, <2>1, <2>2 DEF Handler, ReadHistory, At
  <2>5. HandlerOK(h)'
    BY <1>0, <2>4 DEF HandlerOK
  <2>6. req' \in [Request -> Handler] /\ \A q \in Request : HandlerOK(req[q])'
    BY <1>4, <2>3, <2>4, <2>5, SlotType DEF ReadHistory, chat
  <2> QED BY <1>4, <2>6 DEF ReadHistory, TypeOK, chat
<1>5. CASE SendHistory(r)
  <2>1. req' \in [Request -> Handler] /\ \A q \in Request : HandlerOK(req[q])'
    BY <1>5, FinishType DEF SendHistory, chat
  <2>2. req[r].history \subseteq Message
    BY <1>0 DEF Handler
  <2> QED BY <1>5, <2>1, <2>2 DEF SendHistory, Emit, TypeOK, chat
<1> QED BY <1>1, <1>2, <1>3, <1>4, <1>5

\* sendProjectMessage.
LEMMA SendType ==
  ASSUME TypeOK, NEW r \in Request,
         \/ BeginSend(r) \/ FindChannel(r) \/ CreateChannel(r) \/ WriteMessage(r)
         \/ EmitMessage(r)
  PROVE  TypeOK'
<1>0. req[r] \in Handler /\ HandlerOK(req[r])
  BY DEF TypeOK
<1>1. CASE BeginSend(r)
  <2>1. PICK u \in User :
          Accept(r, [Resting EXCEPT !.op = "sendProjectMessage", !.pc = "find", !.user = u])
    BY <1>1 DEF BeginSend
  <2>2. PICK h : h = [Resting EXCEPT !.op = "sendProjectMessage", !.pc = "find", !.user = u]
    OBVIOUS
  <2>3. h \in Handler /\ HandlerOK(h)'
    BY <2>2 DEF Resting, Handler, HandlerOK
  <2>4. req' \in [Request -> Handler] /\ \A q \in Request : HandlerOK(req[q])'
    BY <1>1, <2>1, <2>2, <2>3, SlotType DEF Accept, BeginSend, chat
  <2> QED BY <1>1, <2>4 DEF BeginSend, TypeOK, chat
<1>2. CASE FindChannel(r)
  <2>1. req' \in [Request -> Handler] /\ \A q \in Request : HandlerOK(req[q])'
    BY <1>2, GotoType DEF FindChannel, At, chat
  <2> QED BY <1>2, <2>1 DEF FindChannel, TypeOK, chat
<1>3. CASE CreateChannel(r)
  <2>1. req' \in [Request -> Handler] /\ \A q \in Request : HandlerOK(req[q])'
    BY <1>3, FinishType, GotoType DEF CreateChannel, At
  <2> QED BY <1>3, <2>1 DEF CreateChannel, TypeOK
<1>4. CASE WriteMessage(r)
  <2>1. PICK m \in Message :
          /\ messages' = Append(messages, m)
          /\ req' = [req EXCEPT ![r].pc = "emit", ![r].message = m]
    BY <1>4 DEF WriteMessage
  <2>2. PICK h : h = [req[r] EXCEPT !.pc = "emit", !.message = m]
    OBVIOUS
  <2>3. req' = [req EXCEPT ![r] = h] /\ req[r].op = "sendProjectMessage"
    BY <1>4, <2>1, <2>2 DEF WriteMessage, At, TypeOK
  <2>4. /\ h \in Handler /\ h.op = "sendProjectMessage" /\ h.user = req[r].user
        /\ h.message = m /\ h.pc = "emit"
    BY <1>0, <2>2, <2>3 DEF Handler
  <2>5. HandlerOK(h)'
    BY <1>0, <2>3, <2>4, NullAssumption DEF HandlerOK
  <2>6. UNCHANGED channel /\ channel
    BY <1>0, <1>4 DEF WriteMessage, At, HandlerOK
  <2>7. req' \in [Request -> Handler] /\ \A q \in Request : HandlerOK(req[q])'
    BY <2>3, <2>4, <2>5, <2>6, SlotType
  <2>8. messages' \in Seq(Message)
    BY <2>1 DEF TypeOK
  <2>9. UNCHANGED <<role, room, shown, thread>>
    BY <1>4 DEF WriteMessage
  <2> QED BY <2>6, <2>7, <2>8, <2>9 DEF TypeOK
<1>5. CASE EmitMessage(r)
  <2>1. req' \in [Request -> Handler] /\ \A q \in Request : HandlerOK(req[q])'
    BY <1>5, FinishType DEF EmitMessage, chat
  <2>2. req[r].message \in Message
    BY <1>0, <1>5 DEF EmitMessage, At, HandlerOK, Handler
  <2> QED BY <1>5, <2>1, <2>2 DEF EmitMessage, Emit, TypeOK, chat
<1> QED BY <1>1, <1>2, <1>3, <1>4, <1>5

\* openDirectConversation, the failures, and what the browsers and the managers do.
LEMMA OtherType ==
  ASSUME TypeOK,
         \/ \E r \in Request :
              BeginOpenThread(r) \/ FindThread(r) \/ CreateThread(r) \/ Abort(r)
         \/ LeaveRoom \/ ChangeRole \/ UNCHANGED vars
  PROVE  TypeOK'
<1>1. ASSUME NEW r \in Request, BeginOpenThread(r)
      PROVE  TypeOK'
  <2>1. PICK u \in User, v \in User :
          /\ u # v
          /\ Accept(r, [Resting EXCEPT !.op = "openDirectConversation", !.pc = "find",
                                       !.user = u, !.other = v])
    BY <1>1 DEF BeginOpenThread
  <2>2. PICK h : h = [Resting EXCEPT !.op = "openDirectConversation", !.pc = "find",
                                     !.user = u, !.other = v]
    OBVIOUS
  <2>3. h \in Handler /\ HandlerOK(h)'
    BY <2>1, <2>2 DEF Resting, Handler, HandlerOK
  <2>4. req' \in [Request -> Handler] /\ \A q \in Request : HandlerOK(req[q])'
    BY <1>1, <2>1, <2>2, <2>3, SlotType DEF Accept, BeginOpenThread, chat
  <2> QED BY <1>1, <2>4 DEF BeginOpenThread, TypeOK, chat
<1>2. ASSUME NEW r \in Request, FindThread(r)
      PROVE  TypeOK'
  <2>1. req' \in [Request -> Handler] /\ \A q \in Request : HandlerOK(req[q])'
    BY <1>2, FinishType, GotoType DEF FindThread, At, chat
  <2> QED BY <1>2, <2>1 DEF FindThread, TypeOK, chat
<1>3. ASSUME NEW r \in Request, CreateThread(r)
      PROVE  TypeOK'
  <2>1. req' \in [Request -> Handler] /\ \A q \in Request : HandlerOK(req[q])'
    BY <1>3, FinishType DEF CreateThread, chat
  <2>2. {req[r].user, req[r].other} \subseteq User
    BY <1>3 DEF CreateThread, At, TypeOK, HandlerOK
  <2> QED BY <1>3, <2>1, <2>2 DEF CreateThread, TypeOK, chat
<1>4. ASSUME NEW r \in Request, Abort(r)
      PROVE  TypeOK'
  <2>1. req' \in [Request -> Handler] /\ \A q \in Request : HandlerOK(req[q])'
    BY <1>4, FinishType DEF Abort, chat
  <2> QED BY <1>4, <2>1 DEF Abort, TypeOK, chat
<1>5. CASE LeaveRoom
  <2>1. PICK u \in room : /\ room' = room \ {u} /\ shown' = [shown EXCEPT ![u] = {}]
             /\ req' = [r \in Request |-> [req[r] EXCEPT !.left = @ \/ r \in JoinsOf(u)]]
    BY <1>5 DEF LeaveRoom
  <2>2. ASSUME NEW q \in Request
        PROVE  req'[q] \in Handler /\ HandlerOK(req[q])'
    <3>1. req[q] \in Handler /\ HandlerOK(req[q])
      BY DEF TypeOK
    <3>2. PICK b \in BOOLEAN : req'[q] = [req[q] EXCEPT !.left = b]
      <4>1. (req[q].left \/ q \in JoinsOf(u)) \in BOOLEAN
        OBVIOUS
      <4>2. req'[q] = [req[q] EXCEPT !.left = req[q].left \/ q \in JoinsOf(u)]
        BY <2>1
      <4> QED BY <4>1, <4>2, Zenon
    <3>3. /\ req'[q] \in Handler /\ req'[q].op = req[q].op /\ req'[q].pc = req[q].pc
          /\ req'[q].user = req[q].user /\ req'[q].other = req[q].other
          /\ req'[q].message = req[q].message
      BY <3>1, <3>2 DEF Handler
    <3>4. UNCHANGED channel
      BY <1>5 DEF LeaveRoom, chat
    <3> QED BY <3>1, <3>3, <3>4 DEF HandlerOK
  <2>3. req' \in [Request -> Handler]
    BY <2>1, <2>2
  <2> QED BY <1>5, <2>1, <2>2, <2>3 DEF LeaveRoom, TypeOK, chat
<1>6. CASE ChangeRole
  BY <1>6 DEF ChangeRole, TypeOK, HandlerOK, chat
<1>7. CASE UNCHANGED vars
  BY <1>7 DEF vars, TypeOK, HandlerOK, chat
<1> QED BY <1>1, <1>2, <1>3, <1>4, <1>5, <1>6, <1>7

\* The tables, the pages and the handlers stay well formed: a conversation that holds a
\* message exists, and only the handler about to emit a message carries one.
THEOREM TypeCorrect == Spec => []TypeOK
<1>1. TypeOK /\ [Next]_vars => TypeOK'
  BY RoomType, SendType, OtherType DEF Next
<1> QED BY <1>1, InitType, PTL DEF Spec

-----------------------------------------------------------------------------
(***************************************************************************)
(* No message is missed.                                                    *)
(***************************************************************************)
\* What a browser has or is about to have is lost neither by a step of another handler,
\* nor by a handler that carries no message, nor by one whose message ends up unsaid.
LEMMA GotKept ==
  ASSUME TypeOK, NEW r \in Request,
         \A q \in Request \ {r} : req'[q] = req[q],
         \/ req[r].message = Null
         \/ req[r].message \in unsaid'
         \/ req'[r].message = req[r].message,
         unsaid \subseteq unsaid',
         NEW u \in User, shown[u] \subseteq shown'[u]
  PROVE  Got(u) \ {Null} \subseteq Got(u)'
<1> SUFFICES ASSUME NEW m \in AboutToBeEmitted, m # Null
             PROVE  m \in AboutToBeEmitted' \cup unsaid'
  BY DEF Got
<1>1. PICK q \in Request : m = req[q].message
  BY DEF AboutToBeEmitted
<1>2. CASE q # r
  BY <1>1, <1>2 DEF AboutToBeEmitted
<1>3. CASE q = r
  BY <1>1, <1>3 DEF AboutToBeEmitted
<1> QED BY <1>2, <1>3

\* A step that writes no message, takes nobody out of the room and nothing from whoever
\* is in it keeps the invariant, as long as the handler it moves still follows.
LEMMA QuietStep ==
  ASSUME TypeOK, RoomInv, messages' = messages, room \subseteq room',
         caughtUp' \subseteq caughtUp,
         \A u \in room : Got(u) \ {Null} \subseteq Got(u)',
         \A q \in Request : req'[q] = req[q] \/ Follows(req[q])'
  PROVE  RoomInv'
<1>1. Range(messages) \subseteq Message
  BY DEF TypeOK, Range
<1>2. Null \notin Range(messages)
  BY <1>1, NullAssumption
<1>3. ASSUME NEW u \in room, NEW S, Range(messages) \subseteq S \cup Got(u)
      PROVE  Range(messages)' \subseteq S \cup Got(u)'
  BY <1>2, <1>3 DEF Range
<1>4. ASSUME NEW q \in Request
      PROVE  Follows(req[q])'
  <2>1. CASE req'[q] = req[q]
    <3>1. Follows(req[q])
      BY DEF RoomInv
    <3> QED BY <2>1, <3>1, <1>3 DEF Follows, Short
  <2> QED BY <2>1
<1>5. ASSUME Short', NEW u \in caughtUp'
      PROVE  Range(messages)' \subseteq Got(u)'
  <2>1. u \in room /\ Range(messages) \subseteq {} \cup Got(u)
    BY <1>5 DEF RoomInv, Short
  <2>2. Range(messages)' \subseteq {} \cup Got(u)'
    BY <1>3, <2>1
  <2> QED BY <2>2
<1> QED BY <1>4, <1>5 DEF RoomInv

\* A handler begins before anything it reads.
LEMMA BeginStep ==
  ASSUME TypeOK, NEW r \in Request,
         BeginJoinRoom(r) \/ BeginSend(r) \/ BeginOpenThread(r)
  PROVE  req[r] = Resting /\ req'[r].pc \in {"member", "find"}
<1>1. CASE BeginJoinRoom(r)
  <2>1. PICK u \in User :
          Accept(r, [Resting EXCEPT !.op = "joinProjectRoom", !.pc = "member", !.user = u])
    BY <1>1 DEF BeginJoinRoom
  <2>2. PICK h : h = [Resting EXCEPT !.op = "joinProjectRoom", !.pc = "member", !.user = u]
    OBVIOUS
  <2> QED BY <2>1, <2>2 DEF Accept, TypeOK, Resting
<1>2. CASE BeginSend(r)
  <2>1. PICK u \in User :
          Accept(r, [Resting EXCEPT !.op = "sendProjectMessage", !.pc = "find", !.user = u])
    BY <1>2 DEF BeginSend
  <2>2. PICK h : h = [Resting EXCEPT !.op = "sendProjectMessage", !.pc = "find", !.user = u]
    OBVIOUS
  <2> QED BY <2>1, <2>2 DEF Accept, TypeOK, Resting
<1>3. CASE BeginOpenThread(r)
  <2>1. PICK u \in User, v \in User :
          Accept(r, [Resting EXCEPT !.op = "openDirectConversation", !.pc = "find",
                                    !.user = u, !.other = v])
    BY <1>3 DEF BeginOpenThread
  <2>2. PICK h : h = [Resting EXCEPT !.op = "openDirectConversation", !.pc = "find",
                                     !.user = u, !.other = v]
    OBVIOUS
  <2> QED BY <2>1, <2>2 DEF Accept, TypeOK, Resting
<1> QED BY <1>1, <1>2, <1>3

\* The steps of the handlers that touch neither the room, nor the conversation's messages,
\* nor what the browsers show; a failed handler's message is unsaid.
LEMMA PlainStep ==
  ASSUME TypeOK, RoomInv, NEW r \in Request,
         \/ BeginJoinRoom(r) \/ CheckMembership(r) \/ JoinRoom(r)
         \/ BeginSend(r) \/ FindChannel(r) \/ CreateChannel(r)
         \/ BeginOpenThread(r) \/ FindThread(r) \/ CreateThread(r) \/ Abort(r)
  PROVE  RoomInv'
<1>0. /\ req[r] \in Handler /\ HandlerOK(req[r])
      /\ room \subseteq User
  BY DEF TypeOK
<1>1. messages' = messages /\ room \subseteq room' /\ shown' = shown
  BY DEF BeginJoinRoom, CheckMembership, JoinRoom, BeginSend, FindChannel, CreateChannel,
         BeginOpenThread, FindThread, CreateThread, Abort, chat
<1>2. caughtUp' \subseteq caughtUp /\ unsaid \subseteq unsaid'
  BY DEF BeginJoinRoom, CheckMembership, JoinRoom, BeginSend, FindChannel, CreateChannel,
         BeginOpenThread, FindThread, CreateThread, Abort, past
<1>3. \A q \in Request \ {r} : req'[q] = req[q]
  BY DEF BeginJoinRoom, CheckMembership, JoinRoom, BeginSend, FindChannel, CreateChannel,
         BeginOpenThread, FindThread, CreateThread, Abort, Accept, Goto, Finish, TypeOK
<1>4. req[r].message = Null \/ req[r].message \in unsaid'
  <2>1. CASE Abort(r)
    BY <2>1 DEF Abort
  <2>2. CASE BeginJoinRoom(r) \/ BeginSend(r) \/ BeginOpenThread(r)
    BY <2>2, BeginStep DEF Resting
  <2>3. CASE \/ CheckMembership(r) \/ JoinRoom(r) \/ FindChannel(r) \/ CreateChannel(r)
             \/ FindThread(r) \/ CreateThread(r)
    BY <1>0, <2>3 DEF CheckMembership, JoinRoom, FindChannel, CreateChannel, FindThread,
                      CreateThread, At, HandlerOK
  <2> QED BY <2>1, <2>2, <2>3
<1>5. \A u \in room : Got(u) \ {Null} \subseteq Got(u)'
  BY <1>0, <1>1, <1>2, <1>3, <1>4, GotKept
<1>6. Follows(req[r])'
  <2>1. CASE Abort(r) \/ CheckMembership(r) \/ CreateChannel(r) \/ FindThread(r) \/ CreateThread(r)
    <3>1. req'[r] = Resting \/ req'[r] = [req[r] EXCEPT !.pc = "join"]
          \/ req'[r] = [req[r] EXCEPT !.pc = "write"] \/ req'[r] = [req[r] EXCEPT !.pc = "create"]
      BY <2>1 DEF Abort, CheckMembership, CreateChannel, FindThread, CreateThread, Finish,
                  Goto,
                  TypeOK
    <3>2. req'[r].pc \notin {"history", "send"}
      BY <1>0, <3>1 DEF Resting, Handler
    <3> QED BY <3>2 DEF Follows
  <2>2. CASE BeginJoinRoom(r) \/ BeginSend(r) \/ BeginOpenThread(r)
    <3>1. req'[r].pc \notin {"history", "send"}
      BY <2>2, BeginStep
    <3> QED BY <3>1 DEF Follows
  <2>3. CASE FindChannel(r)
    <3>1. req'[r].pc \notin {"history", "send"}
      BY <1>0, <2>3 DEF FindChannel, Goto, Handler, TypeOK
    <3> QED BY <3>1 DEF Follows
  <2>4. CASE JoinRoom(r)
    <3>1. req'[r] = [req[r] EXCEPT !.pc = "history"] /\ req[r].user \in room'
      BY <2>4 DEF JoinRoom, Goto, TypeOK
    <3>2. req'[r].pc = "history" /\ req'[r].user = req[r].user
      BY <1>0, <3>1 DEF Handler
    <3> QED BY <3>1, <3>2 DEF Follows
  <2> QED BY <2>1, <2>2, <2>3, <2>4
<1> QED BY <1>1, <1>2, <1>3, <1>5, <1>6, QuietStep

\* What was read of a conversation no longer than the history is all of it.
LEMMA ReadStep ==
  ASSUME TypeOK, RoomInv, NEW r \in Request, ReadHistory(r)
  PROVE  RoomInv'
<1>0. req[r] \in Handler /\ HandlerOK(req[r]) /\ room \subseteq User
  BY DEF TypeOK
<1> DEFINE read == {messages[i] : i \in {i \in DOMAIN messages : i <= HistoryLimit}}
<1>1. UNCHANGED <<messages, room, shown, caughtUp, unsaid>>
  BY DEF ReadHistory, chat, past
<1>2. \A q \in Request \ {r} : req'[q] = req[q]
  BY DEF ReadHistory, TypeOK
<1>3. /\ req'[r].op = req[r].op /\ req'[r].user = req[r].user /\ req'[r].left = req[r].left
      /\ req'[r].message = req[r].message /\ req'[r].history = read
      /\ req[r].op = "joinProjectRoom" /\ req[r].pc = "history"
  BY <1>0 DEF ReadHistory, At, Handler, TypeOK
<1>4. ASSUME Short
      PROVE  Range(messages) \subseteq read
  <2>1. messages \in Seq(Message)
    BY DEF TypeOK
  <2> SUFFICES ASSUME NEW i \in DOMAIN messages
               PROVE  messages[i] \in read
    BY DEF Range
  <2>2. i <= HistoryLimit
    BY <1>4, <2>1, LimitAssumption DEF Short
  <2> QED BY <2>2
<1> HIDE DEF read
<1>5. Follows(req[r])
  BY DEF RoomInv
<1>6. Follows(req[r])'
  BY <1>1, <1>3, <1>4, <1>5 DEF Follows, Short, Range
<1>7. \A u \in room : Got(u) \ {Null} \subseteq Got(u)'
  BY <1>0, <1>1, <1>2, <1>3, GotKept
<1> QED BY <1>1, <1>2, <1>6, <1>7, QuietStep

\* The history is sent: a page that is still open has been sent everything.
LEMMA HistoryStep ==
  ASSUME TypeOK, RoomInv, NEW r \in Request, SendHistory(r)
  PROVE  RoomInv'
<1>0. req[r] \in Handler /\ HandlerOK(req[r]) /\ room \subseteq User
  BY DEF TypeOK
<1> PICK w : w = req[r].user
  OBVIOUS
<1>1. /\ UNCHANGED <<messages, room, unsaid>> /\ req[r].message = Null /\ w \in User
      /\ req[r].op = "joinProjectRoom" /\ req[r].pc = "send"
  BY <1>0 DEF SendHistory, chat, At, HandlerOK
<1>2. (\A q \in Request \ {r} : req'[q] = req[q]) /\ req'[r] = Resting
  BY DEF SendHistory, Finish, TypeOK
<1>3. \A u \in User : shown[u] \subseteq shown'[u]
  BY DEF SendHistory, Emit
<1>4. req[r].history \subseteq shown'[w]
  BY <1>1 DEF SendHistory, Emit
<1>5. ASSUME NEW u \in User
      PROVE  Got(u) \ {Null} \subseteq Got(u)'
  BY <1>1, <1>2, <1>3, GotKept
<1>6. Range(messages) \subseteq Message /\ Range(messages)' = Range(messages)
  BY <1>1 DEF TypeOK, Range
<1>7. ASSUME NEW q \in Request
      PROVE  Follows(req[q])'
  <2>1. CASE q = r
    BY <1>2, <2>1 DEF Follows, Resting
  <2>2. CASE q # r
    <3>1. Follows(req[q]) /\ req'[q] = req[q]
      BY <1>2, <2>2 DEF RoomInv
    <3> QED BY <1>0, <1>1, <1>5, <1>6, <3>1, NullAssumption DEF Follows, Short
  <2> QED BY <2>1, <2>2
<1>8. ASSUME Short, NEW u \in caughtUp'
      PROVE  Range(messages) \subseteq Got(u)'
  <2>1. CASE u \in caughtUp
    BY <1>0, <1>5, <1>6, <1>8, <2>1, NullAssumption DEF RoomInv
  <2>2. CASE u \notin caughtUp
    <3>1. ~req[r].left /\ u = w
      BY <1>8, <2>2 DEF SendHistory
    <3>2. Range(messages) \subseteq req[r].history \cup Got(w)
      BY <1>1, <1>8, <3>1 DEF RoomInv, Follows
    <3>3. req[r].history \subseteq Got(w)'
      BY <1>4 DEF Got
    <3> QED BY <1>1, <1>5, <1>6, <3>1, <3>2, <3>3, NullAssumption
  <2> QED BY <2>1, <2>2
<1>9. caughtUp' \subseteq room'
  <2>1. ~req[r].left => w \in room
    BY <1>1 DEF RoomInv, Follows
  <2> QED BY <1>1, <2>1 DEF SendHistory, RoomInv
<1> QED BY <1>1, <1>6, <1>7, <1>8, <1>9 DEF RoomInv, Short

\* A message that is written is about to be emitted.
LEMMA WriteStep ==
  ASSUME TypeOK, RoomInv, NEW r \in Request, WriteMessage(r)
  PROVE  RoomInv'
<1>0. /\ req[r] \in Handler /\ HandlerOK(req[r]) /\ room \subseteq User
      /\ messages \in Seq(Message)
  BY DEF TypeOK
<1>1. PICK m \in Message :
        /\ messages' = Append(messages, m)
        /\ req' = [req EXCEPT ![r].pc = "emit", ![r].message = m]
  BY DEF WriteMessage
<1>2. UNCHANGED <<room, shown, caughtUp, unsaid>> /\ req[r].message = Null
  BY <1>0 DEF WriteMessage, past, At, HandlerOK
<1>3. /\ \A q \in Request \ {r} : req'[q] = req[q]
      /\ req'[r].message = m /\ req'[r].pc = "emit"
  BY <1>0, <1>1 DEF Handler, TypeOK
<1>4. m \in AboutToBeEmitted'
  BY <1>3 DEF AboutToBeEmitted
<1>5. \A u \in User : Got(u) \ {Null} \subseteq Got(u)'
  BY <1>2, <1>3, GotKept
<1>6. Range(messages)' \subseteq Range(messages) \cup {m}
  <2>1. Len(messages) \in Nat /\ DOMAIN messages = 1 .. Len(messages)
    BY <1>0
  <2>2. DOMAIN messages' = 1 .. Len(messages) + 1
    BY <1>0, <1>1
  <2>3. \A i \in DOMAIN messages' :
          messages'[i] = m \/ (i \in DOMAIN messages /\ messages'[i] = messages[i])
    BY <1>0, <1>1, <2>1, <2>2
  <2> QED BY <2>3 DEF Range
<1>7. Short' => Short
  BY <1>0, <1>1, LimitAssumption DEF Short
<1>8. Null \notin Range(messages)
  BY <1>0, NullAssumption DEF Range
<1>9. ASSUME NEW u \in User, NEW S, Range(messages) \subseteq S \cup Got(u)
      PROVE  Range(messages)' \subseteq S \cup Got(u)'
  <2>1. m \in Got(u)'
    BY <1>4 DEF Got
  <2> QED BY <1>5, <1>6, <1>8, <1>9, <2>1
<1>10. ASSUME NEW q \in Request
       PROVE  Follows(req[q])'
  <2>1. CASE q = r
    BY <1>3, <2>1 DEF Follows
  <2>2. CASE q # r
    <3>1. Follows(req[q]) /\ req'[q] = req[q]
      BY <1>3, <2>2 DEF RoomInv
    <3> QED BY <1>0, <1>2, <1>7, <1>9, <3>1 DEF Follows
  <2> QED BY <2>1, <2>2
<1>11. ASSUME Short', NEW u \in caughtUp
       PROVE  Range(messages)' \subseteq Got(u)'
  <2>1. u \in User /\ Range(messages) \subseteq {} \cup Got(u)
    BY <1>0, <1>7, <1>11 DEF RoomInv
  <2>2. Range(messages)' \subseteq {} \cup Got(u)'
    BY <1>9, <2>1
  <2> QED BY <2>2
<1> QED BY <1>2, <1>10, <1>11 DEF RoomInv

\* A message that is emitted is shown to the whole room.
LEMMA EmitStep ==
  ASSUME TypeOK, RoomInv, NEW r \in Request, EmitMessage(r)
  PROVE  RoomInv'
<1>0. room \subseteq User /\ req[r] \in Handler
  BY DEF TypeOK
<1>1. UNCHANGED <<messages, room, caughtUp, unsaid>>
  BY DEF EmitMessage, chat, past
<1>2. (\A q \in Request \ {r} : req'[q] = req[q]) /\ req'[r] = Resting
  BY DEF EmitMessage, Finish, TypeOK
<1>3. \A u \in room : shown'[u] = shown[u] \cup {req[r].message}
  BY <1>0 DEF EmitMessage, Emit, Audience
<1>4. ASSUME NEW u \in room, NEW x \in Got(u)
      PROVE  x \in Got(u)'
  <2>1. CASE x \in AboutToBeEmitted
    <3>1. PICK q \in Request : x = req[q].message
      BY <2>1 DEF AboutToBeEmitted
    <3>2. CASE q = r
      BY <1>3, <3>1, <3>2 DEF Got
    <3>3. CASE q # r
      BY <1>2, <3>1, <3>3 DEF Got, AboutToBeEmitted
    <3> QED BY <3>2, <3>3
  <2>2. CASE x \in shown[u] \cup unsaid
    BY <1>1, <1>3, <2>2 DEF Got
  <2> QED BY <1>4, <2>1, <2>2 DEF Got
<1>5. Follows(req[r])'
  BY <1>2 DEF Follows, Resting
<1>6. \A u \in room : Got(u) \ {Null} \subseteq Got(u)'
  BY <1>4
<1> QED BY <1>1, <1>2, <1>5, <1>6, QuietStep

\* What leaving a page does to a handler: it marks the joins of the page, no more.
LEMMA LeaveMarks ==
  ASSUME TypeOK, NEW u, NEW q \in Request,
         req' = [r \in Request |-> [req[r] EXCEPT !.left = @ \/ r \in JoinsOf(u)]]
  PROVE  /\ req'[q].op = req[q].op /\ req'[q].pc = req[q].pc
         /\ req'[q].user = req[q].user /\ req'[q].other = req[q].other
         /\ req'[q].message = req[q].message /\ req'[q].history = req[q].history
         /\ ~req'[q].left => ~req[q].left /\ q \notin JoinsOf(u)
<1>1. req[q] \in Handler
  BY DEF TypeOK
<1>2. PICK b : b = (req[q].left \/ q \in JoinsOf(u))
  OBVIOUS
<1>3. req'[q] = [req[q] EXCEPT !.left = b]
  BY <1>2, Zenon
<1> QED BY <1>1, <1>2, <1>3 DEF Handler

\* A page that is left takes its reader out of the room, and its joins follow no more.
LEMMA LeaveStep ==
  ASSUME TypeOK, RoomInv, LeaveRoom
  PROVE  RoomInv'
<1>1. PICK u \in room :
        /\ room' = room \ {u}
        /\ shown' = [shown EXCEPT ![u] = {}]
        /\ caughtUp' = caughtUp \ {u}
        /\ req' = [r \in Request |-> [req[r] EXCEPT !.left = @ \/ r \in JoinsOf(u)]]
  BY DEF LeaveRoom
<1>2. UNCHANGED <<messages, unsaid>> /\ Range(messages)' = Range(messages)
  BY DEF LeaveRoom, chat, Range
<1>3. ASSUME NEW q \in Request
      PROVE  /\ req'[q].op = req[q].op /\ req'[q].pc = req[q].pc /\ req'[q].user = req[q].user
             /\ req'[q].message = req[q].message /\ req'[q].history = req[q].history
             /\ ~req'[q].left => ~req[q].left /\ q \notin JoinsOf(u)
  BY <1>1, LeaveMarks
<1>4. AboutToBeEmitted' = AboutToBeEmitted
  BY <1>3 DEF AboutToBeEmitted
<1>5. \A v \in User \ {u} : Got(v)' = Got(v)
  BY <1>1, <1>2, <1>4 DEF Got, TypeOK
<1>6. ASSUME NEW q \in Request
      PROVE  Follows(req[q])'
  <2>1. Follows(req[q])
    BY DEF RoomInv
  <2>2. CASE req[q].op = "joinProjectRoom" /\ ~req'[q].left
    <3>1. req[q].user # u /\ ~req[q].left /\ req[q].user \in User
      BY <1>3, <2>2 DEF JoinsOf, TypeOK, HandlerOK
    <3> QED BY <1>1, <1>2, <1>3, <1>5, <2>1, <2>2, <3>1 DEF Follows, Short
  <2>3. CASE ~(req[q].op = "joinProjectRoom" /\ ~req'[q].left)
    BY <1>3, <2>3 DEF Follows
  <2> QED BY <2>2, <2>3
<1>7. caughtUp' \subseteq room' /\ caughtUp' \subseteq User \ {u}
  BY <1>1 DEF RoomInv, TypeOK
<1>8. Short' => \A v \in caughtUp' : Range(messages)' \subseteq Got(v)'
  BY <1>1, <1>2, <1>5, <1>7 DEF RoomInv, Short
<1> QED BY <1>6, <1>7, <1>8 DEF RoomInv

LEMMA RoomStep == TypeOK /\ RoomInv /\ [Next]_vars => RoomInv'
<1> SUFFICES ASSUME TypeOK, RoomInv, [Next]_vars
             PROVE  RoomInv'
  OBVIOUS
<1>1. CASE ChangeRole \/ UNCHANGED vars
  <2>1. UNCHANGED <<messages, room, shown, req, caughtUp, unsaid>>
    BY <1>1 DEF ChangeRole, vars, chat, past
  <2> QED BY <2>1 DEF RoomInv, Follows, Short, Got, AboutToBeEmitted, Range
<1>2. CASE LeaveRoom
  BY <1>2, LeaveStep
<1>3. ASSUME NEW r \in Request,
             \/ ReadHistory(r) \/ SendHistory(r) \/ WriteMessage(r) \/ EmitMessage(r)
      PROVE  RoomInv'
  BY <1>3, ReadStep, HistoryStep, WriteStep, EmitStep
<1>4. ASSUME NEW r \in Request,
             \/ BeginJoinRoom(r) \/ CheckMembership(r) \/ JoinRoom(r)
             \/ BeginSend(r) \/ FindChannel(r) \/ CreateChannel(r)
             \/ BeginOpenThread(r) \/ FindThread(r) \/ CreateThread(r) \/ Abort(r)
      PROVE  RoomInv'
  BY <1>4, PlainStep
<1> QED BY <1>1, <1>2, <1>3, <1>4 DEF Next

\* join-project-room and sendProjectMessage: the room is joined before the history is read
\* and the message is written before it is emitted, so that nothing falls in between:
\* who is in the room and was sent the history of a conversation that fits in it has
\* every message, or is about to, whoever writes and however often the page is opened.
THEOREM NothingMissed == Spec => []NoMessageMissed
<1>1. Init => RoomInv
  BY DEF Init, RoomInv, Follows, Resting, Range
<1>2. TypeOK /\ RoomInv => NoMessageMissed
  BY DEF RoomInv, Short, Got, NoMessageMissed
<1> QED BY <1>1, <1>2, RoomStep, TypeCorrect, PTL DEF Spec

-----------------------------------------------------------------------------
(***************************************************************************)
(* The threads of two people, counted.                                      *)
(***************************************************************************)
ThreadsCounted(u, v) ==
  /\ IsFiniteSet(Threads(u, v))
  /\ Cardinality(Threads(u, v)) + Cardinality(Opening(u, v)) <= Cardinality(Request)

ThreadsInv == \A u, v \in User : u # v => ThreadsCounted(u, v)

\* A set of handlers is finite, and no larger than they are many.
LEMMA HandlersCounted ==
  ASSUME NEW S, S \subseteq Request
  PROVE  /\ IsFiniteSet(S) /\ Cardinality(S) \in Nat /\ Cardinality(Request) \in Nat
         /\ Cardinality(S) <= Cardinality(Request)
BY RequestAssumption, FS_Subset, FS_CardinalityType

\* Only the search that finds no thread of two people makes a handler one that opens it.
LEMMA OldOpening ==
  ASSUME TypeOK, [Next]_vars, NEW u, NEW v, NEW q \in Opening(u, v)'
  PROVE  \/ q \in Opening(u, v)
         \/ At(q, "openDirectConversation", "find") /\ Threads(u, v) = {} /\ UNCHANGED thread
<1>1. /\ q \in Request /\ req'[q].op = "openDirectConversation" /\ req'[q].pc = "create"
      /\ {req'[q].user, req'[q].other} = {u, v}
  BY DEF Opening, At
<1>2. req[q] \in Handler
  BY <1>1 DEF TypeOK
<1>3. CASE req'[q] = req[q]
  BY <1>1, <1>3 DEF Opening, At
<1>4. ASSUME NEW r \in Request, Finish(r)
      PROVE  req'[q] = req[q]
  BY <1>1, <1>4 DEF Finish, Resting, TypeOK
<1>5. ASSUME NEW r \in Request, BeginJoinRoom(r) \/ BeginSend(r) \/ BeginOpenThread(r)
      PROVE  req'[q] = req[q]
  <2>1. req'[r].pc \in {"member", "find"}
    BY <1>5, BeginStep
  <2>2. q # r
    BY <1>1, <2>1
  <2> QED BY <1>1, <1>5, <2>2 DEF BeginJoinRoom, BeginSend, BeginOpenThread, Accept, TypeOK
<1>6. ASSUME NEW r \in Request, NEW s, Goto(r, s),
             s # "create" \/ req[r].op # "openDirectConversation"
      PROVE  req'[q] = req[q]
  <2>1. CASE q = r
    <3>1. req'[q] = [req[q] EXCEPT !.pc = s]
      BY <1>1, <1>6, <2>1 DEF Goto, TypeOK
    <3>2. req'[q].pc = s /\ req'[q].op = req[q].op
      BY <1>2, <3>1 DEF Handler
    <3> QED BY <1>1, <1>6, <2>1, <3>2
  <2>2. CASE q # r
    BY <1>6, <2>2 DEF Goto, TypeOK
  <2> QED BY <2>1, <2>2
<1>7. ASSUME NEW r \in Request,
             \/ CheckMembership(r) \/ JoinRoom(r) \/ FindChannel(r) \/ CreateChannel(r)
      PROVE  req'[q] = req[q]
  <2>1. CASE CheckMembership(r)
    BY <1>4, <1>6, <2>1 DEF CheckMembership
  <2>2. CASE JoinRoom(r)
    BY <1>6, <2>2 DEF JoinRoom
  <2>3. CASE FindChannel(r) \/ CreateChannel(r)
    <3>1. req[r].op # "openDirectConversation"
      BY <2>3 DEF FindChannel, CreateChannel, At
    <3>2. Finish(r) \/ \E s \in {"write", "create"} : Goto(r, s)
      BY <2>3 DEF FindChannel, CreateChannel
    <3> QED BY <1>4, <1>6, <3>1, <3>2
  <2> QED BY <1>7, <2>1, <2>2, <2>3
<1>8. ASSUME NEW r \in Request, ReadHistory(r) \/ WriteMessage(r)
      PROVE  req'[q] = req[q]
  <2>1. req'[q] = req[q] \/ req'[q].pc \in {"send", "emit"}
    BY <1>1, <1>2, <1>8 DEF ReadHistory, WriteMessage, TypeOK, Handler
  <2> QED BY <1>1, <2>1
<1>9. ASSUME NEW r \in Request, FindThread(r), req'[q] # req[q]
      PROVE  At(q, "openDirectConversation", "find") /\ Threads(u, v) = {} /\ UNCHANGED thread
  <2>1. ~Found(req[r]) /\ req' = [req EXCEPT ![r].pc = "create"]
    BY <1>4, <1>9 DEF FindThread, Goto
  <2>2. q = r /\ req'[q] = [req[q] EXCEPT !.pc = "create"]
    BY <1>1, <1>9, <2>1 DEF TypeOK
  <2>3. {req[q].user, req[q].other} = {u, v}
    BY <1>1, <1>2, <2>2 DEF Handler
  <2>4. Threads(req[q].user, req[q].other) = {}
    BY <2>1, <2>2 DEF Found
  <2>5. Threads(u, v) = {}
    BY <2>3, <2>4 DEF Threads
  <2> QED BY <1>9, <2>2, <2>5 DEF FindThread
<1>10. CASE LeaveRoom
  <2>1. /\ req'[q].op = req[q].op /\ req'[q].pc = req[q].pc
        /\ req'[q].user = req[q].user /\ req'[q].other = req[q].other
    <3>1. PICK w \in room :
            req' = [r \in Request |-> [req[r] EXCEPT !.left = @ \/ r \in JoinsOf(w)]]
      BY <1>10 DEF LeaveRoom
    <3> QED BY <1>1, <3>1, LeaveMarks
  <2> QED BY <1>1, <2>1 DEF Opening, At
<1>11. ChangeRole \/ UNCHANGED vars => UNCHANGED req
  BY DEF ChangeRole, vars
<1> QED BY <1>3, <1>4, <1>5, <1>7, <1>8, <1>9, <1>10, <1>11
        DEF Next, SendHistory, EmitMessage, CreateThread, Abort

\* Only a handler at its last step adds a thread, that of the two people it is for.
LEMMA NewThread ==
  ASSUME TypeOK, [Next]_vars
  PROVE  \/ UNCHANGED thread
         \/ \E r \in Request, t \in Thread : CreateThread(r) /\
              thread' = [thread EXCEPT ![t] = {req[r].user, req[r].other}]
<1>1. (\E r \in Request : CreateThread(r)) \/ UNCHANGED thread
  BY DEF Next, vars, BeginJoinRoom, CheckMembership, JoinRoom, ReadHistory, SendHistory,
         BeginSend, FindChannel, CreateChannel, WriteMessage, EmitMessage,
         BeginOpenThread, FindThread, Abort, LeaveRoom, ChangeRole
<1> QED BY <1>1 DEF CreateThread

LEMMA ThreadsStep ==
  ASSUME TypeOK, [Next]_vars, NEW u \in User, NEW v \in User, u # v, ThreadsCounted(u, v)
  PROVE  ThreadsCounted(u, v)'
<1>0. Opening(u, v) \subseteq Request /\ Opening(u, v)' \subseteq Request
  BY DEF Opening
<1>1. /\ IsFiniteSet(Opening(u, v))
      /\ Cardinality(Opening(u, v)) \in Nat /\ Cardinality(Opening(u, v)') \in Nat
      /\ Cardinality(Request) \in Nat /\ Cardinality(Opening(u, v)') <= Cardinality(Request)
      /\ Cardinality(Threads(u, v)) \in Nat
  BY <1>0, HandlersCounted, FS_CardinalityType DEF ThreadsCounted
<1>2. CASE UNCHANGED thread /\ Threads(u, v) = {}
  <2>1. Threads(u, v)' = {}
    BY <1>2 DEF Threads
  <2>2. IsFiniteSet(Threads(u, v)') /\ Cardinality(Threads(u, v)') = 0
    BY <2>1, FS_EmptySet
  <2> QED BY <1>1, <2>2 DEF ThreadsCounted
<1>3. CASE UNCHANGED thread /\ Threads(u, v) # {}
  <2>1. Threads(u, v)' = Threads(u, v)
    BY <1>3 DEF Threads
  <2>2. Opening(u, v)' \subseteq Opening(u, v)
    BY <1>3, OldOpening
  <2>3. Cardinality(Opening(u, v)') <= Cardinality(Opening(u, v))
    BY <1>1, <2>2, FS_Subset
  <2> QED BY <1>1, <2>1, <2>3 DEF ThreadsCounted
<1>4. CASE ~ UNCHANGED thread
  <2>1. PICK r \in Request, t \in Thread :
          CreateThread(r) /\ thread' = [thread EXCEPT ![t] = {req[r].user, req[r].other}]
    BY <1>4, NewThread
  <2>2. req' = [req EXCEPT ![r] = Resting] /\ At(r, "openDirectConversation", "create")
    BY <2>1 DEF CreateThread, Finish
  <2>3. Opening(u, v)' \subseteq Opening(u, v)
    BY <2>2 DEF Opening, At, Resting, TypeOK
  <2>4. CASE {req[r].user, req[r].other} = {u, v}
    <3>1. r \in Opening(u, v) /\ r \notin Opening(u, v)'
      BY <2>2, <2>4 DEF Opening, At, Resting, TypeOK
    <3>2. /\ IsFiniteSet(Opening(u, v) \ {r})
          /\ Cardinality(Opening(u, v) \ {r}) = Cardinality(Opening(u, v)) - 1
      BY <1>1, <3>1, FS_RemoveElement
    <3>3. Cardinality(Opening(u, v)') <= Cardinality(Opening(u, v) \ {r})
      BY <2>3, <3>1, <3>2, FS_Subset
    <3>4. Threads(u, v)' \subseteq Threads(u, v) \cup {t}
      BY <2>1 DEF Threads, TypeOK
    <3>5. /\ IsFiniteSet(Threads(u, v) \cup {t})
          /\ Cardinality(Threads(u, v) \cup {t}) <= Cardinality(Threads(u, v)) + 1
      <4>1. /\ IsFiniteSet(Threads(u, v) \cup {t})
            /\ \/ Cardinality(Threads(u, v) \cup {t}) = Cardinality(Threads(u, v))
               \/ Cardinality(Threads(u, v) \cup {t}) = Cardinality(Threads(u, v)) + 1
        BY FS_AddElement DEF ThreadsCounted
      <4> QED BY <1>1, <4>1
    <3>6. /\ IsFiniteSet(Threads(u, v)')
          /\ Cardinality(Threads(u, v)') <= Cardinality(Threads(u, v) \cup {t})
          /\ Cardinality(Threads(u, v)') \in Nat
          /\ Cardinality(Threads(u, v) \cup {t}) \in Nat
      BY <3>4, <3>5, FS_Subset, FS_CardinalityType
    <3> QED BY <1>1, <3>2, <3>3, <3>5, <3>6 DEF ThreadsCounted
  <2>5. CASE {req[r].user, req[r].other} # {u, v}
    <3>1. Threads(u, v)' \subseteq Threads(u, v)
      <4> SUFFICES ASSUME NEW s \in Thread, {u, v} \subseteq thread'[s]
                   PROVE  {u, v} \subseteq thread[s]
        BY DEF Threads
      <4>1. s # t
        BY <2>1, <2>5 DEF TypeOK
      <4> QED BY <2>1, <4>1 DEF TypeOK
    <3>2. /\ IsFiniteSet(Threads(u, v)') /\ Cardinality(Threads(u, v)') \in Nat
          /\ Cardinality(Threads(u, v)') <= Cardinality(Threads(u, v))
      BY <3>1, FS_Subset, FS_CardinalityType DEF ThreadsCounted
    <3>3. Cardinality(Opening(u, v)') <= Cardinality(Opening(u, v))
      BY <1>1, <2>3, FS_Subset
    <3> QED BY <1>1, <3>2, <3>3 DEF ThreadsCounted
  <2> QED BY <2>4, <2>5
<1> QED BY <1>2, <1>3, <1>4

\* openDirectConversation: however many people open threads with one another at the same
\* moment, two of them never have more threads than there are requests in flight: one, when
\* requests are served one at a time.
THEOREM ThreadsDoNotPileUp == Spec => []ThreadsBounded
<1>1. Init => ThreadsInv
  <2> SUFFICES ASSUME Init, NEW u \in User, NEW v \in User
               PROVE  ThreadsCounted(u, v)
    BY DEF ThreadsInv
  <2>1. Threads(u, v) = {} /\ Opening(u, v) = {}
    BY DEF Init, Threads, Opening, At, Resting
  <2> QED BY <2>1, FS_EmptySet, RequestAssumption, FS_CardinalityType DEF ThreadsCounted
<1>2. TypeOK /\ ThreadsInv /\ [Next]_vars => ThreadsInv'
  BY ThreadsStep DEF ThreadsInv
<1>3. ThreadsInv => ThreadsBounded
  BY DEF ThreadsInv, ThreadsCounted, ThreadsBounded
<1> QED BY <1>1, <1>2, <1>3, TypeCorrect, PTL DEF Spec

-----------------------------------------------------------------------------
(***************************************************************************)
(* Departures, from any instance that fits the tables, whatever the project  *)
(* service writes meanwhile.                                                *)
(***************************************************************************)
\* Which handler takes which way, and what it holds by then.
LeaverOK(h) ==
  /\ h.pc \in {"replacement", "commit"} <=> h.op = "deleteUser"
  /\ h.op = "deleteUser" =>
       /\ h.user \in Colleague /\ h.user # h.to
       /\ h.to = Null => ~h.owns /\ h.tasks = {}
  /\ h.pc \in {"members", "clear", "create"} <=> h.op = "assignUsersToTask"
  /\ h.pc \in {"members", "clear"} => h.left = h.users
  /\ h.pc = "create" => h.left \subseteq h.users /\ h.left # {}

\* A deletion has counted all its user holds, unless more slipped in.
Counted(h) ==
  h.op = "deleteUser" /\ h.user \notin slipped =>
    (Departures!OwnsLive(h.user) => h.owns) /\ Departures!TasksOf(h.user) \subseteq h.tasks

\* An assignment that met no other has put on its task those it is done with.
Placed(h) ==
  h.pc = "create" /\ ~h.met => \A t \in h.tasks : Departures!Assignees(t) = h.users \ h.left

DepartureInv ==
  /\ Departures!TypeOK
  /\ \A r \in Request : LeaverOK(work[r])
  /\ \A r \in Request : Counted(work[r])
  /\ \A r \in Request : Placed(work[r])
  /\ Departures!WorkInLivingHands

-----------------------------------------------------------------------------
LEMMA LeaversInit == ASSUME Departures!PlansFit, Departures!Init PROVE DepartureInv
<1>1. Departures!TypeOK
  <2>1. PICK p \in Plan : project = p.project /\ member = p.member /\ assigned = p.assigned
    BY DEF Departures!Init
  <2> QED BY <2>1 DEF Departures!PlansFit, Departures!Init, Departures!TypeOK,
                      Departures!Handler, Departures!Resting, Departures!Op,
                      Departures!Step
<1>2. \A r \in Request : LeaverOK(work[r]) /\ Counted(work[r]) /\ Placed(work[r])
  BY DEF Departures!Init, LeaverOK, Counted, Placed, Departures!Resting
<1>3. Departures!WorkInLivingHands
  BY DEF Departures!Init, Departures!WorkInLivingHands, Departures!Live
<1> QED BY <1>1, <1>2, <1>3 DEF DepartureInv

\* A step that writes no row keeps what the handlers hold, but for the one it moves.
LEMMA LeaverReads ==
  ASSUME DepartureInv, UNCHANGED <<Departures!rows, slipped>>, NEW r \in Request,
         NEW h \in Departures!Handler,
         work' = [work EXCEPT ![r] = h], LeaverOK(h), Counted(h), Placed(h)
  PROVE  DepartureInv'
<1>1. UNCHANGED <<account, project, member, assigned, slipped>>
  BY DEF Departures!rows
<1>2. Departures!TypeOK'
  BY <1>1 DEF DepartureInv, Departures!TypeOK
<1>3. \A q \in Request : work'[q] \in {h, work[q]}
  BY DEF DepartureInv, Departures!TypeOK
<1>4. \A g : /\ Counted(g) => Counted(g)'
             /\ Placed(g) => Placed(g)'
             /\ LeaverOK(g) => LeaverOK(g)'
  BY <1>1 DEF Counted, Placed, LeaverOK, Departures!OwnsLive, Departures!TasksOf,
              Departures!Assignees
<1>5. \A q \in Request : LeaverOK(work'[q]) /\ Counted(work'[q]) /\ Placed(work'[q])
  BY <1>3 DEF DepartureInv
<1>6. Departures!WorkInLivingHands'
  BY <1>1 DEF DepartureInv, Departures!WorkInLivingHands, Departures!Live,
              Departures!OwnsLive, Departures!TasksOf
<1> QED BY <1>1, <1>2, <1>5, <1>6
        DEF DepartureInv, LeaverOK, Counted, Placed, Departures!OwnsLive,
            Departures!TasksOf, Departures!Assignees

\* The steps that only read, begin, or give up.
LEMMA LeaverReadSteps ==
  ASSUME DepartureInv, NEW r \in Request,
         \/ Departures!BeginDeleteUser(r) \/ Departures!CheckReplacement(r)
         \/ Departures!DeleteUserFails(r)
         \/ Departures!BeginAssignUsers(r) \/ Departures!CheckMembers(r)
         \/ Departures!BeginUnassign(r) \/ Departures!Abort(r)
  PROVE  DepartureInv'
<1>0. work[r] \in Departures!Handler /\ LeaverOK(work[r]) /\ Counted(work[r])
  BY DEF DepartureInv, Departures!TypeOK
<1>1. UNCHANGED <<Departures!rows, slipped>>
  BY DEF Departures!BeginDeleteUser, Departures!CheckReplacement,
         Departures!DeleteUserFails, Departures!BeginAssignUsers, Departures!CheckMembers,
         Departures!BeginUnassign, Departures!Abort
<1>2. ASSUME Departures!Finish(r)
      PROVE  DepartureInv'
  <2>1. Departures!Resting \in Departures!Handler
    BY DEF Departures!Resting, Departures!Handler, Departures!Op, Departures!Step
  <2>2. LeaverOK(Departures!Resting) /\ Counted(Departures!Resting) /\ Placed(Departures!Resting)
    BY DEF Departures!Resting, LeaverOK, Counted, Placed
  <2> QED BY <1>1, <1>2, <2>1, <2>2, LeaverReads DEF Departures!Finish
<1>3. CASE Departures!BeginDeleteUser(r)
  <2>1. PICK u \in Departures!Live, w \in Colleague \cup {Null} :
          /\ u # w
          /\ Departures!Impact(u) => w # Null
          /\ Departures!Accept(r, [Departures!Resting EXCEPT
               !.op = "deleteUser", !.user = u, !.to = w,
               !.pc = IF w = Null THEN "commit" ELSE "replacement",
               !.owns = Departures!OwnsLive(u), !.tasks = Departures!TasksOf(u),
               !.belongs = u \in member /\ project.state = "live"])
    BY <1>3 DEF Departures!BeginDeleteUser
  <2>2. PICK h : h = [Departures!Resting EXCEPT
               !.op = "deleteUser", !.user = u, !.to = w,
               !.pc = IF w = Null THEN "commit" ELSE "replacement",
               !.owns = Departures!OwnsLive(u), !.tasks = Departures!TasksOf(u),
               !.belongs = u \in member /\ project.state = "live"]
    OBVIOUS
  <2>3. /\ h.op = "deleteUser" /\ h.user = u /\ h.to = w /\ h.owns = Departures!OwnsLive(u)
        /\ h.tasks = Departures!TasksOf(u) /\ h.pc \in {"commit", "replacement"}
    BY <2>2 DEF Departures!Resting
  <2>4. h \in Departures!Handler
    <3>1. u \in Colleague /\ Departures!TasksOf(u) \subseteq Task
      BY DEF Departures!Live, Departures!TasksOf
    <3>2. Departures!OwnsLive(u) \in BOOLEAN /\ (u \in member /\ project.state = "live") \in BOOLEAN
      BY DEF Departures!OwnsLive
    <3>3. PICK b \in BOOLEAN, o \in BOOLEAN :
            b = (u \in member /\ project.state = "live") /\ o = Departures!OwnsLive(u)
      BY <3>2, Zenon
    <3>4. PICK pc \in {"commit", "replacement"} :
            pc = IF w = Null THEN "commit" ELSE "replacement"
      OBVIOUS
    <3>5. h = [Departures!Resting EXCEPT !.op = "deleteUser", !.user = u, !.to = w, !.pc = pc,
                              !.owns = o, !.tasks = Departures!TasksOf(u), !.belongs = b]
      BY <2>2, <3>3, <3>4, Zenon
    <3> QED BY <3>1, <3>5 DEF Departures!Resting, Departures!Handler, Departures!Op,
                              Departures!Step
  <2>5. LeaverOK(h)
    BY <2>1, <2>3 DEF LeaverOK, Departures!Impact, Departures!Live
  <2>6. Counted(h) /\ Placed(h)
    BY <2>3 DEF Counted, Placed
  <2> QED BY <1>1, <2>1, <2>2, <2>4, <2>5, <2>6, LeaverReads DEF Departures!Accept
<1>4. ASSUME NEW pc \in {"commit", "clear"}, work' = [work EXCEPT ![r].pc = pc],
             pc = "commit" => Departures!At(r, "replacement"),
             pc = "clear" => Departures!At(r, "members")
      PROVE  DepartureInv'
  <2>1. PICK h : h = [work[r] EXCEPT !.pc = pc]
    OBVIOUS
  <2>2. /\ h \in Departures!Handler /\ h.op = work[r].op
        /\ h.user = work[r].user /\ h.to = work[r].to
        /\ h.owns = work[r].owns /\ h.tasks = work[r].tasks /\ h.pc = pc
        /\ h.left = work[r].left /\ h.users = work[r].users
    BY <1>0, <2>1 DEF Departures!Handler, Departures!Step
  <2>3. LeaverOK(h) /\ Counted(h) /\ Placed(h)
    BY <1>0, <1>4, <2>2 DEF Departures!At, LeaverOK, Counted, Placed
  <2>4. work' = [work EXCEPT ![r] = h]
    BY <1>4, <2>1
  <2> QED BY <1>1, <2>2, <2>3, <2>4, LeaverReads
<1>5. CASE Departures!CheckReplacement(r)
  BY <1>2, <1>4, <1>5 DEF Departures!CheckReplacement
<1>6. CASE Departures!DeleteUserFails(r) \/ Departures!Abort(r)
  BY <1>2, <1>6 DEF Departures!DeleteUserFails, Departures!Abort
<1>7. CASE Departures!BeginAssignUsers(r)
  <2>1. PICK t \in Task, users \in SUBSET Departures!Live :
          Departures!Accept(r, [Departures!Resting EXCEPT !.op = "assignUsersToTask",
            !.pc = "members",
                                    !.tasks = {t}, !.users = users, !.left = users])
    BY <1>7 DEF Departures!BeginAssignUsers
  <2>2. PICK h : h = [Departures!Resting EXCEPT !.op = "assignUsersToTask", !.pc = "members",
                                     !.tasks = {t}, !.users = users, !.left = users]
    OBVIOUS
  <2>3. h \in Departures!Handler /\ LeaverOK(h) /\ Counted(h) /\ Placed(h)
    BY <2>2 DEF Departures!Live, Departures!Resting, Departures!Handler, Departures!Op,
                Departures!Step, LeaverOK, Counted, Placed
  <2> QED BY <1>1, <2>1, <2>2, <2>3, LeaverReads DEF Departures!Accept
<1>8. CASE Departures!CheckMembers(r)
  BY <1>2, <1>4, <1>8 DEF Departures!CheckMembers
<1>9. CASE Departures!BeginUnassign(r)
  <2>1. PICK t \in Task, u \in Colleague :
          Departures!Accept(r, [Departures!Resting EXCEPT !.op = "unassignUserFromTask",
            !.pc = "delete",
                                    !.tasks = {t}, !.users = {u}])
    BY <1>9 DEF Departures!BeginUnassign, Departures!Assignees
  <2>2. PICK h : h = [Departures!Resting EXCEPT !.op = "unassignUserFromTask", !.pc = "delete",
                                     !.tasks = {t}, !.users = {u}]
    OBVIOUS
  <2>3. h \in Departures!Handler /\ LeaverOK(h) /\ Counted(h) /\ Placed(h)
    BY <2>2 DEF Departures!Resting, Departures!Handler, Departures!Op, Departures!Step,
                LeaverOK, Counted, Placed
  <2> QED BY <1>1, <2>1, <2>2, <2>3, LeaverReads DEF Departures!Accept
<1> QED BY <1>3, <1>5, <1>6, <1>7, <1>8, <1>9

-----------------------------------------------------------------------------
(***************************************************************************)
(* The steps that write.                                                    *)
(***************************************************************************)
\* Whoever was deleted, or is being, and does not slip is given no work.
LEMMA NoGift ==
  ASSUME Departures!NoteSlips, NEW u \in Colleague \ slipped',
         u \notin Departures!Live \/ Departures!Leaving(u)
  PROVE  /\ Departures!OwnsLive(u)' => Departures!OwnsLive(u)
         /\ Departures!TasksOf(u)' \subseteq Departures!TasksOf(u)
<1>1. ~Departures!GivenWork(u)
  BY DEF Departures!NoteSlips
<1> QED BY <1>1 DEF Departures!GivenWork, Departures!TasksOf

LEMMA HandsKept ==
  ASSUME Departures!WorkInLivingHands, Departures!NoteSlips, account' = account
  PROVE  Departures!WorkInLivingHands'
<1> SUFFICES ASSUME NEW u \in Colleague, u \notin Departures!Live', u \notin slipped'
             PROVE  ~Departures!OwnsLive(u)' /\ Departures!TasksOf(u)' = {}
  BY DEF Departures!WorkInLivingHands
<1>1. u \notin Departures!Live /\ u \notin slipped
  BY DEF Departures!Live, Departures!NoteSlips
<1> QED BY <1>1, NoGift DEF Departures!WorkInLivingHands

\* What a commit does to the handlers: the others keep what they hold, and an assignment
\* whose task it touches knows that it met another.
LEMMA LeaverMet ==
  ASSUME Departures!TypeOK, NEW r \in Request, NEW h, Departures!Commit(r, h),
         NEW q \in Request \ {r}
  PROVE  /\ work'[q] \in Departures!Handler
         /\ work'[q].op = work[q].op /\ work'[q].pc = work[q].pc /\ work'[q].user = work[q].user
         /\ work'[q].to = work[q].to /\ work'[q].owns = work[q].owns
         /\ work'[q].tasks = work[q].tasks /\ work'[q].users = work[q].users
         /\ work'[q].left = work[q].left
         /\ ~work'[q].met => ~work[q].met
         /\ ~work'[q].met /\ work[q].op = "assignUsersToTask" =>
              \A t \in work[q].tasks : Departures!Assignees(t)' = Departures!Assignees(t)
<1>1. work[q] \in Departures!Handler
  BY DEF Departures!TypeOK
<1>2. PICK b \in BOOLEAN :
        b = (work[q].met \/ (/\ work[q].op = "assignUsersToTask"
                            /\ \E t \in work[q].tasks : Departures!Assignees(t)' # Departures!Assignees(t)))
  <2>1. (work[q].met \/ (/\ work[q].op = "assignUsersToTask"
                        /\ \E t \in work[q].tasks : Departures!Assignees(t)' # Departures!Assignees(t))) \in BOOLEAN
    OBVIOUS
  <2> QED BY <2>1, Zenon
<1>3. work'[q] = [work[q] EXCEPT !.met = b]
  BY <1>2, Zenon DEF Departures!Commit
<1> QED BY <1>1, <1>2, <1>3 DEF Departures!Handler

LEMMA LeaverCommits ==
  ASSUME DepartureInv, NEW r \in Request, NEW h \in Departures!Handler, LeaverOK(h),
         Counted(h)', Placed(h)', Departures!Commit(r, h)
  PROVE  /\ work' \in [Request -> Departures!Handler] /\ slipped' \subseteq Colleague
         /\ \A q \in Request : LeaverOK(work[q])' /\ Counted(work[q])' /\ Placed(work[q])'
<1>1. Departures!TypeOK
  BY DEF DepartureInv
<1>2. work'[r] = h
  BY DEF Departures!Commit
<1>3. work' \in [Request -> Departures!Handler]
  <2>1. \A q \in Request : work'[q] \in Departures!Handler
    BY <1>1, <1>2, LeaverMet
  <2> QED BY <2>1 DEF Departures!Commit
<1>4. slipped \subseteq slipped' /\ slipped' \subseteq Colleague
  BY <1>1 DEF Departures!Commit, Departures!NoteSlips, Departures!TypeOK
<1>5. ASSUME NEW q \in Request \ {r}
      PROVE  LeaverOK(work[q])' /\ Counted(work[q])' /\ Placed(work[q])'
  <2>1. LeaverOK(work[q]) /\ Counted(work[q]) /\ Placed(work[q])
    BY DEF DepartureInv
  <2>2. LeaverOK(work[q])'
    BY <1>1, <2>1, LeaverMet DEF LeaverOK
  <2>3. Counted(work[q])'
    <3> SUFFICES ASSUME work[q].op = "deleteUser", work[q].user \notin slipped'
                 PROVE  Counted(work[q])'
      BY <1>1, LeaverMet DEF Counted
    <3>1. work[q].user \in Colleague \ slipped' /\ Departures!Leaving(work[q].user)
        /\ Departures!NoteSlips
      BY <2>1 DEF LeaverOK, Departures!Leaving, Departures!Commit
    <3>2. PICK u : u = work[q].user
      OBVIOUS
    <3>3. /\ Departures!OwnsLive(u)' => Departures!OwnsLive(u)
          /\ Departures!TasksOf(u)' \subseteq Departures!TasksOf(u)
      BY <3>1, <3>2, NoGift
    <3>4. work'[q].user = u /\ work'[q].owns = work[q].owns /\ work'[q].tasks = work[q].tasks
      BY <1>1, <3>2, LeaverMet
    <3> QED BY <1>4, <2>1, <3>2, <3>3, <3>4 DEF Counted
  <2>4. Placed(work[q])'
    <3> SUFFICES ASSUME work[q].pc = "create", ~work'[q].met
                 PROVE  Placed(work[q])'
      BY <1>1, LeaverMet DEF Placed
    <3>1. work[q].op = "assignUsersToTask"
      BY <2>1 DEF LeaverOK
    <3>2. \A t \in work[q].tasks : Departures!Assignees(t)' = Departures!Assignees(t)
      BY <1>1, <3>1, LeaverMet
    <3>3. /\ work'[q].tasks = work[q].tasks /\ work'[q].users = work[q].users
          /\ work'[q].left = work[q].left /\ ~work[q].met
      BY <1>1, LeaverMet
    <3> QED BY <2>1, <3>2, <3>3 DEF Placed
  <2> QED BY <2>2, <2>3, <2>4
<1>6. LeaverOK(work[r])' /\ Counted(work[r])' /\ Placed(work[r])'
  BY <1>2 DEF LeaverOK, Counted, Placed
<1> QED BY <1>3, <1>4, <1>5, <1>6

LEMMA LeaverRests ==
  /\ Departures!Resting \in Departures!Handler /\ LeaverOK(Departures!Resting)
  /\ Counted(Departures!Resting)' /\ Placed(Departures!Resting)'
BY DEF Departures!Resting, Departures!Handler, Departures!Op, Departures!Step, LeaverOK,
       Counted, Placed

\* deleteUser hands over all that its user holds, since all of it was counted.
LEMMA DeleteStep ==
  ASSUME DepartureInv, NEW r \in Request, Departures!DeleteUser(r)
  PROVE  DepartureInv'
<1> PICK h : h = work[r]
  OBVIOUS
<1>1. /\ h \in Departures!Handler /\ LeaverOK(h) /\ Counted(h) /\ h.op = "deleteUser"
      /\ h.user \in Colleague /\ h.user # h.to
  BY DEF DepartureInv, Departures!TypeOK, Departures!DeleteUser, Departures!At, LeaverOK
<1>2. /\ account' = [account EXCEPT ![h.user] = "deleted"]
      /\ IF h.to = Null THEN UNCHANGED <<project, member, assigned>>
         ELSE /\ project' = [project EXCEPT !.owner = Departures!NewOwner(h)]
              /\ assigned' = Departures!Reassigned(h)
              /\ member' = IF h.belongs THEN member \cup {h.to} ELSE member
      /\ Departures!Commit(r, Departures!Resting)
  BY DEF Departures!DeleteUser
<1>3. Departures!TypeOK
  BY DEF DepartureInv
<1>4. /\ work' \in [Request -> Departures!Handler] /\ slipped' \subseteq Colleague
      /\ \A q \in Request : LeaverOK(work[q])' /\ Counted(work[q])' /\ Placed(work[q])'
  BY <1>2, LeaverRests, LeaverCommits
<1>5. Departures!TypeOK'
  <2>1. h.tasks \subseteq Task /\ (h.to # Null => h.to \in Colleague)
    BY <1>1 DEF Departures!Handler
  <2>2. project' \in [state : {"none", "live", "trashed"}, owner : Colleague \cup {Null}]
    BY <1>2, <1>3, <2>1 DEF Departures!TypeOK, Departures!NewOwner
  <2>3. assigned' \subseteq Task \X Colleague /\ member' \subseteq Colleague
    BY <1>2, <1>3, <2>1 DEF Departures!TypeOK, Departures!Reassigned
  <2>4. account' \in [Colleague -> {"live", "deleted"}]
    BY <1>2, <1>3 DEF Departures!TypeOK
  <2> QED BY <1>4, <2>2, <2>3, <2>4 DEF Departures!TypeOK
<1>6. slipped \subseteq slipped' /\ Departures!NoteSlips
  BY <1>2 DEF Departures!Commit, Departures!NoteSlips
<1>7. Departures!WorkInLivingHands'
  <2> SUFFICES ASSUME NEW v \in Colleague, v \notin Departures!Live', v \notin slipped'
               PROVE  ~Departures!OwnsLive(v)' /\ Departures!TasksOf(v)' = {}
    BY DEF Departures!WorkInLivingHands
  <2>1. CASE v # h.user
    <3>1. v \notin Departures!Live /\ v \notin slipped
      BY <1>2, <1>3, <1>6, <2>1 DEF Departures!Live, Departures!TypeOK
    <3> QED BY <1>6, <3>1, NoGift DEF DepartureInv, Departures!WorkInLivingHands
  <2>2. CASE v = h.user
    <3>1. (Departures!OwnsLive(v) => h.owns) /\ Departures!TasksOf(v) \subseteq h.tasks
      BY <1>1, <1>6, <2>2 DEF Counted
    <3>2. CASE h.to = Null
      BY <1>1, <1>2, <3>1, <3>2 DEF LeaverOK, Departures!OwnsLive, Departures!TasksOf
    <3>3. CASE h.to # Null
      <4>1. ~Departures!OwnsLive(v)'
        <5>1. project'.state = project.state /\ project'.owner = Departures!NewOwner(h)
          BY <1>2, <1>3, <3>3 DEF Departures!TypeOK
        <5> QED BY <1>1, <2>2, <3>1, <5>1 DEF Departures!OwnsLive, Departures!NewOwner
      <4>2. ASSUME NEW t \in Departures!TasksOf(v)'
            PROVE  FALSE
        <5>1. t \in Task /\ <<t, v>> \in Departures!Reassigned(h)
          BY <1>2, <3>3 DEF Departures!TasksOf
        <5>2. <<t, v>> \in assigned /\ t \notin h.tasks
          BY <1>1, <2>2, <5>1 DEF Departures!Reassigned
        <5> QED BY <3>1, <5>1, <5>2 DEF Departures!TasksOf
      <4> QED BY <4>1, <4>2
    <3> QED BY <3>2, <3>3
  <2> QED BY <2>1, <2>2
<1> QED BY <1>4, <1>5, <1>7 DEF DepartureInv

\* What a handler of an assignment leaves on its task with each write.
LEMMA AssignSteps ==
  ASSUME DepartureInv, NEW r \in Request, NEW t \in work[r].tasks,
         \/ Departures!ClearAssignees(r)
         \/ Departures!CreateAssignment(r) /\ ~work[r].met
  PROVE  /\ work'[r] = Departures!Resting => Departures!Assignees(t)' = work[r].users
         /\ work'[r] # Departures!Resting =>
              Departures!Assignees(t)' = work[r].users \ work'[r].left
<1> PICK h : h = work[r]
  OBVIOUS
<1>1. h \in Departures!Handler /\ LeaverOK(h) /\ Placed(h)
      /\ t \in Task /\ h.users \subseteq Colleague
  BY DEF DepartureInv, Departures!TypeOK, Departures!Handler
<1>2. CASE Departures!ClearAssignees(r)
  <2>1. assigned' = Departures!Cleared(h)
        /\ Departures!Commit(r,
                              IF h.users = {} THEN Departures!Resting ELSE [h EXCEPT !.pc = "create"])
        /\ h.pc = "clear"
    BY <1>2 DEF Departures!ClearAssignees, Departures!At
  <2>2. Departures!Assignees(t)' = {}
    BY <2>1 DEF Departures!Assignees, Departures!Cleared
  <2>3. CASE h.users = {}
    BY <2>1, <2>2, <2>3 DEF Departures!Commit
  <2>4. CASE h.users # {}
    <3>1. work'[r] = [h EXCEPT !.pc = "create"]
      BY <2>1, <2>4 DEF Departures!Commit
    <3>2. work'[r].left = h.users /\ work'[r].pc = "create"
      BY <1>1, <2>1, <3>1 DEF LeaverOK, Departures!Handler
    <3> QED BY <2>2, <3>2 DEF Departures!Resting
  <2> QED BY <2>3, <2>4
<1>3. CASE Departures!CreateAssignment(r) /\ ~h.met
  <2>1. PICK u \in h.left :
          /\ assigned' = assigned \cup (h.tasks \X {u})
          /\ Departures!Commit(r,
                               IF h.left = {u} THEN Departures!Resting ELSE [h EXCEPT !.left = @ \ {u}])
    BY <1>3 DEF Departures!CreateAssignment
  <2>2. /\ h.pc = "create" /\ h.left \subseteq h.users
        /\ Departures!Assignees(t) = h.users \ h.left
    BY <1>1, <1>3 DEF Departures!CreateAssignment, Departures!At, LeaverOK, Placed
  <2>3. Departures!Assignees(t)' = Departures!Assignees(t) \cup {u}
    BY <1>1, <2>1, <2>2 DEF Departures!Assignees
  <2>4. CASE h.left = {u}
    BY <2>1, <2>2, <2>3, <2>4 DEF Departures!Commit
  <2>5. CASE h.left # {u}
    <3>1. work'[r] = [h EXCEPT !.left = h.left \ {u}]
      BY <2>1, <2>5 DEF Departures!Commit
    <3>2. work'[r].left = h.left \ {u} /\ work'[r].pc = "create"
      BY <1>1, <2>2, <3>1 DEF Departures!Handler
    <3> QED BY <2>1, <2>2, <2>3, <3>2 DEF Departures!Resting
  <2> QED BY <2>4, <2>5
<1> QED BY <1>2, <1>3

\* assignUsersToTask and unassignUserFromTask.
LEMMA AssignStep ==
  ASSUME DepartureInv, NEW r \in Request,
         Departures!ClearAssignees(r) \/ Departures!CreateAssignment(r)
         \/ Departures!UnassignUser(r)
  PROVE  DepartureInv'
<1> PICK h : h = work[r]
  OBVIOUS
<1>1. /\ h \in Departures!Handler /\ LeaverOK(h)
      /\ h.tasks \subseteq Task /\ h.users \subseteq Colleague /\ h.left \subseteq Colleague
  BY DEF DepartureInv, Departures!TypeOK, Departures!Handler
<1>2. UNCHANGED <<account, project, member>> /\ Departures!TypeOK
  BY DEF Departures!ClearAssignees, Departures!CreateAssignment, Departures!UnassignUser,
         DepartureInv
<1>3. assigned' \subseteq Task \X Colleague
  <2>1. assigned \subseteq Task \X Colleague
    BY <1>2 DEF Departures!TypeOK
  <2>2. CASE Departures!CreateAssignment(r)
    <3>1. PICK u \in h.left : assigned' = assigned \cup (h.tasks \X {u})
      BY <2>2 DEF Departures!CreateAssignment
    <3> QED BY <1>1, <2>1, <3>1
  <2>3. CASE Departures!ClearAssignees(r) \/ Departures!UnassignUser(r)
    BY <2>1, <2>3 DEF Departures!ClearAssignees, Departures!UnassignUser, Departures!Cleared
  <2> QED BY <2>2, <2>3
<1>4. PICK g : /\ g \in Departures!Handler /\ LeaverOK(g) /\ Counted(g)' /\ Departures!Commit(r, g)
               /\ g = Departures!Resting
                  \/ (/\ g.pc = "create" /\ g.tasks = h.tasks /\ g.users = h.users
                      /\ g.met = h.met
                      /\ Departures!ClearAssignees(r) \/ Departures!CreateAssignment(r))
  <2>1. CASE Departures!Commit(r, Departures!Resting)
    BY <2>1, LeaverRests
  <2>2. CASE Departures!ClearAssignees(r) /\ ~Departures!Commit(r, Departures!Resting)
    <3>1. PICK g : g = [h EXCEPT !.pc = "create"] /\ Departures!Commit(r, g) /\ h.users # {}
      BY <2>2 DEF Departures!ClearAssignees
    <3>2. /\ g \in Departures!Handler /\ g.op = h.op /\ g.pc = "create" /\ g.tasks = h.tasks
          /\ g.users = h.users /\ g.left = h.left /\ g.met = h.met
      BY <1>1, <3>1 DEF Departures!Handler, Departures!Step
    <3>3. LeaverOK(g) /\ Counted(g)'
      BY <1>1, <2>2, <3>1, <3>2 DEF Departures!ClearAssignees, Departures!At, LeaverOK,
                                    Counted
    <3> QED BY <2>2, <3>1, <3>2, <3>3
  <2>3. CASE Departures!CreateAssignment(r) /\ ~Departures!Commit(r, Departures!Resting)
    <3>1. PICK u \in h.left : h.left # {u} /\ Departures!Commit(r, [h EXCEPT !.left = @ \ {u}])
      BY <2>3 DEF Departures!CreateAssignment
    <3>2. PICK g : g = [h EXCEPT !.left = h.left \ {u}] /\ Departures!Commit(r, g)
      BY <3>1
    <3>3. /\ g \in Departures!Handler /\ g.op = h.op /\ g.pc = h.pc /\ g.tasks = h.tasks
          /\ g.users = h.users /\ g.left = h.left \ {u} /\ g.met = h.met
      BY <1>1, <3>2 DEF Departures!Handler
    <3>4. g.pc = "create" /\ h.left \subseteq h.users /\ h.op = "assignUsersToTask"
      BY <1>1, <2>3, <3>3 DEF Departures!CreateAssignment, Departures!At, LeaverOK
    <3>5. LeaverOK(g) /\ Counted(g)'
      BY <3>1, <3>3, <3>4 DEF LeaverOK, Counted
    <3> QED BY <2>3, <3>2, <3>3, <3>4, <3>5
  <2>4. Departures!UnassignUser(r) => Departures!Commit(r, Departures!Resting)
    BY DEF Departures!UnassignUser
  <2> QED BY <2>1, <2>2, <2>3, <2>4
<1>5. Placed(g)'
  <2>1. CASE g = Departures!Resting
    BY <2>1, LeaverRests
  <2>2. CASE g # Departures!Resting /\ ~g.met
    <3>1. work'[r] = g
      BY <1>4 DEF Departures!Commit
    <3>2. ASSUME NEW t \in g.tasks
          PROVE  Departures!Assignees(t)' = g.users \ g.left
      BY <1>4, <2>2, <3>1, AssignSteps
    <3> QED BY <3>2 DEF Placed
  <2>3. CASE g.met
    BY <2>3 DEF Placed
  <2> QED BY <2>1, <2>2, <2>3
<1>6. /\ work' \in [Request -> Departures!Handler] /\ slipped' \subseteq Colleague
      /\ \A q \in Request : LeaverOK(work[q])' /\ Counted(work[q])' /\ Placed(work[q])'
  BY <1>4, <1>5, LeaverCommits
<1>7. Departures!WorkInLivingHands'
  BY <1>2, <1>4, HandsKept DEF DepartureInv, Departures!Commit
<1> QED BY <1>2, <1>3, <1>6, <1>7 DEF DepartureInv, Departures!TypeOK

\* What the project service writes meanwhile is remembered as slipped.
LEMMA ElsewhereStep ==
  ASSUME DepartureInv,
         Departures!CreateProject \/ Departures!TransferOwnership
         \/ Departures!TrashProject \/ Departures!RestoreProject
         \/ Departures!AddMember \/ Departures!RemoveMember
  PROVE  DepartureInv'
<1>1. UNCHANGED <<account, assigned, work>> /\ Departures!NoteSlips
  BY DEF Departures!CreateProject, Departures!TransferOwnership, Departures!TrashProject,
         Departures!RestoreProject, Departures!AddMember, Departures!RemoveMember,
         Departures!Elsewhere
<1>2. Departures!TypeOK /\ slipped \subseteq slipped' /\ slipped' \subseteq Colleague
  BY <1>1 DEF DepartureInv, Departures!NoteSlips, Departures!TypeOK
<1>3. Departures!TypeOK'
  BY <1>1, <1>2 DEF Departures!TypeOK, Departures!CreateProject,
                    Departures!TransferOwnership, Departures!TrashProject,
                    Departures!RestoreProject, Departures!AddMember,
                    Departures!RemoveMember
<1>4. ASSUME NEW q \in Request
      PROVE  LeaverOK(work[q])' /\ Counted(work[q])' /\ Placed(work[q])'
  <2>1. LeaverOK(work[q]) /\ Counted(work[q]) /\ Placed(work[q])
    BY DEF DepartureInv
  <2>2. LeaverOK(work[q])' /\ Placed(work[q])'
    BY <1>1, <2>1 DEF LeaverOK, Placed, Departures!Assignees
  <2>3. Counted(work[q])'
    <3> PICK u : u = work[q].user
      OBVIOUS
    <3> SUFFICES ASSUME work[q].op = "deleteUser", u \notin slipped'
                 PROVE  Counted(work[q])'
      BY <1>1 DEF Counted
    <3>1. u \in Colleague \ slipped' /\ Departures!Leaving(u)
      BY <2>1 DEF LeaverOK, Departures!Leaving
    <3>2. /\ Departures!OwnsLive(u)' => Departures!OwnsLive(u)
          /\ Departures!TasksOf(u)' \subseteq Departures!TasksOf(u)
      BY <1>1, <3>1, NoGift
    <3> QED BY <1>1, <1>2, <2>1, <3>2 DEF Counted
  <2> QED BY <2>2, <2>3
<1>5. Departures!WorkInLivingHands'
  BY <1>1, HandsKept DEF DepartureInv
<1> QED BY <1>3, <1>4, <1>5 DEF DepartureInv

LEMMA LeaversNext == DepartureInv /\ [Departures!Next]_(Departures!vars) => DepartureInv'
<1> SUFFICES ASSUME DepartureInv, [Departures!Next]_(Departures!vars)
             PROVE  DepartureInv'
  OBVIOUS
<1>1. CASE UNCHANGED Departures!vars
  BY <1>1 DEF Departures!vars, DepartureInv, Departures!TypeOK, LeaverOK, Counted, Placed,
              Departures!WorkInLivingHands, Departures!Live,
              Departures!OwnsLive, Departures!TasksOf, Departures!Assignees
<1>2. CASE Departures!Next
  BY <1>2, LeaverReadSteps, DeleteStep, AssignStep, ElsewhereStep DEF Departures!Next
<1> QED BY <1>1, <1>2

LEMMA LeaversInvariant == ASSUME Departures!PlansFit PROVE Departures!Spec => []DepartureInv
BY LeaversInit, LeaversNext, PTL DEF Departures!Spec

\* The tables and the handlers stay well formed, whatever instance they start from.
THEOREM LeaversTypes == ASSUME Departures!PlansFit PROVE Departures!Spec => []Departures!TypeOK
<1>1. DepartureInv => Departures!TypeOK
  BY DEF DepartureInv
<1> QED BY <1>1, LeaversInvariant, PTL

\* deleteUser: whatever is assigned, transferred, created or restored while an account is
\* being deleted, and however many are deleted at once, no live project and no task stays
\* with a deleted account but what came into its hands meanwhile, or later.
THEOREM NoWorkLeft == Departures!Spec => []WorkInLivingHands
<1>1. DepartureInv => WorkInLivingHands
  BY DEF DepartureInv, WorkInLivingHands
<1>2. Departures!Spec => []DepartureInv
  BY LeaversAssumption, LeaversInvariant
<1> QED BY <1>1, <1>2, PTL

\* assignUsersToTask: however many write the assignees of a task at once, a request that
\* met no other leaves it to exactly the people it names.
THEOREM AssignedAsAsked == Departures!Spec => AssigneesAsRequested
<1>1. DepartureInv /\ [Departures!Next]_(Departures!vars) =>
        [\A r \in Request :
           /\ work[r].op = "assignUsersToTask" /\ work'[r] = Departures!Resting
           /\ assigned' # assigned
           /\ ~work[r].met
           => \A t \in work[r].tasks : Departures!Assignees(t)' = work[r].users]_(Departures!vars)
  <2> SUFFICES ASSUME DepartureInv, [Departures!Next]_(Departures!vars), NEW r \in Request,
                      work[r].op = "assignUsersToTask", work'[r] = Departures!Resting,
                      assigned' # assigned, ~work[r].met, NEW t \in work[r].tasks
               PROVE  Departures!Assignees(t)' = work[r].users
    OBVIOUS
  <2>1. ASSUME NEW q \in Request, NEW h, Departures!Commit(q, h), q # r
        PROVE  FALSE
    <3>1. work'[r].op = "assignUsersToTask"
      BY <2>1, LeaverMet DEF DepartureInv
    <3> QED BY <3>1 DEF Departures!Resting
  <2>2. \A q \in Request :
          Departures!CreateAssignment(q) \/ Departures!ClearAssignees(q)
          \/ Departures!DeleteUser(q) \/ Departures!UnassignUser(q)
          => \E h : Departures!Commit(q, h)
    BY DEF Departures!CreateAssignment, Departures!ClearAssignees, Departures!DeleteUser,
           Departures!UnassignUser
  <2>3. \/ Departures!ClearAssignees(r) \/ Departures!CreateAssignment(r)
        \/ Departures!DeleteUser(r) \/ Departures!UnassignUser(r)
    BY <2>1, <2>2
       DEF Departures!Next, Departures!vars, Departures!rows, Departures!BeginDeleteUser,
           Departures!CheckReplacement, Departures!DeleteUserFails,
           Departures!BeginAssignUsers, Departures!CheckMembers, Departures!BeginUnassign,
           Departures!Abort, Departures!CreateProject,
           Departures!TransferOwnership, Departures!TrashProject, Departures!RestoreProject,
           Departures!AddMember, Departures!RemoveMember, Departures!Elsewhere
  <2>4. ~Departures!DeleteUser(r) /\ ~Departures!UnassignUser(r)
    BY DEF Departures!DeleteUser, Departures!UnassignUser, Departures!At, DepartureInv,
           LeaverOK
  <2> QED BY <2>3, <2>4, AssignSteps
<1>2. Departures!Spec => []DepartureInv
  BY LeaversAssumption, LeaversInvariant
<1> QED BY <1>1, <1>2, PTL
           DEF AssigneesAsRequested, Departures!AssigneesAsRequested, Departures!Spec

\* The rows of both are well formed, and the threads of two people do not pile up.
THEOREM TeamCorrect == Spec /\ Departures!Spec => []TeamWellFormed
<1>1. TypeOK /\ ThreadsBounded /\ DepartureInv => TeamWellFormed
  BY DEF TeamWellFormed, DepartureInv
<1>2. Departures!Spec => []DepartureInv
  BY LeaversAssumption, LeaversInvariant
<1> QED BY <1>1, <1>2, TypeCorrect, ThreadsDoNotPileUp, PTL
=============================================================================
