------------------------------ MODULE Presence ------------------------------
(***************************************************************************)
(* Who is online: the map of open sockets that AppGateway keeps in memory,  *)
(* the events and snapshots it sends, and what the browsers make of them.   *)
(* A connection delivers its messages in order until it is cut; the server  *)
(* notices a cut later, when a ping goes unanswered.  A handler that awaits *)
(* nothing is one step.  The browsers are not part of the repository: each  *)
(* takes a snapshot as it is and applies the events that follow.            *)
(***************************************************************************)
EXTENDS Naturals, Sequences

CONSTANTS User,     \* accounts
          Socket,   \* connections ever made: an identifier is not used twice
          Watching, \* the sockets whose page shows presence; the others ignore it
          Null,     \* no user
          Unknown,  \* what a browser knows of presence before a snapshot
          Restarts  \* bound: how often the server restarts

\* What the module that instantiates this one assumes.
SocketsFit ==
  /\ Watching \subseteq Socket /\ Restarts \in Nat
  /\ \A known \in SUBSET User : known # Unknown

VARIABLES link,         \* each connection: "unused", "open", "cut" or "gone"
          userId,       \* socket.data.userId
          onlineUsers,  \* the gateway's map
          inbox,        \* messages on their way to each watching browser
          asked,        \* sockets whose presence:list is on its way to the server
          view,         \* who each browser shows online
          restarts      \* restarts so far

vars == <<link, userId, onlineUsers, inbox, asked, view, restarts>>

Connected == {s \in Socket : link[s] \in {"open", "cut"}}   \* to the server's knowledge
Open == {s \in Socket : link[s] = "open"}
getOnlineUserIds == {u \in User : onlineUsers[u] # {}}
Present(u) == \E s \in Socket : link[s] = "open" /\ userId[s] = u

Message == [kind : {"online", "offline", "list"}, who : SUBSET User]
Signal(kind, who) == [kind |-> kind, who |-> who]

Init ==
  /\ link = [s \in Socket |-> "unused"]
  /\ userId = [s \in Socket |-> Null]
  /\ onlineUsers = [u \in User |-> {}]
  /\ inbox = [s \in Watching |-> <<>>]
  /\ asked = {}
  /\ view = [s \in Watching |-> Unknown]
  /\ restarts = 0

-----------------------------------------------------------------------------
\* What an emit adds.  On a connection that is cut it is lost.
Emitted(sockets, e) ==
  [s \in Watching |-> IF s \in sockets THEN Append(inbox[s], e) ELSE inbox[s]]

\* The first connection of a user is announced to all, the newcomer included.
markOnline(u, s) ==
  /\ onlineUsers' = [onlineUsers EXCEPT ![u] = @ \cup {s}]
  /\ inbox' = IF onlineUsers[u] = {} THEN Emitted(Open \cup {s}, Signal("online", {u}))
              ELSE inbox

handleConnection(s) ==
  /\ link[s] = "unused"
  /\ link' = [link EXCEPT ![s] = "open"]
  /\ \E u \in User : /\ userId' = [userId EXCEPT ![s] = u]
                     /\ markOnline(u, s)
  /\ UNCHANGED <<asked, view, restarts>>

\* No token, or one that does not verify.
RejectConnection(s) ==
  /\ link[s] = "unused"
  /\ link' = [link EXCEPT ![s] = "gone"]
  /\ UNCHANGED <<userId, onlineUsers, inbox, asked, view, restarts>>

\* The last connection of a user is.
markOffline_Boolean(u, s) ==
  /\ onlineUsers' = [onlineUsers EXCEPT ![u] = {}]
  /\ inbox' = Emitted(Open, Signal("offline", {u}))
markOffline_Kept(u, s) ==
  UNCHANGED <<onlineUsers, inbox>>
markOffline(u, s) ==
  /\ onlineUsers' = [onlineUsers EXCEPT ![u] = @ \ {s}]
  /\ inbox' = IF onlineUsers[u] \subseteq {s}
              THEN Emitted(Open, Signal("offline", {u})) ELSE inbox

handleDisconnect(s) ==
  /\ link[s] = "cut"
  /\ link' = [link EXCEPT ![s] = "gone"]
  /\ markOffline(userId[s], s)
  /\ UNCHANGED <<userId, asked, view, restarts>>

listPresence(s) ==
  /\ s \in asked
  /\ inbox' = Emitted({s}, Signal("list", getOnlineUserIds))
  /\ asked' = asked \ {s}
  /\ UNCHANGED <<link, userId, onlineUsers, view, restarts>>

-----------------------------------------------------------------------------
\* The browser's side: a page asks once.
Apply(known, e) ==
  CASE e.kind = "list" -> e.who
    [] e.kind = "online" /\ known # Unknown -> known \cup e.who
    [] e.kind = "offline" /\ known # Unknown -> known \ e.who
    [] OTHER -> known

\* Whether it has a snapshot, or will when what is on its way has come.
HasList(q) == \E i \in 1 .. Len(q) : q[i].kind = "list"
Known(s) == view[s] # Unknown \/ HasList(inbox[s])

OpenPage(s) ==
  /\ link[s] = "open" /\ s \notin asked /\ ~Known(s)
  /\ asked' = asked \cup {s}
  /\ UNCHANGED <<link, userId, onlineUsers, inbox, view, restarts>>

Receive(s) ==
  /\ link[s] = "open" /\ inbox[s] # <<>>
  /\ view' = [view EXCEPT ![s] = Apply(@, Head(inbox[s]))]
  /\ inbox' = [inbox EXCEPT ![s] = Tail(@)]
  /\ UNCHANGED <<link, userId, onlineUsers, asked, restarts>>

\* The page is closed or the network fails: what was on its way is lost.
Forget(sockets) ==
  /\ inbox' = [s \in Watching |-> IF s \in sockets THEN <<>> ELSE inbox[s]]
  /\ view' = [s \in Watching |-> IF s \in sockets THEN Unknown ELSE view[s]]
  /\ asked' = asked \ sockets

Cut(s) ==
  /\ link[s] = "open"
  /\ link' = [link EXCEPT ![s] = "cut"]
  /\ Forget({s})
  /\ UNCHANGED <<userId, onlineUsers, restarts>>

\* The process restarts: the map and every connection are lost.
Restart ==
  /\ restarts < Restarts
  /\ restarts' = restarts + 1
  /\ link' = [s \in Socket |-> IF s \in Connected THEN "gone" ELSE link[s]]
  /\ onlineUsers' = [u \in User |-> {}]
  /\ Forget(Connected)
  /\ UNCHANGED userId

Next ==
  \/ \E s \in Socket :
       handleConnection(s) \/ RejectConnection(s) \/ handleDisconnect(s) \/ Cut(s)
  \/ \E s \in Watching : listPresence(s) \/ OpenPage(s) \/ Receive(s)
  \/ Restart

\* An open connection delivers; the server handles what it received, and a ping that
\* goes unanswered ends a cut one.
Fairness ==
  /\ \A s \in Socket : WF_vars(handleDisconnect(s))
  /\ \A s \in Watching : WF_vars(Receive(s)) /\ WF_vars(listPresence(s))

Spec == Init /\ [][Next]_vars /\ Fairness

-----------------------------------------------------------------------------
\* Types, and the connections the server knows of.
TypeOK ==
  /\ link \in [Socket -> {"unused", "open", "cut", "gone"}]
  /\ userId \in [Socket -> User \cup {Null}]
  /\ \A s \in Connected : userId[s] \in User
  /\ onlineUsers \in [User -> SUBSET Socket]
  /\ inbox \in [Watching -> Seq(Message)]
  /\ view \in [Watching -> (SUBSET User) \cup {Unknown}]
  /\ asked \subseteq Open
  /\ \A s \in Watching \ Open : view[s] = Unknown /\ inbox[s] = <<>>
  /\ restarts \in 0..Restarts

\* listPresence and the events after it: whatever is still on its way, a browser that
\* has a snapshot will show exactly the users who have a connection to the server, with
\* several tabs, a socket cut while its user is back on another, or a restart.
ConnectedUsers == {userId[s] : s \in Connected}

\* Whom a browser will show: the last message about a user decides, or what it shows now.
About(e, u) == e.kind = "list" \/ u \in e.who
Shows(e, u) == e.kind # "offline" /\ u \in e.who
WillShow(known, q, u) ==
  \/ /\ known # Unknown /\ u \in known
     /\ \A i \in 1 .. Len(q) : ~About(q[i], u)
  \/ \E i \in 1 .. Len(q) : /\ Shows(q[i], u)
                             /\ \A j \in i + 1 .. Len(q) : ~About(q[j], u)
ViewsConverge ==
  \A s \in Watching :
    Known(s) => \A u \in User : WillShow(view[s], inbox[s], u) <=> u \in ConnectedUsers

\* Nobody is shown online forever by a connection that was cut: a user with no open
\* connection comes back, or leaves every view.
GhostsVanish ==
  \A u \in User, s \in Watching :
    ~Present(u) ~> \/ Present(u)
                   \/ view[s] = Unknown
                   \/ u \notin view[s]
=============================================================================
