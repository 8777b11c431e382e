--------------------------- MODULE DirectMessages ---------------------------
(***************************************************************************)
(* One conversation, read page by page from its end: sendMessage and        *)
(* getMessages of DirectMessageService for two people; the chat of a        *)
(* project is read the same way (ChatService.getProjectConversation).       *)
(*                                                                          *)
(* A browser (it is not part of the repository) shows the pages it has asked *)
(* for and what it receives live since it opened the conversation.  As long  *)
(* as it is told that there is more, it asks for the page before those it    *)
(* was given.                                                               *)
(***************************************************************************)
EXTENDS Integers, FiniteSets

CONSTANTS User,        \* accounts, each with one browser
          Pair,        \* the two of them whose conversation it is
          Request,     \* slots for handlers in flight
          Null,
          Take,        \* size of a page, positive: 50
          LastMessage  \* bound: messages are 1..LastMessage, in order of creation

Message == 1..LastMessage

VARIABLES sent,     \* table ChatMessage: 1..sent
          touched,  \* updatedAt of the conversation: the last message before it
          passed,   \* history: messages that date had reached before an older one replaced it
          req,      \* handlers in flight
          browser,  \* what a browser shows, and whether it was told there is more
          lost      \* history: messages whose handler ended before emitting them

vars == <<sent, touched, passed, req, browser, lost>>

\* History: "behind" is how many messages came between the count and the page.
Browser == [open : BOOLEAN, paged : Nat, shown : SUBSET Message, more : BOOLEAN, behind : Nat]
Closed == [open |-> FALSE, paged |-> 0, shown |-> {}, more |-> TRUE, behind |-> 0]

\* "stamp" is the date a handler is about to write; "recent" is the page, "total" the
\* count; history: "upTo" is the last message when the page was read.
Handler == [pc : {"idle", "write", "stamp", "touch", "emit", "read"}, user : User \cup {Null},
            message : Message \cup {Null}, stamp : Nat, skip : Nat,
            recent : {Null} \cup SUBSET Message, total : Nat \cup {Null}, upTo : Nat]
Resting == [pc |-> "idle", user |-> Null, message |-> Null, stamp |-> 0, skip |-> 0,
            recent |-> Null, total |-> Null, upTo |-> 0]

Init ==
  /\ sent = 0
  /\ touched = 0
  /\ passed = {}
  /\ req = [r \in Request |-> Resting]
  /\ browser = [u \in User |-> Closed]
  /\ lost = {}

At(r, step) == req[r].pc = step
Finish(r) == req' = [req EXCEPT ![r] = Resting]
Accept(r, h) == req[r] = Resting /\ req' = [req EXCEPT ![r] = h]

-----------------------------------------------------------------------------
\* sendMessage: one of the two only; the message, then the date of the conversation are
\* written, and then both are told.  The clock is read before the date is written: the
\* date of a handler may replace that of a later one.
BeginSendMessage(r) ==
  /\ \E u \in Pair : Accept(r, [Resting EXCEPT !.pc = "write", !.user = u])
  /\ UNCHANGED <<sent, touched, passed, browser, lost>>

CreateMessage(r) ==
  /\ At(r, "write")
  /\ sent < LastMessage
  /\ sent' = sent + 1
  /\ req' = [req EXCEPT ![r].pc = "stamp", ![r].message = sent']
  /\ UNCHANGED <<touched, passed, browser, lost>>

ReadClock(r) ==
  /\ At(r, "stamp")
  /\ req' = [req EXCEPT ![r].pc = "touch", ![r].stamp = sent]
  /\ UNCHANGED <<sent, touched, passed, browser, lost>>

TouchConversation(r) ==
  /\ At(r, "touch")
  /\ touched' = req[r].stamp
  /\ passed' = passed \cup (touched' + 1)..touched
  /\ req' = [req EXCEPT ![r].pc = "emit"]
  /\ UNCHANGED <<sent, browser, lost>>

Recipients_Others(r) == Pair \ {req[r].user}
Recipients(r) == Pair
EmitMessage(r) ==
  /\ At(r, "emit")
  /\ browser' = [u \in User |->
       IF u \in Recipients(r) /\ browser[u].open
       THEN [browser[u] EXCEPT !.shown = @ \cup {req[r].message}] ELSE browser[u]]
  /\ Finish(r)
  /\ UNCHANGED <<sent, touched, passed, lost>>

-----------------------------------------------------------------------------
\* A browser opens or leaves the conversation; what it had asked for is dropped.
Drop(u) == req' = [r \in Request |->
                     IF At(r, "read") /\ req[r].user = u THEN Resting ELSE req[r]]
OpenOrLeave ==
  /\ \E u \in Pair :
       /\ browser' = [browser EXCEPT ![u] = [Closed EXCEPT !.open = ~browser[u].open]]
       /\ Drop(u)
  /\ UNCHANGED <<sent, touched, passed, lost>>

\* getMessages: one of the two only.
BeginGetMessages(r) ==
  /\ \E u \in Pair :
       /\ browser[u].open /\ browser[u].more
       /\ \A q \in Request : ~(At(q, "read") /\ req[q].user = u)
       /\ Accept(r, [Resting EXCEPT !.pc = "read", !.user = u, !.skip = browser[u].paged])
  /\ UNCHANGED <<sent, touched, passed, browser, lost>>

\* The page counts from the end; it and the total are read side by side.
Page(skip) == {i \in 1..sent : sent - skip - Take < i /\ i <= sent - skip}
ReadPage(r) ==
  /\ At(r, "read") /\ req[r].recent = Null
  /\ req' = [req EXCEPT ![r].recent = Page(req[r].skip), ![r].upTo = sent]
  /\ UNCHANGED <<sent, touched, passed, browser, lost>>
CountMessages(r) ==
  /\ At(r, "read") /\ req[r].total = Null
  /\ req' = [req EXCEPT ![r].total = sent]
  /\ UNCHANGED <<sent, touched, passed, browser, lost>>

HasMore(h) == h.skip + Cardinality(h.recent) < h.total
Answer(r) ==
  LET h == req[r] IN
  /\ At(r, "read") /\ h.recent # Null /\ h.total # Null
  /\ browser' = [browser EXCEPT
       ![h.user].paged = @ + Cardinality(h.recent),
       ![h.user].shown = @ \cup h.recent,
       ![h.user].more = HasMore(h),
       ![h.user].behind = IF h.upTo > h.total THEN h.upTo - h.total ELSE 0]
  /\ Finish(r)
  /\ UNCHANGED <<sent, touched, passed, lost>>

\* The server stops, or a call fails, between two steps.
Abort(r) ==
  /\ req[r] # Resting
  /\ Finish(r)
  /\ lost' = lost \cup ({req[r].message} \ {Null})
  /\ UNCHANGED <<sent, touched, passed, browser>>

Next ==
  \/ \E r \in Request :
       \/ BeginSendMessage(r) \/ CreateMessage(r) \/ ReadClock(r) \/ TouchConversation(r)
       \/ EmitMessage(r)
       \/ BeginGetMessages(r) \/ ReadPage(r) \/ CountMessages(r) \/ Answer(r)
       \/ Abort(r)
  \/ OpenOrLeave

Spec == Init /\ [][Next]_vars

-----------------------------------------------------------------------------
\* Types of the tables, the browsers and the handlers.
TypeOK ==
  /\ sent \in 0..LastMessage
  /\ touched \in 0..sent
  /\ passed \subseteq Message
  /\ req \in [Request -> Handler]
  /\ browser \in [User -> Browser]
  /\ lost \subseteq Message

Underway == {req[r].message : r \in Request}

\* sendMessage, getMessages: whoever has gone back until there was no more shows every
\* message of the conversation, or is about to be told it.  Except for messages whose
\* handler died, and for as many as were written between the count and the page: the
\* oldest are then never asked for.
PagesMissNothing ==
  \A u \in Pair : LET b == browser[u] IN
    b.open /\ ~b.more =>
      Cardinality(1..sent \ (b.shown \cup Underway \cup lost)) <= b.behind

\* sendMessage: the date a conversation is listed by is not before any of its messages,
\* but for those in the hands of a handler, those whose handler died, and those it had
\* reached when a slower handler put it back.
TouchedLast == \A m \in 1..sent : m > touched => m \in Underway \cup lost \cup passed
=============================================================================
