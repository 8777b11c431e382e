---------------------------- MODULE CallLifecycle ----------------------------
(***************************************************************************)
(* Audio calls between two people: CallService.  A handler reads the call,  *)
(* decides, and writes it back by its id; two participants, two tabs or a   *)
(* retry interleave between the read and the write.                         *)
(***************************************************************************)
EXTENDS Naturals, FiniteSets

CONSTANTS User, Call,   \* people, and identifiers a call may get
          Request,      \* slots for handlers in flight
          Null,
          RingingTimeout,  \* RINGING_TIMEOUT_MS, in ticks of the clock
          MaxTime          \* bound on the clock

ASSUME NullAssumption == Null \notin User /\ Null \notin Call /\ Null \notin Nat
ASSUME TimeAssumption == RingingTimeout \in Nat /\ MaxTime \in Nat
ASSUME RequestAssumption == IsFiniteSet(Request)

VARIABLES call,       \* table Call
          notices,    \* CALL_MISSED notifications created for each call
          now,
          req,        \* handlers in flight
          raced       \* history: calls written by a handler whose check no longer held

vars == <<call, notices, now, req, raced>>

CallStatus == {"RINGING", "ANSWERED", "REJECTED", "MISSED"}
Date == Nat \cup {Null}
CallRow == [row : BOOLEAN, caller : User \cup {Null}, callee : User \cup {Null},
            status : CallStatus, started : Nat, answered : Date, ended : Date]
NoCall == [row |-> FALSE, caller |-> Null, callee |-> Null, status |-> "RINGING",
           started |-> 0, answered |-> Null, ended |-> Null]

Op == {"none", "start", "answer", "reject", "end"}
Step == {"idle", "expire", "busy", "create", "read", "write", "notify"}
Handler == [op : Op, pc : Step, call : Call \cup {Null}, user : User \cup {Null},
            peer : User \cup {Null}, seen : CallStatus \cup {Null}, at : Date]
Resting == [op |-> "none", pc |-> "idle", call |-> Null, user |-> Null,
            peer |-> Null, seen |-> Null, at |-> Null]

Calls == {c \in Call : call[c].row}
People(c) == {call[c].caller, call[c].callee}
Ringing(P) == {c \in Calls : call[c].status = "RINGING" /\ People(c) \cap P # {}}

\* What a handler holds by the time it uses it.
HandlerOK(h) ==
  /\ h.pc \in {"expire", "busy", "create"} => h.user \in User /\ h.peer \in User
  /\ h.pc \in {"read", "write", "notify"} => h.call \in Calls
  /\ h.pc \in {"read", "write"} => h.op \in {"answer", "reject", "end"}
  /\ h.pc = "write" => h.seen \in CallStatus
  /\ h.pc \in {"busy", "write"} => h.at \in Nat

\* Types of the table and of the handlers.
TypeOK ==
  /\ call \in [Call -> CallRow]
  /\ notices \in [Call -> Nat]
  /\ now \in Nat
  /\ req \in [Request -> Handler]
  /\ \A r \in Request : HandlerOK(req[r])
  /\ raced \in SUBSET Call

Init ==
  /\ call = [c \in Call |-> NoCall]
  /\ notices = [c \in Call |-> 0]
  /\ now = 0
  /\ req = [r \in Request |-> Resting]
  /\ raced = {}

-----------------------------------------------------------------------------
At(r, step) == req[r].pc = step
Finish(r) == req' = [req EXCEPT ![r] = Resting]
Goto(r, step) == req' = [req EXCEPT ![r].pc = step]

\* The caller is logged in, the callee is another user who exists.
BeginStart(r) ==
  /\ req[r] = Resting
  /\ \E u, v \in User :
       /\ u # v
       /\ req' = [req EXCEPT ![r] = [Resting EXCEPT !.op = "start", !.pc = "expire",
                                                    !.user = u, !.peer = v]]
  /\ UNCHANGED <<call, notices, now, raced>>

\* expireStaleRinging: one updateMany over the ringing calls of either person.
Stale_TooLate(c, P) == c \in Ringing(P) /\ call[c].started + RingingTimeout + 1 < now
Stale(c, P) == c \in Ringing(P) /\ call[c].started + RingingTimeout < now

ExpireStaleRinging(r) ==
  LET P == {req[r].user, req[r].peer} IN
  /\ At(r, "expire")
  /\ call' = [c \in Call |->
       IF Stale(c, P) THEN [call[c] EXCEPT !.status = "MISSED", !.ended = now]
       ELSE call[c]]
  /\ req' = [req EXCEPT ![r].pc = "busy", ![r].at = now]
  /\ UNCHANGED <<notices, now, raced>>

Free(u, v) == Ringing({u, v}) = {}

CheckBusy(r) ==
  /\ At(r, "busy")
  /\ IF Free(req[r].user, req[r].peer)
     THEN req' = [req EXCEPT ![r].pc = "create", ![r].at = Null]
     ELSE Finish(r)
  /\ UNCHANGED <<call, notices, now, raced>>

CreateCall(r) ==
  /\ At(r, "create")
  /\ \E c \in Call \ Calls :
       call' = [call EXCEPT ![c] =
         [row |-> TRUE, caller |-> req[r].user, callee |-> req[r].peer,
          status |-> "RINGING", started |-> now, answered |-> Null, ended |-> Null]]
  /\ Finish(r)
  /\ UNCHANGED <<notices, now, raced>>

\* The bound Call is used up.
CreateCallFails(r) ==
  /\ At(r, "create")
  /\ Calls = Call
  /\ Finish(r)
  /\ UNCHANGED <<call, notices, now, raced>>

-----------------------------------------------------------------------------
\* A participant answers, rejects or ends a call that exists.
BeginOnCall(r) ==
  /\ req[r] = Resting
  /\ \E c \in Calls, op \in {"answer", "reject", "end"} : \E u \in People(c) :
       req' = [req EXCEPT ![r] = [Resting EXCEPT !.op = op, !.pc = "read",
                                                 !.call = c, !.user = u]]
  /\ UNCHANGED <<call, notices, now, raced>>

\* requireParticipant, then the guards of the three operations: only the callee
\* answers or rejects, and only while it rings; a closed call is not closed again.
Allowed_EndAgain(op, c, u) ==
  \/ op = "end"
  \/ u = call[c].callee /\ call[c].status = "RINGING"
Allowed(op, c, u) ==
  IF op = "end" THEN call[c].status = "RINGING" \/ call[c].ended = Null
  ELSE u = call[c].callee /\ call[c].status = "RINGING"

ReadCall(r) ==
  LET h == req[r] IN
  /\ At(r, "read")
  /\ IF Allowed(h.op, h.call, h.user)
     THEN req' = [req EXCEPT ![r].pc = "write", ![r].seen = call[h.call].status,
                             ![r].at = now, ![r].user = Null]
     ELSE Finish(r)
  /\ UNCHANGED <<call, notices, now, raced>>

\* The update by id; end writes back the status it read, or MISSED.
Outcome(row, h) ==
  CASE h.op = "answer" -> [row EXCEPT !.status = "ANSWERED", !.answered = h.at]
    [] h.op = "reject" -> [row EXCEPT !.status = "REJECTED", !.ended = h.at]
    [] h.op = "end" -> [row EXCEPT !.ended = h.at,
                          !.status = IF h.seen = "RINGING" THEN "MISSED" ELSE h.seen]

\* The callee is notified of a call ended before it was answered.
Missed(h) == h.op = "end" /\ h.seen = "RINGING"

WriteCall(r) ==
  LET h == req[r]  c == h.call IN
  /\ At(r, "write")
  /\ call' = [call EXCEPT ![c] = Outcome(@, h)]
  /\ raced' = IF h.seen = call[c].status /\ Allowed(h.op, c, call[c].callee)
              THEN raced ELSE raced \cup {c}
  /\ IF Missed(h)
     THEN req' = [req EXCEPT ![r] = [Resting EXCEPT !.op = "end", !.pc = "notify",
                                                    !.call = c]]
     ELSE Finish(r)
  /\ UNCHANGED <<notices, now>>

\* Not awaited by end, but it only needs the row end returned.
NotifyMissed(r) ==
  /\ At(r, "notify")
  /\ notices' = [notices EXCEPT ![req[r].call] = @ + 1]
  /\ Finish(r)
  /\ UNCHANGED <<call, now, raced>>

-----------------------------------------------------------------------------
\* An awaited call fails or the process restarts: the rest of the handler is lost.
Abort(r) ==
  /\ req[r] # Resting
  /\ Finish(r)
  /\ UNCHANGED <<call, notices, now, raced>>

Tick ==
  /\ now < MaxTime
  /\ now' = now + 1
  /\ UNCHANGED <<call, notices, req, raced>>

StartStep(r) ==
  ExpireStaleRinging(r) \/ CheckBusy(r) \/ CreateCall(r) \/ CreateCallFails(r)
CallStep(r) == ReadCall(r) \/ WriteCall(r) \/ NotifyMissed(r)

Next ==
  \/ \E r \in Request :
       BeginStart(r) \/ StartStep(r) \/ BeginOnCall(r) \/ CallStep(r) \/ Abort(r)
  \/ Tick

Spec == Init /\ [][Next]_vars

-----------------------------------------------------------------------------
(***************************************************************************)
(* What holds however the handlers interleave.                              *)
(***************************************************************************)

\* The dates of a call tell its outcome: while it rings nothing else happened, a
\* refused or missed call is closed, an answered one has its date of answer; also
\* when both people act at the same moment and overwrite each other.
DatesMatchStatus ==
  \A c \in Calls :
    /\ call[c].status = "RINGING" => call[c].answered = Null /\ call[c].ended = Null
    /\ call[c].status \in {"REJECTED", "MISSED"} => call[c].ended # Null
    /\ call[c].status = "ANSWERED" => call[c].answered # Null
    /\ call[c].ended # Null => call[c].ended >= call[c].started

\* Nobody is rung by more calls than there are handlers at once: one, when requests are
\* served one at a time (start refuses a second call).  A handler that found both people
\* free and has not created its call yet counts as a call.
Starting(u) == {r \in Request : At(r, "create") /\ u \in {req[r].user, req[r].peer}}
RingingBounded ==
  \A u \in User :
    Cardinality(Ringing({u})) + Cardinality(Starting(u)) <= Cardinality(Request)

\* The callee hears of a missed call at most once per handler at once that ended it.
NoticesBounded == \A c \in Call : notices[c] <= Cardinality(Request)

\* When start looks for a call in progress, each one it can find has rung for no longer
\* than the timeout at its clean-up: an abandoned call never blocks its two people.
NoStaleRinging ==
  \A r \in Request : At(r, "busy") =>
    \A c \in Ringing({req[r].user, req[r].peer}) :
      call[c].started + RingingTimeout >= req[r].at

\* A call never rings again, keeps the people and the start it was created with, and
\* once it has an end it never loses it.
CallsOnlyProgress ==
  [][\A c \in Calls :
       /\ call[c].status # "RINGING" => call'[c].status # "RINGING"
       /\ call[c].ended # Null => call'[c].ended # Null
       /\ <<call'[c].caller, call'[c].callee, call'[c].started>> =
          <<call[c].caller, call[c].callee, call[c].started>>]_vars

\* The end of a call is that of the first hang-up, and a refused or missed call stays so,
\* unless a handler overtook another between its read and its write.
ClosedCallFixed ==
  [][\A c \in Calls \ raced' : call[c].ended # Null =>
       call'[c].ended = call[c].ended /\ call'[c].status = call[c].status]_vars

\* CallService: the table tells what happened, however the handlers interleave, and no
\* abandoned call blocks a start.
CallRowsWellFormed ==
  TypeOK /\ DatesMatchStatus /\ RingingBounded /\ NoticesBounded /\ NoStaleRinging

\* CallService: a call goes through its life once.
CallsSettle == CallsOnlyProgress /\ ClosedCallFixed
=============================================================================
