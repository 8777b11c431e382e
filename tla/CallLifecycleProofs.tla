-------------------------- MODULE CallLifecycleProofs --------------------------
(***************************************************************************)
(* Proofs about audio calls, for any number of people, calls and handlers   *)
(* in flight, and a clock that never stops; about the messages of a thread,  *)
(* for pages of any size; and about reports on time, for any entries.        *)
(***************************************************************************)
EXTENDS MCExchanges, SumsProofs

\* What a handler knows of the calls and the clock, as they are now: what it read has
\* happened.  An answered call has its date, one reported missed rings no more, and no
\* call in the way of a start has rung for longer than the timeout at its clean-up.
Knows(h) ==
  /\ h.at # Null => h.at <= now
  /\ h.pc = "write" => h.at >= call[h.call].started
  /\ h.pc = "write" /\ h.op = "end" /\ h.seen = "ANSWERED" => call[h.call].answered # Null
  /\ h.pc = "notify" => call[h.call].status # "RINGING"
  /\ h.pc = "busy" =>
       \A c \in Ringing({h.user, h.peer}) : call[c].started + RingingTimeout >= h.at

AllKnow == \A r \in Request : Knows(req[r])
StartedByNow == \A c \in Calls : call[c].started <= now
LifeInv == TypeOK /\ StartedByNow /\ DatesMatchStatus /\ AllKnow

-----------------------------------------------------------------------------
\* How a step changes the rows of the calls there are, whatever the handler.
RowStep(c) ==
  \/ call'[c] = call[c]
  \/ \E r \in Request :
       \/ /\ ExpireStaleRinging(r) /\ Stale(c, {req[r].user, req[r].peer})
          /\ call'[c] = [call[c] EXCEPT !.status = "MISSED", !.ended = now]
       \/ WriteCall(r) /\ c = req[r].call /\ call'[c] = Outcome(call[c], req[r])

LEMMA RowsStep ==
  ASSUME TypeOK, [Next]_vars, NEW c \in Calls
  PROVE  RowStep(c)
<1>1. c \in Call /\ call[c].row
  BY DEF Calls
<1>2. ASSUME NEW r \in Request, ExpireStaleRinging(r)
      PROVE  RowStep(c)
  BY <1>1, <1>2 DEF ExpireStaleRinging, RowStep
<1>3. ASSUME NEW r \in Request, WriteCall(r)
      PROVE  RowStep(c)
  BY <1>1, <1>3 DEF WriteCall, RowStep, TypeOK
<1>4. ASSUME NEW r \in Request, CreateCall(r)
      PROVE  RowStep(c)
  BY <1>1, <1>4 DEF CreateCall, RowStep, TypeOK
<1>5. ASSUME NEW r \in Request,
             \/ BeginStart(r) \/ CheckBusy(r) \/ CreateCallFails(r) \/ BeginOnCall(r)
             \/ ReadCall(r) \/ NotifyMissed(r) \/ Abort(r)
      PROVE  RowStep(c)
  BY <1>5 DEF BeginStart, CheckBusy, CreateCallFails, BeginOnCall, ReadCall, NotifyMissed,
              Abort, RowStep
<1>6. CASE Tick \/ UNCHANGED vars
  BY <1>6 DEF Tick, vars, RowStep
<1> QED BY <1>2, <1>3, <1>4, <1>5, <1>6 DEF Next, StartStep, CallStep

\* What the handler that writes an outcome holds, and what the outcome keeps.
LEMMA Writer ==
  ASSUME TypeOK, NEW r \in Request, WriteCall(r)
  PROVE  /\ req[r] \in Handler /\ req[r].call \in Calls /\ req[r].at \in Nat
         /\ req[r].op \in {"answer", "reject", "end"} /\ req[r].seen \in CallStatus
         /\ call[req[r].call] \in CallRow
BY DEF WriteCall, At, TypeOK, HandlerOK, Calls

LEMMA OutcomeOK ==
  ASSUME NEW row \in CallRow, NEW h \in Handler, h.at \in Nat,
         h.op \in {"answer", "reject", "end"}, h.seen \in CallStatus
  PROVE  LET after == Outcome(row, h) IN
         /\ after \in CallRow /\ after.row = row.row
         /\ after.caller = row.caller /\ after.callee = row.callee
         /\ after.started = row.started
         /\ after.status # "RINGING"
         /\ after.answered \in {row.answered, h.at} /\ after.ended \in {row.ended, h.at}
<1>1. CASE h.op = "answer"
  BY <1>1 DEF Outcome, CallRow, CallStatus, Date
<1>2. CASE h.op = "reject"
  BY <1>2 DEF Outcome, CallRow, CallStatus, Date
<1>3. CASE h.op = "end"
  <2> DEFINE s == IF h.seen = "RINGING" THEN "MISSED" ELSE h.seen
  <2>1. s \in CallStatus \ {"RINGING"}
    BY DEF CallStatus
  <2>2. Outcome(row, h) = [row EXCEPT !.ended = h.at, !.status = s]
    BY <1>3 DEF Outcome
  <2> HIDE DEF s
  <2> QED BY <2>1, <2>2 DEF CallRow, Date
<1> QED BY <1>1, <1>2, <1>3

\* A call stays with its people and its start, and rings no more once it has stopped.
LEMMA RowKeeps ==
  ASSUME TypeOK, NEW c \in Calls, RowStep(c)
  PROVE  /\ call'[c] \in CallRow /\ call'[c].row
         /\ <<call'[c].caller, call'[c].callee, call'[c].started>> =
            <<call[c].caller, call[c].callee, call[c].started>>
         /\ call[c].status # "RINGING" => call'[c].status # "RINGING"
         /\ call[c].answered # Null => call'[c].answered # Null
         /\ call[c].ended # Null => call'[c].ended # Null
<1>0. c \in Call /\ call[c] \in CallRow /\ call[c].row /\ now \in Nat
  BY DEF Calls, TypeOK
<1>1. CASE call'[c] = call[c]
  BY <1>0, <1>1
<1>2. CASE call'[c] = [call[c] EXCEPT !.status = "MISSED", !.ended = now]
  <2>1. /\ call'[c].status = "MISSED" /\ call'[c].ended = now
        /\ call'[c].answered = call[c].answered /\ call'[c].row = call[c].row
        /\ call'[c].caller = call[c].caller /\ call'[c].callee = call[c].callee
        /\ call'[c].started = call[c].started
    BY <1>0, <1>2 DEF CallRow
  <2>2. call'[c] \in CallRow
    BY <1>0, <1>2 DEF CallRow, CallStatus, Date
  <2> QED BY <1>0, <2>1, <2>2, NullAssumption
<1>3. ASSUME NEW r \in Request, WriteCall(r), c = req[r].call,
             call'[c] = Outcome(call[c], req[r])
      PROVE  /\ call'[c] \in CallRow /\ call'[c].row
             /\ <<call'[c].caller, call'[c].callee, call'[c].started>> =
                <<call[c].caller, call[c].callee, call[c].started>>
             /\ call'[c].status # "RINGING"
             /\ call[c].answered # Null => call'[c].answered # Null
             /\ call[c].ended # Null => call'[c].ended # Null
  <2>1. /\ req[r] \in Handler /\ req[r].at \in Nat /\ req[r].at # Null
        /\ req[r].op \in {"answer", "reject", "end"} /\ req[r].seen \in CallStatus
    BY <1>3, Writer, NullAssumption
  <2> QED BY <1>0, <1>3, <2>1, OutcomeOK
<1> QED BY <1>1, <1>2, <1>3 DEF RowStep

LEMMA CallsKept ==
  ASSUME TypeOK, [Next]_vars
  PROVE  Calls \subseteq Calls'
<1> SUFFICES ASSUME NEW c \in Calls
             PROVE  c \in Calls'
  OBVIOUS
<1>1. c \in Call /\ call'[c].row
  BY RowsStep, RowKeeps DEF Calls
<1> QED BY <1>1 DEF Calls

\* The calls that are new ring since now.
LEMMA NewCall ==
  ASSUME TypeOK, [Next]_vars, NEW c \in Calls', c \notin Calls
  PROVE  /\ UNCHANGED now
         /\ \E r \in Request :
              /\ At(r, "create") /\ Finish(r)
              /\ call' = [call EXCEPT ![c] =
                   [row |-> TRUE, caller |-> req[r].user, callee |-> req[r].peer,
                    status |-> "RINGING", started |-> now, answered |-> Null,
                    ended |-> Null]]
<1>1. c \in Call /\ call'[c].row /\ ~call[c].row
  BY DEF Calls
<1>2. ASSUME NEW r \in Request, CreateCall(r)
      PROVE  /\ UNCHANGED now /\ At(r, "create") /\ Finish(r)
             /\ call' = [call EXCEPT ![c] =
                  [row |-> TRUE, caller |-> req[r].user, callee |-> req[r].peer,
                   status |-> "RINGING", started |-> now, answered |-> Null,
                   ended |-> Null]]
  <2>1. PICK d \in Call :
          call' = [call EXCEPT ![d] =
            [row |-> TRUE, caller |-> req[r].user, callee |-> req[r].peer,
             status |-> "RINGING", started |-> now, answered |-> Null, ended |-> Null]]
    BY <1>2 DEF CreateCall
  <2>2. d = c
    BY <1>1, <2>1 DEF TypeOK
  <2> QED BY <1>2, <2>1, <2>2 DEF CreateCall
<1>3. ASSUME NEW r \in Request, ExpireStaleRinging(r)
      PROVE  FALSE
  BY <1>1, <1>3 DEF ExpireStaleRinging, Stale, Ringing, Calls
<1>4. ASSUME NEW r \in Request, WriteCall(r)
      PROVE  FALSE
  <2>1. req[r].call # c
    BY <1>1, <1>4, Writer DEF Calls
  <2> QED BY <1>1, <1>4, <2>1 DEF WriteCall, TypeOK
<1>5. ASSUME NEW r \in Request,
             \/ BeginStart(r) \/ CheckBusy(r) \/ CreateCallFails(r) \/ BeginOnCall(r)
             \/ ReadCall(r) \/ NotifyMissed(r) \/ Abort(r)
      PROVE  FALSE
  BY <1>1, <1>5 DEF BeginStart, CheckBusy, CreateCallFails, BeginOnCall, ReadCall,
                    NotifyMissed, Abort
<1>6. CASE Tick \/ UNCHANGED vars
  BY <1>1, <1>6 DEF Tick, vars
<1> QED BY <1>2, <1>3, <1>4, <1>5, <1>6 DEF Next, StartStep, CallStep

LEMMA NewRow ==
  ASSUME TypeOK, [Next]_vars, NEW c \in Calls', c \notin Calls
  PROVE  /\ UNCHANGED now
         /\ call'[c].started = now /\ call'[c].status = "RINGING"
         /\ call'[c].answered = Null /\ call'[c].ended = Null
<1>1. c \in Call
  BY DEF Calls
<1> QED BY <1>1, NewCall DEF TypeOK

\* What a handler holds and knows stays so, whoever moves.
LEMMA HandlerKept ==
  ASSUME NEW h, HandlerOK(h), Calls \subseteq Calls'
  PROVE  HandlerOK(h)'
BY DEF HandlerOK

LEMMA NowGrows ==
  ASSUME TypeOK, [Next]_vars
  PROVE  now' \in Nat /\ now <= now'
<1>1. CASE Tick
  BY <1>1 DEF Tick, TypeOK
<1>2. CASE UNCHANGED now
  BY <1>2 DEF TypeOK
<1> QED BY <1>1, <1>2 DEF Next, StartStep, CallStep, BeginStart, ExpireStaleRinging, CheckBusy,
           CreateCall, CreateCallFails, BeginOnCall, ReadCall, WriteCall, NotifyMissed,
           Abort, vars

LEMMA KnowledgeKept ==
  ASSUME LifeInv, [Next]_vars, NEW h \in Handler, HandlerOK(h), Knows(h)
  PROVE  Knows(h)'
<1> USE DEF LifeInv
<1>1. now' \in Nat /\ now \in Nat /\ now <= now'
  BY NowGrows DEF TypeOK
<1>2. h.at # Null => h.at <= now'
  BY <1>1 DEF Knows, Handler, Date
<1>3. ASSUME h.pc \in {"write", "notify"}
      PROVE  /\ call'[h.call].started = call[h.call].started
             /\ call[h.call].status # "RINGING" => call'[h.call].status # "RINGING"
             /\ call[h.call].answered # Null => call'[h.call].answered # Null
  BY <1>3, RowsStep, RowKeeps DEF HandlerOK
<1>4. ASSUME h.pc = "busy", NEW c \in Ringing({h.user, h.peer})'
      PROVE  call'[c].started + RingingTimeout >= h.at
  <2>1. h.at \in Nat /\ h.at <= now
    BY <1>4, NullAssumption DEF Knows, HandlerOK
  <2>2. c \in Calls' /\ call'[c].status = "RINGING"
        /\ {call'[c].caller, call'[c].callee} \cap {h.user, h.peer} # {}
    BY <1>4 DEF Ringing, People
  <2>3. CASE c \in Calls
    <3>1. /\ call[c].status = "RINGING" /\ call'[c].started = call[c].started
          /\ call'[c].caller = call[c].caller /\ call'[c].callee = call[c].callee
      BY <2>2, <2>3, RowsStep, RowKeeps
    <3>2. c \in Ringing({h.user, h.peer})
      BY <2>2, <2>3, <3>1 DEF Ringing, People
    <3> QED BY <1>4, <3>1, <3>2 DEF Knows
  <2>4. CASE c \notin Calls
    <3>1. call'[c].started = now
      BY <2>2, <2>4, NewRow
    <3> QED BY <1>1, <2>1, <3>1, TimeAssumption
  <2> QED BY <2>3, <2>4
<1> QED BY <1>2, <1>3, <1>4 DEF Knows

\* So a step need only say what its own handler becomes.
LEMMA SlotKnows ==
  ASSUME LifeInv, [Next]_vars, NEW r \in Request, NEW h \in Handler, HandlerOK(h)', Knows(h)',
         req' = [req EXCEPT ![r] = h]
  PROVE  /\ req' \in [Request -> Handler]
         /\ \A q \in Request : HandlerOK(req[q])'
         /\ AllKnow'
<1>1. req' \in [Request -> Handler] /\ \A q \in Request : req'[q] \in {h, req[q]}
  BY DEF LifeInv, TypeOK
<1> SUFFICES ASSUME NEW q \in Request
             PROVE  HandlerOK(req[q])' /\ Knows(req[q])'
  BY <1>1 DEF AllKnow
<1>2. PICK g \in Handler : g = req'[q]
  BY <1>1
<1>3. CASE g = h
  BY <1>2, <1>3 DEF HandlerOK, Knows, Ringing, People
<1>4. CASE g = req[q]
  <2>1. HandlerOK(g) /\ Knows(g)
    BY <1>4 DEF LifeInv, TypeOK, AllKnow
  <2>2. HandlerOK(g)' /\ Knows(g)'
    BY <2>1, CallsKept, HandlerKept, KnowledgeKept DEF LifeInv
  <2> QED BY <1>2, <2>2 DEF HandlerOK, Knows, Ringing, People
<1> QED BY <1>1, <1>2, <1>3, <1>4

LEMMA RestingKnows == Resting \in Handler /\ HandlerOK(Resting)' /\ Knows(Resting)'
BY DEF Resting, Handler, HandlerOK, Knows, Op, Step, Date

-----------------------------------------------------------------------------
LEMMA FinishKnows ==
  ASSUME LifeInv, [Next]_vars, NEW r \in Request, Finish(r)
  PROVE  /\ req' \in [Request -> Handler]
         /\ \A q \in Request : HandlerOK(req[q])'
         /\ AllKnow'
BY RestingKnows, SlotKnows DEF Finish

\* What each handler becomes by its own step.
LEMMA StartsKnow ==
  ASSUME LifeInv, [Next]_vars, NEW r \in Request,
         BeginStart(r) \/ ExpireStaleRinging(r) \/ CheckBusy(r)
  PROVE  /\ req' \in [Request -> Handler]
         /\ \A q \in Request : HandlerOK(req[q])'
         /\ AllKnow'
<1>0. req[r] \in Handler /\ HandlerOK(req[r]) /\ now \in Nat /\ now # Null
  BY NullAssumption DEF LifeInv, TypeOK
<1>1. CASE BeginStart(r)
  <2>1. PICK u, v \in User :
          req' = [req EXCEPT ![r] = [Resting EXCEPT !.op = "start", !.pc = "expire",
                                                    !.user = u, !.peer = v]]
    BY <1>1 DEF BeginStart
  <2> DEFINE h == [Resting EXCEPT !.op = "start", !.pc = "expire", !.user = u, !.peer = v]
  <2>2. h \in Handler /\ h.pc = "expire" /\ h.user = u /\ h.peer = v /\ h.at = Null
    BY DEF Resting, Handler, Op, Step, Date
  <2> HIDE DEF h
  <2>3. HandlerOK(h)' /\ Knows(h)'
    BY <2>2 DEF HandlerOK, Knows
  <2> QED BY <2>1, <2>2, <2>3, SlotKnows DEF h
<1>2. CASE ExpireStaleRinging(r)
  <2>0. PICK h, P : /\ h = [req[r] EXCEPT !.pc = "busy", !.at = now]
                    /\ P = {req[r].user, req[r].peer}
    OBVIOUS
  <2>1. /\ h \in Handler /\ h.pc = "busy" /\ h.at = now
        /\ h.user = req[r].user /\ h.peer = req[r].peer
    BY <1>0, <2>0 DEF Handler, Step, Date
  <2>2. h.user \in User /\ h.peer \in User
    BY <1>0, <1>2, <2>1 DEF ExpireStaleRinging, At, HandlerOK
  <2>3. req' = [req EXCEPT ![r] = h]
    BY <1>2, <2>0 DEF ExpireStaleRinging, LifeInv, TypeOK
  <2>4. ASSUME NEW c \in Ringing(P)'
        PROVE  call'[c].started + RingingTimeout >= now
    <3>1. c \in Call /\ call'[c].row /\ call'[c].status = "RINGING"
          /\ {call'[c].caller, call'[c].callee} \cap P # {}
      BY <2>4 DEF Ringing, People, Calls
    <3>2. call[c] \in CallRow
      BY <3>1 DEF LifeInv, TypeOK
    <3>3. CASE Stale(c, P)
      <4>1. call'[c].status = "MISSED"
        BY <1>2, <2>0, <3>1, <3>2, <3>3 DEF ExpireStaleRinging, CallRow
      <4> QED BY <3>1, <4>1
    <3>4. CASE ~Stale(c, P)
      <4>1. call'[c] = call[c]
        BY <1>2, <2>0, <3>1, <3>4 DEF ExpireStaleRinging
      <4>2. c \in Ringing(P)
        BY <3>1, <4>1 DEF Ringing, People, Calls
      <4> QED BY <1>0, <3>2, <3>4, <4>1, <4>2, TimeAssumption DEF Stale, CallRow
    <3> QED BY <3>3, <3>4
  <2>5. UNCHANGED now
    BY <1>2 DEF ExpireStaleRinging
  <2>6. HandlerOK(h)'
    BY <1>0, <2>1, <2>2 DEF HandlerOK
  <2>7. Knows(h)'
    <3>1. \A c \in Ringing({h.user, h.peer})' : call'[c].started + RingingTimeout >= h.at
      BY <2>0, <2>1, <2>4
    <3> QED BY <1>0, <2>1, <2>5, <3>1 DEF Knows
  <2> QED BY <2>1, <2>3, <2>6, <2>7, SlotKnows
<1>3. CASE CheckBusy(r)
  <2>0. PICK h : h = [req[r] EXCEPT !.pc = "create", !.at = Null]
    OBVIOUS
  <2>1. /\ h \in Handler /\ h.pc = "create" /\ h.at = Null
        /\ h.user = req[r].user /\ h.peer = req[r].peer
    BY <1>0, <2>0 DEF Handler, Step, Date
  <2>2. h.user \in User /\ h.peer \in User
    BY <1>0, <1>3, <2>1 DEF CheckBusy, At, HandlerOK
  <2>3. CASE Finish(r)
    BY <2>3, FinishKnows
  <2>4. CASE req' = [req EXCEPT ![r].pc = "create", ![r].at = Null]
    <3>1. req' = [req EXCEPT ![r] = h]
      BY <2>0, <2>4 DEF LifeInv, TypeOK
    <3>2. HandlerOK(h)' /\ Knows(h)'
      BY <2>1, <2>2 DEF HandlerOK, Knows
    <3> QED BY <2>1, <3>1, <3>2, SlotKnows
  <2> QED BY <1>3, <2>3, <2>4 DEF CheckBusy
<1> QED BY <1>1, <1>2, <1>3

LEMMA CallsKnow ==
  ASSUME LifeInv, [Next]_vars, NEW r \in Request,
         BeginOnCall(r) \/ ReadCall(r) \/ WriteCall(r)
  PROVE  /\ req' \in [Request -> Handler]
         /\ \A q \in Request : HandlerOK(req[q])'
         /\ AllKnow'
<1>0. /\ req[r] \in Handler /\ HandlerOK(req[r]) /\ now \in Nat /\ now # Null
      /\ Calls \subseteq Calls'
  BY NullAssumption, CallsKept DEF LifeInv, TypeOK
<1>1. CASE BeginOnCall(r)
  <2>0. PICK c \in Calls, op \in {"answer", "reject", "end"} : \E u \in People(c) :
          req' = [req EXCEPT ![r] = [Resting EXCEPT !.op = op, !.pc = "read",
                                                    !.call = c, !.user = u]]
    BY <1>1 DEF BeginOnCall
  <2>1. PICK u \in People(c) :
          req' = [req EXCEPT ![r] = [Resting EXCEPT !.op = op, !.pc = "read",
                                                    !.call = c, !.user = u]]
    BY <2>0
  <2> DEFINE h == [Resting EXCEPT !.op = op, !.pc = "read", !.call = c, !.user = u]
  <2>2. c \in Call /\ u \in User \cup {Null}
    BY DEF Calls, People, LifeInv, TypeOK, CallRow
  <2>3. h \in Handler /\ h.pc = "read" /\ h.op = op /\ h.call = c /\ h.at = Null
    BY <2>2 DEF Resting, Handler, Op, Step, Date
  <2> HIDE DEF h
  <2>4. HandlerOK(h)' /\ Knows(h)'
    BY <1>0, <2>3 DEF HandlerOK, Knows
  <2> QED BY <2>1, <2>3, <2>4, SlotKnows DEF h
<1>2. CASE ReadCall(r)
  <2>0. PICK c, h : /\ c = req[r].call
                    /\ h = [req[r] EXCEPT !.pc = "write", !.seen = call[c].status, !.at = now,
                                          !.user = Null]
    OBVIOUS
  <2>1. c \in Calls /\ c \in Call /\ call[c] \in CallRow
    BY <1>0, <1>2, <2>0 DEF ReadCall, At, HandlerOK, Calls, LifeInv, TypeOK
  <2>2. CASE Finish(r)
    BY <2>2, FinishKnows
  <2>3. CASE Allowed(req[r].op, c, req[r].user) /\ req' = [req EXCEPT ![r].pc = "write",
               ![r].seen = call[c].status, ![r].at = now, ![r].user = Null]
    <3>1. /\ h \in Handler /\ h.pc = "write" /\ h.call = c /\ h.op = req[r].op
          /\ h.seen = call[c].status /\ h.at = now /\ h.seen \in CallStatus
      BY <1>0, <2>0, <2>1 DEF Handler, Step, Date, CallRow
    <3>2. req' = [req EXCEPT ![r] = h]
      BY <2>0, <2>3 DEF LifeInv, TypeOK
    <3>3. UNCHANGED <<call, now>>
      BY <1>2 DEF ReadCall
    <3>4. h.op \in {"answer", "reject", "end"}
      BY <1>0, <1>2, <3>1 DEF ReadCall, At, HandlerOK
    <3>5. HandlerOK(h)'
      BY <1>0, <2>1, <3>1, <3>4 DEF HandlerOK
    <3>6. call[c].started <= now /\ (call[c].status = "ANSWERED" => call[c].answered # Null)
      BY <2>1 DEF LifeInv, StartedByNow, DatesMatchStatus
    <3>7. Knows(h)'
      BY <1>0, <2>1, <3>1, <3>3, <3>6 DEF Knows, CallRow
    <3> QED BY <3>1, <3>2, <3>5, <3>7, SlotKnows
  <2> QED BY <1>2, <2>0, <2>2, <2>3 DEF ReadCall
<1>3. CASE WriteCall(r)
  <2>0. PICK c, h : /\ c = req[r].call
                    /\ h = [Resting EXCEPT !.op = "end", !.pc = "notify", !.call = c]
    OBVIOUS
  <2>1. c \in Calls /\ c \in Call /\ call'[c] = Outcome(call[c], req[r])
    BY <1>3, <2>0, Writer DEF WriteCall, Calls, LifeInv, TypeOK
  <2>2. call'[c].status # "RINGING"
    BY <1>3, <2>0, <2>1, Writer, OutcomeOK DEF LifeInv
  <2>3. CASE Finish(r)
    BY <2>3, FinishKnows
  <2>4. CASE req' = [req EXCEPT ![r] = h]
    <3>1. h \in Handler /\ h.pc = "notify" /\ h.call = c /\ h.at = Null
      BY <2>0, <2>1 DEF Resting, Handler, Op, Step, Date
    <3>2. HandlerOK(h)' /\ Knows(h)'
      BY <1>0, <2>1, <2>2, <3>1 DEF HandlerOK, Knows
    <3> QED BY <2>4, <3>1, <3>2, SlotKnows
  <2> QED BY <1>3, <2>0, <2>3, <2>4 DEF WriteCall
<1> QED BY <1>1, <1>2, <1>3

LEMMA HandlersKnow ==
  ASSUME LifeInv, [Next]_vars
  PROVE  /\ req' \in [Request -> Handler]
         /\ \A q \in Request : HandlerOK(req[q])'
         /\ AllKnow'
<1>1. ASSUME NEW r \in Request,
             CreateCall(r) \/ CreateCallFails(r) \/ NotifyMissed(r) \/ Abort(r)
      PROVE  Finish(r)
  BY <1>1 DEF CreateCall, CreateCallFails, NotifyMissed, Abort
<1>2. CASE UNCHANGED req
  <2> SUFFICES ASSUME NEW q \in Request
               PROVE  HandlerOK(req[q])' /\ Knows(req[q])'
    BY <1>2 DEF AllKnow, LifeInv, TypeOK
  <2>1. PICK g \in Handler : g = req[q] /\ g = req'[q] /\ HandlerOK(g) /\ Knows(g)
    BY <1>2 DEF LifeInv, TypeOK, AllKnow
  <2>2. HandlerOK(g)' /\ Knows(g)'
    BY <2>1, CallsKept, HandlerKept, KnowledgeKept DEF LifeInv
  <2> QED BY <2>1, <2>2 DEF HandlerOK, Knows, Ringing, People
<1>3. Tick \/ UNCHANGED vars => UNCHANGED req
  BY DEF Tick, vars
<1> QED BY <1>1, <1>2, <1>3, FinishKnows, StartsKnow, CallsKnow DEF Next, StartStep, CallStep

\* The tables: their types, and the dates.
LEMMA TablesType ==
  ASSUME LifeInv, [Next]_vars
  PROVE  /\ call' \in [Call -> CallRow] /\ notices' \in [Call -> Nat]
         /\ now' \in Nat /\ raced' \in SUBSET Call
<1> USE DEF LifeInv, TypeOK
<1>1. CASE UNCHANGED <<call, notices, raced>>
  BY <1>1, NowGrows
<1>2. ASSUME NEW r \in Request, ExpireStaleRinging(r)
      PROVE  call' \in [Call -> CallRow]
  <2> SUFFICES ASSUME NEW c \in Call
               PROVE  call'[c] \in CallRow
    BY <1>2 DEF ExpireStaleRinging
  <2>1. call[c] \in CallRow /\ [call[c] EXCEPT !.status = "MISSED", !.ended = now] \in CallRow
    BY DEF CallRow, CallStatus, Date
  <2> QED BY <1>2, <2>1 DEF ExpireStaleRinging
<1>3. ASSUME NEW r \in Request, CreateCall(r)
      PROVE  call' \in [Call -> CallRow]
  <2>1. req[r].user \in User /\ req[r].peer \in User
    BY <1>3 DEF CreateCall, At, HandlerOK
  <2> QED BY <1>3, <2>1 DEF CreateCall, CallRow, CallStatus, Date
<1>4. ASSUME NEW r \in Request, WriteCall(r)
      PROVE  call' \in [Call -> CallRow] /\ raced' \in SUBSET Call
  <2>1. /\ req[r].call \in Call
        /\ Outcome(call[req[r].call], req[r]) \in CallRow
    BY <1>4, Writer, OutcomeOK DEF Calls
  <2> QED BY <1>4, <2>1 DEF WriteCall
<1>5. ASSUME NEW r \in Request, NotifyMissed(r)
      PROVE  notices' \in [Call -> Nat]
  <2>1. req[r].call \in Call
    BY <1>5 DEF NotifyMissed, At, HandlerOK, Calls
  <2> QED BY <1>5, <2>1 DEF NotifyMissed
<1>6. ASSUME NEW r \in Request,
             \/ BeginStart(r) \/ CheckBusy(r) \/ CreateCallFails(r) \/ BeginOnCall(r)
             \/ ReadCall(r) \/ Abort(r)
      PROVE  UNCHANGED <<call, notices, raced>>
  BY <1>6 DEF BeginStart, CheckBusy, CreateCallFails, BeginOnCall, ReadCall, Abort
<1>7. ASSUME NEW r \in Request, ExpireStaleRinging(r) \/ CreateCall(r)
      PROVE  UNCHANGED <<notices, now, raced>>
  BY <1>7 DEF ExpireStaleRinging, CreateCall
<1>8. ASSUME NEW r \in Request, WriteCall(r)
      PROVE  UNCHANGED <<notices, now>>
  BY <1>8 DEF WriteCall
<1>9. ASSUME NEW r \in Request, NotifyMissed(r)
      PROVE  UNCHANGED <<call, now, raced>>
  BY <1>9 DEF NotifyMissed
<1>10. CASE Tick \/ UNCHANGED vars
  BY <1>1, <1>10 DEF Tick, vars
<1> QED BY <1>1, <1>2, <1>3, <1>4, <1>5, <1>6, <1>7, <1>8, <1>9, <1>10
        DEF Next, StartStep, CallStep

RowDated(c) ==
  /\ call[c].started <= now
  /\ call[c].status = "RINGING" => call[c].answered = Null /\ call[c].ended = Null
  /\ call[c].status \in {"REJECTED", "MISSED"} => call[c].ended # Null
  /\ call[c].status = "ANSWERED" => call[c].answered # Null
  /\ call[c].ended # Null => call[c].ended >= call[c].started

LEMMA DatesKept ==
  ASSUME LifeInv, [Next]_vars
  PROVE  StartedByNow' /\ DatesMatchStatus'
<1> SUFFICES ASSUME NEW c \in Calls'
             PROVE  RowDated(c)'
  BY DEF StartedByNow, DatesMatchStatus, RowDated
<1> USE DEF LifeInv
<1>0. now \in Nat /\ now' \in Nat /\ now <= now' /\ now # Null
  BY NowGrows, NullAssumption DEF TypeOK
<1>1. CASE c \notin Calls
  BY <1>0, <1>1, NewRow DEF RowDated
<1>2. CASE c \in Calls
  <2>0. /\ call[c] \in CallRow /\ call[c].started \in Nat /\ call[c].started <= now
        /\ call[c].status = "RINGING" => call[c].answered = Null /\ call[c].ended = Null
        /\ call[c].status \in {"REJECTED", "MISSED"} => call[c].ended # Null
        /\ call[c].status = "ANSWERED" => call[c].answered # Null
        /\ call[c].ended # Null => call[c].ended >= call[c].started
    BY <1>2 DEF TypeOK, Calls, CallRow, StartedByNow, DatesMatchStatus
  <2>1. CASE call'[c] = call[c]
    BY <1>0, <2>0, <2>1 DEF RowDated
  <2>2. CASE call'[c] = [call[c] EXCEPT !.status = "MISSED", !.ended = now]
    <3>1. /\ call'[c].status = "MISSED" /\ call'[c].ended = now
          /\ call'[c].started = call[c].started
      BY <2>0, <2>2 DEF CallRow
    <3> QED BY <1>0, <2>0, <3>1 DEF RowDated
  <2>3. ASSUME NEW r \in Request, WriteCall(r), c = req[r].call,
               call'[c] = Outcome(call[c], req[r])
        PROVE  RowDated(c)'
    <3>1. /\ req[r] \in Handler /\ req[r].at \in Nat /\ req[r].at # Null
          /\ req[r].op \in {"answer", "reject", "end"} /\ req[r].seen \in CallStatus
          /\ req[r].pc = "write"
      BY <2>3, Writer, NullAssumption DEF WriteCall, At
    <3>2. /\ req[r].at >= call[c].started
          /\ req[r].op = "end" /\ req[r].seen = "ANSWERED" => call[c].answered # Null
      BY <2>3, <3>1 DEF AllKnow, Knows
    <3>3. /\ call'[c].started = call[c].started /\ call'[c].status # "RINGING"
          /\ call'[c].answered \in {call[c].answered, req[r].at}
          /\ call'[c].ended \in {call[c].ended, req[r].at}
      BY <2>0, <2>3, <3>1, OutcomeOK
    <3>4. CASE req[r].op = "answer"
      <4>1. call'[c].status = "ANSWERED" /\ call'[c].answered = req[r].at
        BY <2>0, <2>3, <3>4 DEF Outcome, CallRow
      <4> QED BY <1>0, <2>0, <3>1, <3>2, <3>3, <4>1 DEF RowDated
    <3>5. CASE req[r].op = "reject"
      <4>1. call'[c].status = "REJECTED" /\ call'[c].ended = req[r].at
        BY <2>0, <2>3, <3>5 DEF Outcome, CallRow
      <4> QED BY <1>0, <2>0, <3>1, <3>2, <3>3, <4>1 DEF RowDated
    <3>6. CASE req[r].op = "end"
      <4>1. /\ call'[c].ended = req[r].at /\ call'[c].answered = call[c].answered
            /\ call'[c].status = IF req[r].seen = "RINGING" THEN "MISSED" ELSE req[r].seen
        BY <2>0, <2>3, <3>6 DEF Outcome, CallRow
      <4> QED BY <1>0, <2>0, <3>1, <3>2, <3>3, <3>6, <4>1 DEF RowDated
    <3> QED BY <3>1, <3>4, <3>5, <3>6
  <2> QED BY <1>2, <2>1, <2>2, <2>3, RowsStep DEF RowStep
<1> QED BY <1>1, <1>2

LEMMA LifeHolds == Spec => []LifeInv
<1>1. Init => LifeInv
  BY NullAssumption
     DEF Init, LifeInv, TypeOK, StartedByNow, DatesMatchStatus, AllKnow, Knows, Calls,
         NoCall, Resting, Handler, HandlerOK, CallRow, CallStatus, Date, Op, Step
<1>2. LifeInv /\ [Next]_vars => LifeInv'
  <2> SUFFICES ASSUME LifeInv, [Next]_vars
               PROVE  LifeInv'
    OBVIOUS
  <2>1. TypeOK'
    BY HandlersKnow, TablesType DEF TypeOK
  <2> QED BY <2>1, HandlersKnow, DatesKept DEF LifeInv
<1> QED BY <1>1, <1>2, PTL DEF Spec

\* When start looks for a call in progress, each one it can find has rung for no longer
\* than the timeout at the clean-up of expireStaleRinging.
THEOREM FreshRinging == Spec => []NoStaleRinging
<1>1. LifeInv => NoStaleRinging
  BY DEF LifeInv, AllKnow, Knows, NoStaleRinging, At
<1> QED BY <1>1, LifeHolds, PTL

-----------------------------------------------------------------------------
\* A call goes through its life once: it keeps its people and its start, never rings
\* again nor loses its end, and its end is that of the first hang-up unless a handler
\* overtook another between the read and the write of answer, reject or end.
THEOREM CallsSettled == Spec => CallsSettle
<1>1. LifeInv /\ [Next]_vars =>
        (\A c \in Calls :
           /\ call[c].status # "RINGING" => call'[c].status # "RINGING"
           /\ call[c].ended # Null => call'[c].ended # Null
           /\ <<call'[c].caller, call'[c].callee, call'[c].started>> =
              <<call[c].caller, call[c].callee, call[c].started>>)
  BY RowsStep, RowKeeps DEF LifeInv
<1>2. LifeInv /\ [Next]_vars =>
        (\A c \in Calls \ raced' : call[c].ended # Null =>
           call'[c].ended = call[c].ended /\ call'[c].status = call[c].status)
  <2> SUFFICES ASSUME LifeInv, [Next]_vars, NEW c \in Calls \ raced', call[c].ended # Null
               PROVE  call'[c].ended = call[c].ended /\ call'[c].status = call[c].status
    OBVIOUS
  <2>1. call[c].status # "RINGING"
    BY DEF LifeInv, DatesMatchStatus
  <2>2. ASSUME NEW r \in Request, Stale(c, {req[r].user, req[r].peer})
        PROVE  FALSE
    BY <2>1, <2>2 DEF Stale, Ringing
  <2>3. ASSUME NEW r \in Request, WriteCall(r), c = req[r].call
        PROVE  FALSE
    <3>1. req[r].seen = call[c].status /\ Allowed(req[r].op, c, call[c].callee)
      BY <2>3 DEF WriteCall
    <3> QED BY <2>1, <3>1 DEF Allowed
  <2> QED BY <2>2, <2>3, RowsStep DEF LifeInv, RowStep
<1> QED BY <1>1, <1>2, LifeHolds, PTL DEF Spec, CallsSettle, CallsOnlyProgress, ClosedCallFixed

-----------------------------------------------------------------------------
(***************************************************************************)
(* The bounds: what a person is rung by, and what a callee is notified of,  *)
(* is counted with the handlers about to add to it.                         *)
(***************************************************************************)
RingingCounted(u) ==
  /\ IsFiniteSet(Ringing({u}))
  /\ Cardinality(Ringing({u})) + Cardinality(Starting(u)) <= Cardinality(Request)

\* The handlers that will report a call missed.
Reporting(c) ==
  {r \in Request : req[r].call = c /\ (At(r, "notify") \/ (At(r, "write") /\ Missed(req[r])))}
NoticesCounted(c) ==
  /\ notices[c] + Cardinality(Reporting(c)) <= Cardinality(Request)
  /\ c \notin Calls \/ call[c].status = "RINGING" => notices[c] = 0

CountInv ==
  /\ \A u \in User : RingingCounted(u)
  /\ \A c \in Call : NoticesCounted(c)

\* A set of handlers is finite, and no larger than they are many.
LEMMA HandlersCounted ==
  ASSUME NEW S, S \subseteq Request
  PROVE  /\ IsFiniteSet(S) /\ Cardinality(S) \in Nat /\ Cardinality(Request) \in Nat
         /\ Cardinality(S) <= Cardinality(Request)
BY RequestAssumption, FS_Subset, FS_CardinalityType

LEMMA RingingShrinks ==
  ASSUME NEW u, RingingCounted(u), Ringing({u})' \subseteq Ringing({u}),
         Starting(u)' \subseteq Starting(u)
  PROVE  RingingCounted(u)'
<1>1. /\ Starting(u) \subseteq Request /\ Starting(u)' \subseteq Request
  BY DEF Starting
<1>2. /\ IsFiniteSet(Ringing({u})') /\ Cardinality(Ringing({u})') \in Nat
      /\ Cardinality(Ringing({u})) \in Nat
      /\ Cardinality(Ringing({u})') <= Cardinality(Ringing({u}))
  BY FS_Subset, FS_CardinalityType DEF RingingCounted
<1>3. /\ Cardinality(Starting(u)') \in Nat /\ Cardinality(Starting(u)) \in Nat
      /\ Cardinality(Request) \in Nat
      /\ Cardinality(Starting(u)') <= Cardinality(Starting(u))
  BY <1>1, HandlersCounted, FS_Subset
<1>4. Cardinality(Ringing({u})') + Cardinality(Starting(u)') <= Cardinality(Request)
  BY <1>2, <1>3 DEF RingingCounted
<1> QED BY <1>2, <1>4 DEF RingingCounted

\* No call there is comes to ring anyone.
LEMMA OldRinging ==
  ASSUME LifeInv, [Next]_vars, NEW u, NEW c \in Ringing({u})', c \in Calls
  PROVE  c \in Ringing({u})
<1>1. call'[c].status = "RINGING" /\ {call'[c].caller, call'[c].callee} \cap {u} # {}
  BY DEF Ringing, People
<1>2. /\ call[c].status = "RINGING"
      /\ call'[c].caller = call[c].caller /\ call'[c].callee = call[c].callee
  BY <1>1, RowsStep, RowKeeps DEF LifeInv
<1> QED BY <1>1, <1>2 DEF Ringing, People

\* No step but the check of a free line makes another handler a starting one.
LEMMA OldStarting ==
  ASSUME LifeInv, [Next]_vars, NEW u, NEW q \in Starting(u)'
  PROVE  q \in Starting(u) \/ CheckBusy(q)
<1> SUFFICES ASSUME ~CheckBusy(q)
             PROVE  q \in Starting(u)
  OBVIOUS
<1>1. q \in Request /\ req'[q].pc = "create" /\ u \in {req'[q].user, req'[q].peer}
  BY DEF Starting, At
<1>2. CASE req'[q] = req[q]
  BY <1>1, <1>2 DEF Starting, At
<1>3. ASSUME NEW r \in Request, Finish(r)
      PROVE  req'[q] = req[q]
  BY <1>1, <1>3 DEF Finish, Resting, LifeInv, TypeOK
<1>4. ASSUME NEW r \in Request, BeginStart(r) \/ BeginOnCall(r)
      PROVE  req'[q] = req[q]
  BY <1>1, <1>4 DEF BeginStart, BeginOnCall, Resting, LifeInv, TypeOK
<1>5. ASSUME NEW r \in Request, ExpireStaleRinging(r)
      PROVE  req'[q] = req[q]
  BY <1>1, <1>5 DEF ExpireStaleRinging, LifeInv, TypeOK, Handler
<1>6. ASSUME NEW r \in Request, CheckBusy(r)
      PROVE  req'[q] = req[q]
  <2>1. q # r
    BY <1>6
  <2> QED BY <1>1, <1>3, <1>6, <2>1 DEF CheckBusy, LifeInv, TypeOK
<1>7. ASSUME NEW r \in Request, ReadCall(r) \/ WriteCall(r)
      PROVE  req'[q] = req[q]
  <2>1. req[r] \in Handler
    BY DEF LifeInv, TypeOK
  <2>2. CASE Finish(r)
    BY <1>3, <2>2
  <2>3. CASE ReadCall(r) /\ ~Finish(r)
    <3>1. req'[q] = req[q] \/ req'[q].pc = "write"
      BY <1>1, <2>1, <2>3 DEF ReadCall, LifeInv, TypeOK, Handler
    <3> QED BY <1>1, <3>1
  <2>4. CASE WriteCall(r) /\ ~Finish(r)
    <3>1. req'[q] = req[q] \/ req'[q].pc = "notify"
      BY <1>1, <2>4 DEF WriteCall, Resting, LifeInv, TypeOK
    <3> QED BY <1>1, <3>1
  <2> QED BY <1>7, <2>2, <2>3, <2>4
<1>8. Tick \/ UNCHANGED vars => UNCHANGED req
  BY DEF Tick, vars
<1> QED BY <1>2, <1>3, <1>4, <1>5, <1>6, <1>7, <1>8
        DEF Next, StartStep, CallStep, CreateCall, CreateCallFails, NotifyMissed, Abort

LEMMA RingingStep ==
  ASSUME LifeInv, [Next]_vars, NEW u \in User, RingingCounted(u)
  PROVE  RingingCounted(u)'
<1>0. Starting(u) \subseteq Request /\ Starting(u)' \subseteq Request
  BY DEF Starting
<1>1. CASE \E r \in Starting(u)' : CheckBusy(r)
  <2>1. PICK r \in Request : CheckBusy(r) /\ r \in Starting(u)'
    BY <1>0, <1>1
  <2>2. req'[r].pc = "create" /\ u \in {req'[r].user, req'[r].peer}
    BY <2>1 DEF Starting, At
  <2>3. req[r] \in Handler
    BY DEF LifeInv, TypeOK
  <2>4. Free(req[r].user, req[r].peer) /\ req'[r] = [req[r] EXCEPT !.pc = "create", !.at = Null]
    <3>1. ~Finish(r)
      BY <2>2 DEF Finish, Resting, LifeInv, TypeOK
    <3> QED BY <2>1, <3>1 DEF CheckBusy, LifeInv, TypeOK
  <2>5. Ringing({req[r].user, req[r].peer}) = {} /\ u \in {req[r].user, req[r].peer}
    BY <2>2, <2>3, <2>4 DEF Free, Handler
  <2>6. Ringing({u})' = {}
    BY <2>1, <2>5 DEF CheckBusy, Ringing, People, Calls
  <2>7. IsFiniteSet(Ringing({u})') /\ Cardinality(Ringing({u})') = 0
    BY <2>6, FS_EmptySet
  <2>8. Cardinality(Ringing({u})') + Cardinality(Starting(u)') <= Cardinality(Request)
    BY <1>0, <2>7, HandlersCounted
  <2> QED BY <2>7, <2>8 DEF RingingCounted
<1>2. CASE /\ ~ \E r \in Starting(u)' : CheckBusy(r)
           /\ \E c \in Ringing({u})' : c \notin Calls
  <2>1. Starting(u)' \subseteq Starting(u)
    BY <1>2, OldStarting
  <2>2. PICK c : c \in Ringing({u})' /\ c \notin Calls
    BY <1>2
  <2>3. c \in Calls' /\ c \in Call /\ u \in {call'[c].caller, call'[c].callee}
    BY <2>2 DEF Ringing, People, Calls
  <2>4. PICK r \in Request :
          /\ At(r, "create") /\ Finish(r)
          /\ call' = [call EXCEPT ![c] =
               [row |-> TRUE, caller |-> req[r].user, callee |-> req[r].peer,
                status |-> "RINGING", started |-> now, answered |-> Null, ended |-> Null]]
    BY <2>2, <2>3, NewCall DEF LifeInv
  <2>5. call'[c].caller = req[r].user /\ call'[c].callee = req[r].peer
    BY <2>3, <2>4 DEF LifeInv, TypeOK
  <2>6. r \in Starting(u) /\ r \notin Starting(u)'
    BY <2>3, <2>4, <2>5 DEF Starting, At, Finish, Resting, LifeInv, TypeOK
  <2>7. Ringing({u})' \subseteq Ringing({u}) \cup {c}
    <3> SUFFICES ASSUME NEW d \in Ringing({u})', d # c
                 PROVE  d \in Ringing({u})
      OBVIOUS
    <3>1. d \in Calls
      BY <2>4 DEF Ringing, Calls, LifeInv, TypeOK
    <3> QED BY <3>1, OldRinging
  <2>8. c \notin Ringing({u})
    BY <2>2 DEF Ringing
  <2>9. /\ IsFiniteSet(Ringing({u}) \cup {c})
        /\ Cardinality(Ringing({u}) \cup {c}) = Cardinality(Ringing({u})) + 1
    BY <2>8, FS_AddElement DEF RingingCounted
  <2>10. /\ IsFiniteSet(Ringing({u})')
         /\ Cardinality(Ringing({u})') <= Cardinality(Ringing({u}) \cup {c})
    BY <2>7, <2>9, FS_Subset
  <2>11. /\ IsFiniteSet(Starting(u) \ {r})
         /\ Cardinality(Starting(u) \ {r}) = Cardinality(Starting(u)) - 1
    BY <1>0, <2>6, HandlersCounted, FS_RemoveElement
  <2>12. Cardinality(Starting(u)') <= Cardinality(Starting(u) \ {r})
    BY <2>1, <2>6, <2>11, FS_Subset
  <2>13. /\ Cardinality(Ringing({u})') \in Nat /\ Cardinality(Ringing({u})) \in Nat
         /\ Cardinality(Starting(u)') \in Nat /\ Cardinality(Starting(u)) \in Nat
         /\ Cardinality(Request) \in Nat
    BY <1>0, <2>10, HandlersCounted, FS_CardinalityType DEF RingingCounted
  <2>14. Cardinality(Ringing({u})') + Cardinality(Starting(u)') <= Cardinality(Request)
    BY <2>9, <2>10, <2>11, <2>12, <2>13 DEF RingingCounted
  <2> QED BY <2>10, <2>14 DEF RingingCounted
<1>3. CASE /\ ~ \E r \in Starting(u)' : CheckBusy(r)
           /\ \A c \in Ringing({u})' : c \in Calls
  <2>1. Starting(u)' \subseteq Starting(u)
    BY <1>3, OldStarting
  <2>2. Ringing({u})' \subseteq Ringing({u})
    BY <1>3, OldRinging
  <2> QED BY <2>1, <2>2, RingingShrinks
<1> QED BY <1>1, <1>2, <1>3

-----------------------------------------------------------------------------
\* Only the read of a call that rings makes a handler one that will report it missed.
LEMMA OldReporting ==
  ASSUME LifeInv, [Next]_vars, NEW c \in Call, NEW q \in Reporting(c)'
  PROVE  q \in Reporting(c) \/ (ReadCall(q) /\ c \in Calls /\ call[c].status = "RINGING")
<1> SUFFICES ASSUME q \notin Reporting(c)
             PROVE  ReadCall(q) /\ c \in Calls /\ call[c].status = "RINGING"
  OBVIOUS
<1>1. /\ q \in Request /\ req'[q].call = c
      /\ \/ req'[q].pc = "notify"
         \/ req'[q].pc = "write" /\ req'[q].op = "end" /\ req'[q].seen = "RINGING"
  BY DEF Reporting, At, Missed
<1>2. req'[q] # req[q]
  BY <1>1 DEF Reporting, At, Missed
<1>3. req[q] \in Handler /\ HandlerOK(req[q])
  BY <1>1 DEF LifeInv, TypeOK
<1>4. ASSUME NEW r \in Request, Finish(r)
      PROVE  FALSE
  BY <1>1, <1>2, <1>4 DEF Finish, Resting, LifeInv, TypeOK
<1>5. ASSUME NEW r \in Request, BeginStart(r) \/ BeginOnCall(r)
      PROVE  FALSE
  <2>1. CASE BeginStart(r)
    BY <1>1, <1>2, <2>1 DEF BeginStart, Resting, LifeInv, TypeOK
  <2>2. CASE BeginOnCall(r)
    <3>1. req'[q] = req[q] \/ req'[q].pc = "read"
      BY <1>1, <2>2 DEF BeginOnCall, Resting, LifeInv, TypeOK
    <3> QED BY <1>1, <1>2, <3>1
  <2> QED BY <1>5, <2>1, <2>2
<1>6. ASSUME NEW r \in Request, ExpireStaleRinging(r)
      PROVE  FALSE
  <2>1. req[r] \in Handler
    BY DEF LifeInv, TypeOK
  <2>2. req'[q] = req[q] \/ req'[q].pc = "busy"
    BY <1>1, <1>6, <2>1 DEF ExpireStaleRinging, LifeInv, TypeOK, Handler
  <2> QED BY <1>1, <1>2, <2>2
<1>7. ASSUME NEW r \in Request, CheckBusy(r)
      PROVE  FALSE
  <2>1. req[r] \in Handler /\ ~Finish(r)
    BY <1>4 DEF LifeInv, TypeOK
  <2>2. req'[q] = req[q] \/ req'[q].pc = "create"
    BY <1>1, <1>7, <2>1 DEF CheckBusy, LifeInv, TypeOK, Handler
  <2> QED BY <1>1, <1>2, <2>2
<1>8. ASSUME NEW r \in Request, ReadCall(r)
      PROVE  r = q /\ c \in Calls /\ call[c].status = "RINGING"
  <2>1. r = q
    BY <1>1, <1>2, <1>4, <1>8 DEF ReadCall, LifeInv, TypeOK
  <2>2. req'[q] = [req[q] EXCEPT !.pc = "write", !.seen = call[req[q].call].status,
                                 !.at = now, !.user = Null]
    BY <1>1, <1>4, <1>8, <2>1 DEF ReadCall, LifeInv, TypeOK
  <2>3. req[q].call = c /\ call[c].status = "RINGING"
    BY <1>1, <1>3, <2>2 DEF Handler
  <2>4. c \in Calls
    BY <1>3, <1>8, <2>1, <2>3 DEF ReadCall, At, HandlerOK
  <2> QED BY <2>1, <2>3, <2>4
<1>9. ASSUME NEW r \in Request, WriteCall(r)
      PROVE  FALSE
  <2>1. r = q
    BY <1>1, <1>2, <1>4, <1>9 DEF WriteCall, LifeInv, TypeOK
  <2>2. /\ Missed(req[q])
        /\ req'[q] = [Resting EXCEPT !.op = "end", !.pc = "notify", !.call = req[q].call]
    BY <1>1, <1>4, <1>9, <2>1 DEF WriteCall, LifeInv, TypeOK
  <2>3. req[q].call = c
    BY <1>1, <2>2 DEF Resting
  <2> QED BY <1>1, <1>9, <2>1, <2>2, <2>3 DEF WriteCall, Reporting
<1>10. Tick \/ UNCHANGED vars => UNCHANGED req
  BY DEF Tick, vars
<1> QED BY <1>2, <1>4, <1>5, <1>6, <1>7, <1>8, <1>9, <1>10
        DEF Next, StartStep, CallStep, CreateCall, CreateCallFails, NotifyMissed, Abort

LEMMA NoticesStep ==
  ASSUME LifeInv, [Next]_vars, NEW c \in Call, NoticesCounted(c)
  PROVE  NoticesCounted(c)'
<1>0. /\ Reporting(c) \subseteq Request /\ Reporting(c)' \subseteq Request
      /\ notices[c] \in Nat
  BY DEF Reporting, LifeInv, TypeOK
<1>1. c \notin Calls' \/ call'[c].status = "RINGING" =>
        c \notin Calls \/ call[c].status = "RINGING"
  BY CallsKept, RowsStep, RowKeeps DEF LifeInv
<1>2. CASE \E r \in Reporting(c)' : ReadCall(r) /\ c \in Calls /\ call[c].status = "RINGING"
  <2>1. UNCHANGED notices /\ notices[c] = 0
    BY <1>0, <1>2 DEF ReadCall, NoticesCounted
  <2>2. Cardinality(Reporting(c)') <= Cardinality(Request) /\ Cardinality(Reporting(c)') \in Nat
    BY <1>0, HandlersCounted
  <2> QED BY <2>1, <2>2 DEF NoticesCounted
<1>3. CASE ~ \E r \in Reporting(c)' : ReadCall(r) /\ c \in Calls /\ call[c].status = "RINGING"
  <2>1. Reporting(c)' \subseteq Reporting(c)
    BY <1>3, OldReporting
  <2>2. /\ Cardinality(Reporting(c)) \in Nat /\ Cardinality(Reporting(c)') \in Nat
        /\ Cardinality(Request) \in Nat /\ IsFiniteSet(Reporting(c))
        /\ Cardinality(Reporting(c)') <= Cardinality(Reporting(c))
    BY <1>0, <2>1, HandlersCounted, FS_Subset
  <2>3. CASE notices'[c] = notices[c]
    BY <1>0, <1>1, <2>2, <2>3 DEF NoticesCounted
  <2>4. ASSUME NEW r \in Request, NotifyMissed(r), req[r].call = c
        PROVE  NoticesCounted(c)'
    <3>1. notices'[c] = notices[c] + 1 /\ UNCHANGED call
      BY <2>4 DEF NotifyMissed, LifeInv, TypeOK
    <3>2. call[c].status # "RINGING" /\ c \in Calls
      BY <2>4 DEF NotifyMissed, At, LifeInv, TypeOK, HandlerOK, AllKnow, Knows
    <3>3. r \in Reporting(c) /\ r \notin Reporting(c)'
      BY <2>4 DEF NotifyMissed, Reporting, Finish, At, Resting, LifeInv, TypeOK
    <3>4. /\ IsFiniteSet(Reporting(c) \ {r})
          /\ Cardinality(Reporting(c) \ {r}) = Cardinality(Reporting(c)) - 1
      BY <2>2, <3>3, FS_RemoveElement
    <3>5. Cardinality(Reporting(c)') <= Cardinality(Reporting(c) \ {r})
      BY <2>1, <3>3, <3>4, FS_Subset
    <3>6. notices'[c] + Cardinality(Reporting(c)') <= Cardinality(Request)
      BY <1>0, <2>2, <3>1, <3>4, <3>5 DEF NoticesCounted
    <3> QED BY <1>1, <3>2, <3>6 DEF NoticesCounted
  <2>5. ASSUME NEW r \in Request, NotifyMissed(r), req[r].call # c
        PROVE  notices'[c] = notices[c]
    BY <2>5 DEF NotifyMissed, LifeInv, TypeOK
  <2>6. (~ \E r \in Request : NotifyMissed(r)) => UNCHANGED notices
    BY DEF Next, StartStep, CallStep, BeginStart, ExpireStaleRinging, CheckBusy, CreateCall,
           CreateCallFails, BeginOnCall, ReadCall, WriteCall, Abort, Tick, vars
  <2> QED BY <2>3, <2>4, <2>5, <2>6
<1> QED BY <1>2, <1>3

LEMMA CountsHold == Spec => []CountInv
<1>1. Init => CountInv
  <2> SUFFICES ASSUME Init
               PROVE  CountInv
    OBVIOUS
  <2>1. ASSUME NEW u \in User
        PROVE  Ringing({u}) = {} /\ Starting(u) = {}
    BY DEF Init, Ringing, Calls, NoCall, Starting, At, Resting
  <2>2. ASSUME NEW c \in Call
        PROVE  Reporting(c) = {} /\ notices[c] = 0
    BY DEF Init, Reporting, At, Resting
  <2>3. IsFiniteSet({}) /\ Cardinality({}) = 0 /\ Cardinality(Request) \in Nat
    BY FS_EmptySet, RequestAssumption, FS_CardinalityType
  <2>4. \A u \in User : RingingCounted(u)
    BY <2>1, <2>3 DEF RingingCounted
  <2>5. \A c \in Call : NoticesCounted(c)
    BY <2>2, <2>3 DEF NoticesCounted
  <2> QED BY <2>4, <2>5 DEF CountInv
<1>2. LifeInv /\ CountInv /\ [Next]_vars => CountInv'
  BY RingingStep, NoticesStep DEF CountInv
<1> QED BY <1>1, <1>2, LifeHolds, PTL DEF Spec

\* The table of calls tells what happened, however the handlers interleave: its types and
\* its dates, how many calls ring a person at once, how often a callee is told of a call
\* missed, and which calls a start still finds.
THEOREM CallRowsCorrect == Spec => []CallRowsWellFormed
<1>1. LifeInv /\ CountInv => CallRowsWellFormed
  <2> SUFFICES ASSUME LifeInv, CountInv
               PROVE  CallRowsWellFormed
    OBVIOUS
  <2>1. RingingBounded
    BY DEF CountInv, RingingCounted, RingingBounded
  <2>2. ASSUME NEW c \in Call
        PROVE  notices[c] <= Cardinality(Request)
    <3>1. notices[c] \in Nat /\ Reporting(c) \subseteq Request
      BY DEF LifeInv, TypeOK, Reporting
    <3>2. Cardinality(Reporting(c)) \in Nat /\ Cardinality(Request) \in Nat
      BY <3>1, HandlersCounted
    <3> QED BY <3>1, <3>2 DEF CountInv, NoticesCounted
  <2>3. NoStaleRinging
    BY DEF LifeInv, AllKnow, Knows, NoStaleRinging, At
  <2> QED BY <2>1, <2>2, <2>3 DEF LifeInv, CallRowsWellFormed, NoticesBounded
<1> QED BY <1>1, LifeHolds, CountsHold, PTL

-----------------------------------------------------------------------------
(***************************************************************************)
(* A thread and its pages.                                                  *)
(***************************************************************************)
Seen(u) == browser[u].shown \cup Messages!Underway \cup lost

\* What the handler of a page knows of the browser that asked for it: where the page
\* ends, and that what came after it is seen.
Reads(h) ==
  h.pc = "read" =>
    /\ h.user \in User /\ browser[h.user].open /\ browser[h.user].more
    /\ h.skip = browser[h.user].paged /\ h.message = Null
    /\ h.recent # Null =>
         /\ h.upTo <= sent
         /\ h.recent = {i \in 1 .. h.upTo : h.upTo - h.skip - Take < i /\ i <= h.upTo - h.skip}
         /\ \A i \in 1 .. sent : i > h.upTo - h.skip => i \in Seen(h.user)

\* Messages that the date of the conversation has reached, if only for a while.
Dated == (1 .. touched) \cup passed

\* What the handler of a message has written, or is about to.
Writes(h) ==
  /\ h.pc \in {"idle", "write"} => h.message = Null
  /\ h.pc = "stamp" => h.message \in 1 .. sent
  /\ h.pc = "touch" => h.message \in 1 .. h.stamp /\ h.stamp <= sent
  /\ h.pc = "emit" => h.message \in Dated

\* A browser has seen what is newer than its pages and, when there is no more for it,
\* all but what came between the count and its last page.
Caught(u) ==
  browser[u].open =>
    /\ \A i \in 1 .. sent : i > sent - browser[u].paged => i \in Seen(u)
    /\ ~browser[u].more => \A i \in 1 .. sent : i > browser[u].behind => i \in Seen(u)

Reading(h) == h.pc = "read"
OneReader ==
  \A q, r \in Request :
    /\ Reading(threadReq[q]) /\ Reading(threadReq[r])
    /\ threadReq[q].user = threadReq[r].user
    => q = r
ThreadInv ==
  /\ Messages!TypeOK /\ Messages!TouchedLast /\ OneReader
  /\ \A r \in Request : Reads(threadReq[r]) /\ Writes(threadReq[r])
  /\ \A u \in User : Caught(u)

LEMMA ThreadStart == Messages!Init => ThreadInv
<1> SUFFICES ASSUME Messages!Init PROVE ThreadInv
  OBVIOUS
<1>1. /\ Messages!Resting \in Messages!Handler /\ Messages!Resting.pc = "idle"
      /\ Messages!Resting.message = Null
  BY DEF Messages!Resting, Messages!Handler
<1>2. Messages!Closed \in Messages!Browser /\ Messages!Closed.open = FALSE
  BY DEF Messages!Closed, Messages!Browser
<1>3. /\ sent = 0 /\ touched = 0 /\ passed = {} /\ lost = {}
      /\ \A r \in Request : threadReq[r] = Messages!Resting
      /\ \A u \in User : browser[u] = Messages!Closed
  BY DEF Messages!Init
<1>4. Messages!TypeOK
  BY <1>1, <1>2, ThreadAssumption DEF Messages!Init, Messages!TypeOK
<1>5. Messages!TouchedLast
  BY <1>3 DEF Messages!TouchedLast
<1> QED BY <1>1, <1>2, <1>3, <1>4, <1>5 DEF ThreadInv, OneReader, Reads, Writes, Caught, Reading

\* What a step of one handler leaves on its way.
LEMMA SlotMoves ==
  ASSUME Messages!TypeOK, NEW r \in Request, NEW h \in Messages!Handler,
         threadReq' = [threadReq EXCEPT ![r] = h]
  PROVE  /\ threadReq' \in [Request -> Messages!Handler] /\ threadReq'[r] = h
         /\ \A q \in Request \ {r} : threadReq'[q] = threadReq[q]
         /\ h.message \in Messages!Underway'
         /\ \A m \in Messages!Underway : m # threadReq[r].message => m \in Messages!Underway'
<1>1. threadReq \in [Request -> Messages!Handler]
  BY DEF Messages!TypeOK
<1>2. /\ threadReq' \in [Request -> Messages!Handler] /\ threadReq'[r] = h
      /\ \A q \in Request \ {r} : threadReq'[q] = threadReq[q]
  BY <1>1
<1> QED BY <1>1, <1>2 DEF Messages!Underway

\* A step that turns no page: browsers stay as they are but for what they show, nothing seen
\* or dated is forgotten, and a new message is on its way.
Steady ==
  /\ sent' = sent \/ (sent' = sent + 1 /\ sent + 1 \in Messages!Underway')
  /\ Dated \subseteq Dated'
  /\ \A u \in User :
       /\ browser'[u].open = browser[u].open /\ browser'[u].paged = browser[u].paged
       /\ browser'[u].more = browser[u].more /\ browser'[u].behind = browser[u].behind
       /\ browser[u].open => \A m \in 1 .. sent : m \in Seen(u) => m \in Seen(u)'

LEMMA SteadyKeeps ==
  ASSUME ThreadInv, Steady
  PROVE  /\ \A u \in User : Caught(u)'
         /\ \A h \in Messages!Handler : Reads(h) /\ Writes(h) => Reads(h)' /\ Writes(h)'
<1>1. /\ sent \in Nat /\ sent' \in Nat /\ sent <= sent'
      /\ \A u \in User : browser[u].paged \in Nat /\ browser[u].behind \in Nat
  BY ThreadAssumption DEF ThreadInv, Steady, Messages!TypeOK, Messages!Browser
<1>2. ASSUME NEW u \in User, browser[u].open, NEW i \in 1 .. sent',
             i \in 1 .. sent => i \in Seen(u)
      PROVE  i \in Seen(u)'
  BY <1>1, <1>2 DEF Steady, Seen
<1>3. ASSUME NEW u \in User PROVE Caught(u)'
  <2> SUFFICES ASSUME browser'[u].open PROVE Caught(u)'
    BY DEF Caught
  <2>1. Caught(u) /\ browser[u].open /\ browser'[u].paged = browser[u].paged
        /\ browser'[u].more = browser[u].more /\ browser'[u].behind = browser[u].behind
    BY DEF ThreadInv, Steady
  <2>2. ASSUME NEW i \in 1 .. sent', i > sent' - browser[u].paged PROVE i \in Seen(u)'
    <3>1. i \in 1 .. sent => i \in Seen(u)
      BY <1>1, <2>1, <2>2 DEF Caught
    <3> QED BY <1>2, <2>1, <3>1
  <2>3. ASSUME ~browser[u].more, NEW i \in 1 .. sent', i > browser[u].behind
        PROVE  i \in Seen(u)'
    <3>1. i \in 1 .. sent => i \in Seen(u)
      BY <1>1, <2>1, <2>3 DEF Caught
    <3> QED BY <1>2, <2>1, <3>1
  <2> QED BY <2>1, <2>2, <2>3 DEF Caught
<1>4. ASSUME NEW h \in Messages!Handler, Reads(h), Writes(h) PROVE Reads(h)' /\ Writes(h)'
  <2>0. h.stamp \in Nat
    BY DEF Messages!Handler
  <2>1. Writes(h)'
    BY <1>1, <1>4, <2>0 DEF Writes, Steady
  <2>2. ASSUME h.pc = "read" PROVE Reads(h)'
    <3>1. /\ h.user \in User /\ browser[h.user].open /\ browser'[h.user].open
          /\ browser'[h.user].more /\ h.skip = browser'[h.user].paged /\ h.message = Null
      BY <1>4, <2>2 DEF Reads, Steady
    <3>2. ASSUME h.recent # Null, NEW i \in 1 .. sent', i > h.upTo - h.skip
          PROVE  i \in Seen(h.user)'
      <4>1. i \in 1 .. sent => i \in Seen(h.user)
        BY <1>4, <2>2, <3>2 DEF Reads
      <4> QED BY <1>2, <3>1, <4>1
    <3>3. h.upTo \in Nat
      BY DEF Messages!Handler
    <3> QED BY <1>1, <1>4, <2>2, <3>1, <3>2, <3>3 DEF Reads
  <2>3. h.pc # "read" => Reads(h)'
    BY DEF Reads
  <2> QED BY <2>1, <2>2, <2>3
<1> QED BY <1>3, <1>4

\* So one handler that moves without turning a page has only itself to account for.
LEMMA SlotKeeps ==
  ASSUME ThreadInv, Steady, NEW r \in Request, NEW h \in Messages!Handler,
         threadReq' = [threadReq EXCEPT ![r] = h],
         sent' \in 0 .. LastMessage, touched' \in 0 .. sent', lost' \subseteq Messages!Message,
         passed' \subseteq Messages!Message,
         browser' \in [User -> Messages!Browser],
         Reads(h)', Writes(h)', Messages!TouchedLast',
         h.pc = "read" => \A q \in Request \ {r} :
                            ~(Reading(threadReq[q]) /\ threadReq[q].user = h.user)
  PROVE  ThreadInv'
<1>1. Messages!TypeOK
  BY DEF ThreadInv
<1>2. /\ threadReq' \in [Request -> Messages!Handler] /\ threadReq'[r] = h
      /\ \A q \in Request \ {r} : threadReq'[q] = threadReq[q]
  BY <1>1, SlotMoves
<1>3. Messages!TypeOK'
  BY <1>2 DEF Messages!TypeOK
<1>4. ASSUME NEW q \in Request PROVE Reads(threadReq[q])' /\ Writes(threadReq[q])'
  <2>1. PICK g : g = threadReq'[q]
    OBVIOUS
  <2>2. CASE q = r
    BY <1>2, <2>1, <2>2
  <2>3. CASE q # r
    <3>1. g = threadReq[q] /\ g \in Messages!Handler
      BY <1>2, <2>1, <2>3
    <3>2. Reads(g) /\ Writes(g)
      BY <3>1 DEF ThreadInv
    <3> QED BY <2>1, <3>1, <3>2, SteadyKeeps
  <2> QED BY <2>2, <2>3
<1>5. OneReader'
  BY <1>2 DEF ThreadInv, OneReader, Reading
<1> QED BY <1>3, <1>4, <1>5, SteadyKeeps DEF ThreadInv

\* A handler that keeps its message moves, and nobody's browser does.
LEMMA QuietMove ==
  ASSUME ThreadInv, NEW r \in Request, NEW h \in Messages!Handler,
         threadReq' = [threadReq EXCEPT ![r] = h], h.message = threadReq[r].message,
         UNCHANGED <<sent, browser, lost>>, Dated \subseteq Dated'
  PROVE  /\ Steady /\ \A m \in Messages!Underway \cup lost : m \in Messages!Underway' \cup lost'
         /\ \A u \in User : \A m \in Seen(u) : m \in Seen(u)'
<1>1. \A m \in Messages!Underway : m \in Messages!Underway'
  <2>1. Messages!TypeOK
    BY DEF ThreadInv
  <2>2. /\ h.message \in Messages!Underway'
        /\ \A m \in Messages!Underway : m # threadReq[r].message => m \in Messages!Underway'
    BY <2>1, SlotMoves
  <2> QED BY <2>2, Zenon
<1>2. \A u \in User : \A m \in Seen(u) : m \in Seen(u)'
  BY <1>1 DEF Seen
<1>3. Steady
  <2>1. ASSUME NEW u \in User, NEW m \in 1 .. sent, m \in Seen(u) PROVE m \in Seen(u)'
    BY <1>2, <2>1
  <2>2. \A u \in User : /\ browser'[u] = browser[u]
                       /\ \A m \in 1 .. sent : m \in Seen(u) => m \in Seen(u)'
    BY <2>1
  <2>3. sent' = sent
    OBVIOUS
  <2>4. \A u \in User :
          /\ browser'[u].open = browser[u].open /\ browser'[u].paged = browser[u].paged
          /\ browser'[u].more = browser[u].more /\ browser'[u].behind = browser[u].behind
          /\ browser[u].open => \A m \in 1 .. sent : m \in Seen(u) => m \in Seen(u)'
    BY <2>2, Zenon
  <2> QED BY <2>3, <2>4, Zenon DEF Steady
<1> QED BY <1>1, <1>2, <1>3, Zenon

LEMMA Idle ==
  /\ Messages!Resting \in Messages!Handler /\ Messages!Resting.pc = "idle"
  /\ Messages!Resting.message = Null
BY DEF Messages!Resting, Messages!Handler

LEMMA BeginSendStep ==
  ASSUME ThreadInv, NEW r \in Request, Messages!BeginSendMessage(r) PROVE ThreadInv'
<1>1. PICK u \in User : Messages!Accept(r, [Messages!Resting EXCEPT !.pc = "write", !.user = u])
  BY DEF Messages!BeginSendMessage
<1>2. PICK h : h = [Messages!Resting EXCEPT !.pc = "write", !.user = u]
  OBVIOUS
<1>3. threadReq[r] = Messages!Resting /\ threadReq' = [threadReq EXCEPT ![r] = h]
  BY <1>1, <1>2, Zenon DEF Messages!Accept
<1>4. h \in Messages!Handler /\ h.pc = "write" /\ h.message = Null
  BY <1>2 DEF Messages!Resting, Messages!Handler
<1>5. UNCHANGED <<sent, touched, passed, browser, lost>>
  BY DEF Messages!BeginSendMessage
<1>6. Messages!TypeOK /\ touched \in Nat
  BY ThreadAssumption DEF ThreadInv, Messages!TypeOK
<1>7. /\ Steady
      /\ \A m \in Messages!Underway \cup lost : m \in Messages!Underway' \cup lost'
  <2>1. threadReq[r].message = Null /\ Dated \subseteq Dated'
    BY <1>3, <1>5, Idle DEF Dated
  <2> QED BY <1>3, <1>4, <1>5, <2>1, QuietMove
<1>8. Messages!TouchedLast'
  BY <1>5, <1>7 DEF Messages!TouchedLast, ThreadInv
<1>9. Reads(h)' /\ Writes(h)'
  BY <1>4 DEF Reads, Writes
<1> QED BY <1>3, <1>4, <1>5, <1>6, <1>7, <1>8, <1>9, SlotKeeps DEF Messages!TypeOK

LEMMA CreateMessageStep ==
  ASSUME ThreadInv, NEW r \in Request, Messages!CreateMessage(r) PROVE ThreadInv'
<1>1. PICK new : new = sent + 1
  OBVIOUS
<1>2. PICK h : h = [threadReq[r] EXCEPT !.pc = "stamp", !.message = new]
  OBVIOUS
<1>3. /\ threadReq[r].pc = "write" /\ sent < LastMessage /\ sent' = new
      /\ UNCHANGED <<touched, passed, browser, lost>>
  BY <1>1, Zenon DEF Messages!CreateMessage, Messages!At
<1>4. threadReq' = [threadReq EXCEPT ![r] = h]
  BY <1>1, <1>2 DEF Messages!CreateMessage
<1>5. /\ Messages!TypeOK /\ sent \in Nat /\ new \in Messages!Message /\ touched \in 0 .. sent
      /\ threadReq[r] \in Messages!Handler /\ threadReq[r].message = Null
  BY <1>1, <1>3, ThreadAssumption DEF ThreadInv, Messages!TypeOK, Writes, Messages!Message
<1>6. h \in Messages!Handler /\ h.pc = "stamp" /\ h.message = new
  BY <1>2, <1>5 DEF Messages!Handler
<1>7. /\ new \in Messages!Underway'
      /\ \A m \in Messages!Underway : m # Null => m \in Messages!Underway'
  BY <1>4, <1>5, <1>6, SlotMoves
<1>8. Null \notin Messages!Message /\ \A m \in 1 .. sent : m # Null
  BY <1>5, NullAssumption, ThreadAssumption DEF Messages!Message
<1>9. Steady
  <2>1. ASSUME NEW u \in User, NEW m \in 1 .. sent, m \in Seen(u) PROVE m \in Seen(u)'
    BY <1>3, <1>7, <1>8, <2>1 DEF Seen
  <2>2. Dated \subseteq Dated'
    BY <1>3 DEF Dated
  <2> QED BY <1>1, <1>3, <1>5, <1>7, <2>1, <2>2 DEF Steady
<1>10. Messages!TouchedLast'
  <2>1. ASSUME NEW m \in 1 .. sent', m > touched'
        PROVE  m \in Messages!Underway' \cup lost' \cup passed'
    <3>1. CASE m = new
      BY <1>7, <3>1
    <3>2. CASE m # new
      <4>1. m \in 1 .. sent /\ m > touched
        BY <1>1, <1>3, <1>5, <2>1, <3>2
      <4>2. m \in Messages!Underway \cup lost \cup passed
        BY <4>1 DEF ThreadInv, Messages!TouchedLast
      <4> QED BY <1>3, <1>7, <1>8, <4>1, <4>2
    <3> QED BY <3>1, <3>2
  <2> QED BY <2>1 DEF Messages!TouchedLast
<1>11. Reads(h)' /\ Writes(h)'
  BY <1>1, <1>3, <1>5, <1>6 DEF Reads, Writes
<1>12. /\ sent' \in 0 .. LastMessage /\ touched' \in 0 .. sent' /\ lost' \subseteq Messages!Message
       /\ passed' \subseteq Messages!Message /\ browser' \in [User -> Messages!Browser]
  BY <1>1, <1>3, <1>5, ThreadAssumption DEF Messages!TypeOK
<1> QED BY <1>4, <1>6, <1>9, <1>10, <1>11, <1>12, SlotKeeps

LEMMA ClockStep ==
  ASSUME ThreadInv, NEW r \in Request, Messages!ReadClock(r) PROVE ThreadInv'
<1>1. PICK h : h = [threadReq[r] EXCEPT !.pc = "touch", !.stamp = sent]
  OBVIOUS
<1>2. /\ threadReq[r].pc = "stamp" /\ UNCHANGED <<sent, touched, passed, browser, lost>>
  BY DEF Messages!ReadClock, Messages!At
<1>3. threadReq' = [threadReq EXCEPT ![r] = h]
  BY <1>1 DEF Messages!ReadClock
<1>4. /\ Messages!TypeOK /\ sent \in Nat
      /\ threadReq[r] \in Messages!Handler /\ threadReq[r].message \in 1 .. sent
  BY <1>2, ThreadAssumption DEF ThreadInv, Messages!TypeOK, Writes
<1>5. /\ h \in Messages!Handler /\ h.pc = "touch" /\ h.message = threadReq[r].message
      /\ h.stamp = sent
  BY <1>1, <1>4 DEF Messages!Handler
<1>6. /\ Steady
      /\ \A m \in Messages!Underway \cup lost : m \in Messages!Underway' \cup lost'
  <2>1. Dated \subseteq Dated'
    BY <1>2 DEF Dated
  <2> QED BY <1>2, <1>3, <1>5, <2>1, QuietMove
<1>7. Messages!TouchedLast'
  BY <1>2, <1>6 DEF Messages!TouchedLast, ThreadInv
<1>8. Reads(h)' /\ Writes(h)'
  BY <1>2, <1>4, <1>5 DEF Reads, Writes
<1> QED BY <1>2, <1>3, <1>4, <1>5, <1>6, <1>7, <1>8, SlotKeeps DEF Messages!TypeOK

\* The date may go back: what it had reached is remembered.
LEMMA TouchStep ==
  ASSUME ThreadInv, NEW r \in Request, Messages!TouchConversation(r) PROVE ThreadInv'
<1>1. PICK h : h = [threadReq[r] EXCEPT !.pc = "emit"]
  OBVIOUS
<1>2. /\ threadReq[r].pc = "touch" /\ touched' = threadReq[r].stamp
      /\ passed' = passed \cup (touched' + 1) .. touched /\ UNCHANGED <<sent, browser, lost>>
  BY DEF Messages!TouchConversation, Messages!At
<1>3. threadReq' = [threadReq EXCEPT ![r] = h]
  BY <1>1 DEF Messages!TouchConversation
<1>4. /\ Messages!TypeOK /\ sent \in Nat /\ sent <= LastMessage /\ touched \in 0 .. sent
      /\ threadReq[r] \in Messages!Handler /\ threadReq[r].message \in 1 .. touched'
      /\ touched' \in 0 .. sent /\ passed \subseteq Messages!Message
  BY <1>2, ThreadAssumption DEF ThreadInv, Messages!TypeOK, Writes, Messages!Handler
<1>5. h \in Messages!Handler /\ h.pc = "emit" /\ h.message = threadReq[r].message
  BY <1>1, <1>4 DEF Messages!Handler
<1>6. Dated \subseteq Dated'
  BY <1>2, <1>4 DEF Dated
<1>7. /\ Steady
      /\ \A m \in Messages!Underway \cup lost : m \in Messages!Underway' \cup lost'
  BY <1>2, <1>3, <1>5, <1>6, QuietMove
<1>8. Messages!TouchedLast'
  BY <1>2, <1>4, <1>6, <1>7 DEF Messages!TouchedLast, ThreadInv, Dated
<1>9. Reads(h)' /\ Writes(h)'
  BY <1>4, <1>5 DEF Reads, Writes, Dated
<1>10. /\ sent' \in 0 .. LastMessage /\ touched' \in 0 .. sent' /\ lost' \subseteq Messages!Message
       /\ passed' \subseteq Messages!Message /\ browser' \in [User -> Messages!Browser]
  <2>1. (touched' + 1) .. touched \subseteq Messages!Message
    <3>1. PICK low \in Nat : low = touched'
      BY <1>4
    <3>2. touched \in Nat /\ touched <= LastMessage /\ LastMessage \in Nat
      BY <1>4, ThreadAssumption
    <3>3. (low + 1) .. touched \subseteq 1 .. LastMessage
      BY <3>2
    <3> QED BY <3>1, <3>3 DEF Messages!Message
  <2>2. browser \in [User -> Messages!Browser] /\ lost \subseteq Messages!Message
        /\ sent \in 0 .. LastMessage
    BY <1>4 DEF Messages!TypeOK
  <2> QED BY <1>2, <1>4, <2>1, <2>2, Zenon
<1> QED BY <1>3, <1>5, <1>7, <1>8, <1>9, <1>10, SlotKeeps

LEMMA EmitStep ==
  ASSUME ThreadInv, NEW r \in Request, Messages!EmitMessage(r) PROVE ThreadInv'
<1>1. PICK h : h = Messages!Resting
  OBVIOUS
<1>2. PICK new : new = threadReq[r].message
  OBVIOUS
<1>3. /\ threadReq[r].pc = "emit" /\ threadReq' = [threadReq EXCEPT ![r] = h]
      /\ UNCHANGED <<sent, touched, passed, lost>>
  BY <1>1, Zenon DEF Messages!EmitMessage, Messages!At, Messages!Finish
<1>4. browser' = [u \in User |->
         IF u \in User /\ browser[u].open
         THEN [browser[u] EXCEPT !.shown = @ \cup {new}] ELSE browser[u]]
  BY <1>2, Zenon DEF Messages!EmitMessage, Messages!Recipients
<1>5. /\ Messages!TypeOK /\ sent \in Nat /\ touched \in 0 .. sent /\ new \in Dated
      /\ new \in Messages!Message /\ browser \in [User -> Messages!Browser]
  <2>1. /\ Messages!TypeOK /\ sent \in Nat /\ touched \in 0 .. sent /\ sent <= LastMessage
        /\ passed \subseteq Messages!Message /\ browser \in [User -> Messages!Browser]
    BY ThreadAssumption DEF ThreadInv, Messages!TypeOK
  <2>2. new \in Dated
    BY <1>2, <1>3 DEF ThreadInv, Writes
  <2> QED BY <2>1, <2>2, ThreadAssumption DEF Dated, Messages!Message
<1>6. h \in Messages!Handler /\ h.pc = "idle" /\ h.message = Null
  BY <1>1, Idle
<1>7. ASSUME NEW u \in User
      PROVE  /\ browser'[u] \in Messages!Browser
             /\ browser'[u].open = browser[u].open /\ browser'[u].paged = browser[u].paged
             /\ browser'[u].more = browser[u].more /\ browser'[u].behind = browser[u].behind
             /\ browser[u].shown \subseteq browser'[u].shown
             /\ browser[u].open => new \in browser'[u].shown
  <2>1. browser[u] \in Messages!Browser
    BY <1>5
  <2>2. CASE browser[u].open
    <3>1. browser'[u] = [browser[u] EXCEPT !.shown = @ \cup {new}]
      BY <1>4, <2>2, Zenon
    <3>2. PICK b : b = browser'[u]
      OBVIOUS
    <3>3. /\ b \in Messages!Browser /\ b.open = browser[u].open /\ b.paged = browser[u].paged
          /\ b.more = browser[u].more /\ b.behind = browser[u].behind
          /\ b.shown = browser[u].shown \cup {new}
      BY <1>5, <2>1, <3>1, <3>2 DEF Messages!Browser
    <3> QED BY <3>2, <3>3
  <2>3. CASE ~browser[u].open
    <3>1. browser'[u] = browser[u]
      BY <1>4, <2>3, Zenon
    <3> QED BY <2>1, <2>3, <3>1
  <2> QED BY <2>2, <2>3
<1>8. \A m \in Messages!Underway : m # new => m \in Messages!Underway'
  BY <1>2, <1>3, <1>5, <1>6, SlotMoves
<1>9. Steady
  <2>1. ASSUME NEW u \in User, browser[u].open, NEW m \in 1 .. sent, m \in Seen(u)
        PROVE  m \in Seen(u)'
    BY <1>3, <1>7, <1>8, <2>1 DEF Seen
  <2>2. \A u \in User :
          browser[u].open => \A m \in 1 .. sent : m \in Seen(u) => m \in Seen(u)'
    BY <2>1
  <2>3. sent' = sent /\ Dated \subseteq Dated'
    BY <1>3 DEF Dated
  <2>4. \A u \in User :
          /\ browser'[u].open = browser[u].open /\ browser'[u].paged = browser[u].paged
          /\ browser'[u].more = browser[u].more /\ browser'[u].behind = browser[u].behind
          /\ browser[u].open => \A m \in 1 .. sent : m \in Seen(u) => m \in Seen(u)'
    BY <1>7, <2>2, Zenon
  <2> QED BY <2>3, <2>4, Zenon DEF Steady
<1>10. Messages!TouchedLast'
  BY <1>3, <1>5, <1>8 DEF ThreadInv, Messages!TouchedLast, Dated
<1>11. Reads(h)' /\ Writes(h)'
  BY <1>6 DEF Reads, Writes
<1>12. /\ sent' \in 0 .. LastMessage /\ touched' \in 0 .. sent' /\ lost' \subseteq Messages!Message
       /\ passed' \subseteq Messages!Message /\ browser' \in [User -> Messages!Browser]
  <2>1. browser' = [u \in User |-> browser'[u]]
    BY <1>4, Zenon
  <2> QED BY <1>3, <1>5, <1>7, <2>1 DEF Messages!TypeOK
<1> QED BY <1>3, <1>6, <1>9, <1>10, <1>11, <1>12, SlotKeeps

LEMMA BeginGetStep ==
  ASSUME ThreadInv, NEW r \in Request, Messages!BeginGetMessages(r) PROVE ThreadInv'
<1>1. PICK u \in User :
        /\ browser[u].open /\ browser[u].more
        /\ \A q \in Request : ~(Messages!At(q, "read") /\ threadReq[q].user = u)
        /\ Messages!Accept(r, [Messages!Resting EXCEPT !.pc = "read", !.user = u,
                                                       !.skip = browser[u].paged])
  BY DEF Messages!BeginGetMessages
<1>2. PICK h : h = [Messages!Resting EXCEPT !.pc = "read", !.user = u, !.skip = browser[u].paged]
  OBVIOUS
<1>3. threadReq[r] = Messages!Resting /\ threadReq' = [threadReq EXCEPT ![r] = h]
  BY <1>1, <1>2, Zenon DEF Messages!Accept
<1>4. UNCHANGED <<sent, touched, passed, browser, lost>>
  BY DEF Messages!BeginGetMessages
<1>5. Messages!TypeOK /\ touched \in Nat /\ browser[u].paged \in Nat
  BY ThreadAssumption DEF ThreadInv, Messages!TypeOK, Messages!Browser
<1>6. /\ h \in Messages!Handler /\ h.pc = "read" /\ h.message = Null /\ h.user = u
      /\ h.skip = browser[u].paged /\ h.recent = Null
  BY <1>2, <1>5 DEF Messages!Resting, Messages!Handler
<1>7. /\ Steady
      /\ \A m \in Messages!Underway \cup lost : m \in Messages!Underway' \cup lost'
  <2>1. threadReq[r].message = Null /\ Dated \subseteq Dated'
    BY <1>3, <1>4, Idle DEF Dated
  <2> QED BY <1>3, <1>4, <1>6, <2>1, QuietMove
<1>8. Messages!TouchedLast'
  BY <1>4, <1>7 DEF Messages!TouchedLast, ThreadInv
<1>9. Reads(h)' /\ Writes(h)'
  BY <1>1, <1>4, <1>6 DEF Reads, Writes
<1>10. \A q \in Request \ {r} : ~(Reading(threadReq[q]) /\ threadReq[q].user = h.user)
  BY <1>1, <1>6 DEF Reading, Messages!At
<1> QED BY <1>3, <1>4, <1>5, <1>6, <1>7, <1>8, <1>9, <1>10, SlotKeeps DEF Messages!TypeOK

\* The two queries of a page.
LEMMA QueryStep ==
  ASSUME ThreadInv, NEW r \in Request, NEW h \in Messages!Handler,
         Reading(threadReq[r]), threadReq' = [threadReq EXCEPT ![r] = h],
         UNCHANGED <<sent, touched, passed, browser, lost>>,
         h.pc = "read", h.user = threadReq[r].user, h.skip = threadReq[r].skip,
         h.message = threadReq[r].message,
         \/ h.recent = threadReq[r].recent /\ h.upTo = threadReq[r].upTo
         \/ h.recent = Messages!Page(h.skip) /\ h.upTo = sent
  PROVE  ThreadInv'
<1>1. Messages!TypeOK /\ touched \in Nat /\ sent \in Nat
  BY ThreadAssumption DEF ThreadInv, Messages!TypeOK
<1>2. Reads(threadReq[r])
  BY DEF ThreadInv
<1>3. Reads(h)
  <2>1. CASE h.recent = threadReq[r].recent /\ h.upTo = threadReq[r].upTo
    BY <1>2, <2>1 DEF Reads, Reading
  <2>2. CASE h.recent = Messages!Page(h.skip) /\ h.upTo = sent
    <3>1. /\ h.user \in User /\ browser[h.user].open /\ browser[h.user].more
          /\ h.skip = browser[h.user].paged /\ h.message = Null
      BY <1>2 DEF Reads, Reading
    <3>2. \A i \in 1 .. sent : i > h.upTo - h.skip => i \in Seen(h.user)
      BY <2>2, <3>1 DEF ThreadInv, Caught
    <3>3. h.recent =
            {i \in 1 .. h.upTo : h.upTo - h.skip - Take < i /\ i <= h.upTo - h.skip}
      BY <2>2 DEF Messages!Page
    <3> QED BY <1>1, <2>2, <3>1, <3>2, <3>3 DEF Reads
  <2> QED BY <2>1, <2>2
<1>4. /\ Steady
      /\ \A m \in Messages!Underway \cup lost : m \in Messages!Underway' \cup lost'
  <2>1. Dated \subseteq Dated'
    BY DEF Dated
  <2> QED BY <2>1, QuietMove
<1>5. Messages!TouchedLast'
  BY <1>4 DEF Messages!TouchedLast, ThreadInv
<1>6. Writes(h)
  BY DEF Writes
<1>7. Reads(h)' /\ Writes(h)'
  BY <1>3, <1>4, <1>6, SteadyKeeps
<1>8. \A q \in Request \ {r} : ~(Reading(threadReq[q]) /\ threadReq[q].user = h.user)
  BY DEF ThreadInv, OneReader
<1> QED BY <1>1, <1>4, <1>5, <1>7, <1>8, SlotKeeps DEF Messages!TypeOK

LEMMA ReadPageStep ==
  ASSUME ThreadInv, NEW r \in Request, Messages!ReadPage(r) PROVE ThreadInv'
<1>1. PICK page : page = Messages!Page(threadReq[r].skip)
  OBVIOUS
<1>2. PICK h : h = [threadReq[r] EXCEPT !.recent = page, !.upTo = sent]
  OBVIOUS
<1>3. threadReq' = [threadReq EXCEPT ![r] = h]
  BY <1>1, <1>2 DEF Messages!ReadPage
<1>4. /\ Reading(threadReq[r]) /\ UNCHANGED <<sent, touched, passed, browser, lost>>
  BY DEF Messages!ReadPage, Messages!At, Reading
<1>5. threadReq[r] \in Messages!Handler /\ sent \in Nat /\ sent <= LastMessage
  BY ThreadAssumption DEF ThreadInv, Messages!TypeOK
<1>6. page \in SUBSET Messages!Message
  BY <1>1, <1>5, ThreadAssumption DEF Messages!Page, Messages!Message
<1>7. /\ h \in Messages!Handler /\ h.pc = threadReq[r].pc /\ h.user = threadReq[r].user
      /\ h.skip = threadReq[r].skip /\ h.message = threadReq[r].message
      /\ h.recent = page /\ h.upTo = sent
  BY <1>2, <1>5, <1>6 DEF Messages!Handler
<1> QED BY <1>1, <1>3, <1>4, <1>7, QueryStep DEF Reading

LEMMA CountStep ==
  ASSUME ThreadInv, NEW r \in Request, Messages!CountMessages(r) PROVE ThreadInv'
<1>1. PICK h : h = [threadReq[r] EXCEPT !.total = sent]
  OBVIOUS
<1>2. threadReq' = [threadReq EXCEPT ![r] = h]
  BY <1>1 DEF Messages!CountMessages
<1>3. /\ Reading(threadReq[r]) /\ UNCHANGED <<sent, touched, passed, browser, lost>>
  BY DEF Messages!CountMessages, Messages!At, Reading
<1>4. threadReq[r] \in Messages!Handler /\ sent \in Nat
  BY ThreadAssumption DEF ThreadInv, Messages!TypeOK
<1>5. /\ h \in Messages!Handler /\ h.pc = threadReq[r].pc /\ h.user = threadReq[r].user
      /\ h.skip = threadReq[r].skip /\ h.message = threadReq[r].message
      /\ h.recent = threadReq[r].recent /\ h.upTo = threadReq[r].upTo
  BY <1>1, <1>4 DEF Messages!Handler
<1> QED BY <1>2, <1>3, <1>5, QueryStep DEF Reading

LEMMA AbortThread ==
  ASSUME ThreadInv, NEW r \in Request, Messages!Abort(r) PROVE ThreadInv'
<1>1. PICK h : h = Messages!Resting
  OBVIOUS
<1>2. PICK old : old = threadReq[r].message
  OBVIOUS
<1>3. /\ threadReq' = [threadReq EXCEPT ![r] = h] /\ UNCHANGED <<sent, touched, passed, browser>>
      /\ lost' = lost \cup ({old} \ {Null})
  BY <1>1, <1>2 DEF Messages!Abort, Messages!Finish
<1>4. /\ Messages!TypeOK /\ sent \in Nat /\ touched \in 0 .. sent
      /\ old \in Messages!Message \cup {Null}
  BY <1>2, ThreadAssumption DEF ThreadInv, Messages!TypeOK, Messages!Handler
<1>5. h \in Messages!Handler /\ h.pc = "idle" /\ h.message = Null
  BY <1>1, Idle
<1>6. /\ Null \in Messages!Underway'
      /\ \A m \in Messages!Underway : m # old => m \in Messages!Underway'
  <2>1. /\ h.message \in Messages!Underway'
        /\ \A m \in Messages!Underway : m # threadReq[r].message => m \in Messages!Underway'
    BY <1>3, <1>4, <1>5, SlotMoves
  <2> QED BY <1>2, <1>5, <2>1, Zenon
<1>7. \A m \in Messages!Underway \cup lost : m \in Messages!Underway' \cup lost'
  BY <1>3, <1>6
<1>8. Steady
  <2>1. \A u \in User : \A m \in 1 .. sent : m \in Seen(u) => m \in Seen(u)'
    BY <1>3, <1>7 DEF Seen
  <2>2. Dated \subseteq Dated'
    BY <1>3 DEF Dated
  <2> QED BY <1>3, <1>4, <2>1, <2>2 DEF Steady
<1>9. Messages!TouchedLast'
  BY <1>3, <1>7 DEF Messages!TouchedLast, ThreadInv
<1>10. Reads(h)' /\ Writes(h)'
  BY <1>5 DEF Reads, Writes
<1>11. /\ sent' \in 0 .. LastMessage /\ touched' \in 0 .. sent' /\ lost' \subseteq Messages!Message
       /\ passed' \subseteq Messages!Message /\ browser' \in [User -> Messages!Browser]
  BY <1>3, <1>4 DEF Messages!TypeOK
<1> QED BY <1>3, <1>5, <1>8, <1>9, <1>10, <1>11, SlotKeeps

\* The browser of one user changes; nobody reads for it any more.
LEMMA OneBrowser ==
  ASSUME ThreadInv, NEW u \in User, NEW b \in Messages!Browser,
         browser' = [browser EXCEPT ![u] = b], UNCHANGED <<sent, touched, passed, lost>>,
         threadReq' \in [Request -> Messages!Handler],
         \A q \in Request : \/ threadReq'[q] = Messages!Resting /\ threadReq[q].message = Null
                            \/ /\ threadReq'[q] = threadReq[q]
                               /\ ~(Reading(threadReq[q]) /\ threadReq[q].user = u),
         Caught(u)'
  PROVE  ThreadInv'
<1>1. /\ browser' \in [User -> Messages!Browser]
      /\ \A v \in User \ {u} : browser'[v] = browser[v]
  BY DEF ThreadInv, Messages!TypeOK
<1>2. \A m \in Messages!Underway : m \in Messages!Underway'
  <2>1. \A q \in Request : threadReq'[q].message = threadReq[q].message
    BY Idle
  <2> QED BY <2>1 DEF Messages!Underway
<1>3. Messages!TypeOK' /\ Messages!TouchedLast'
  BY <1>1, <1>2 DEF ThreadInv, Messages!TypeOK, Messages!TouchedLast
<1>4. \A v \in User \ {u} : \A m \in Seen(v) : m \in Seen(v)'
  BY <1>1, <1>2 DEF Seen
<1>5. ASSUME NEW v \in User PROVE Caught(v)'
  <2>1. CASE v = u
    BY <2>1
  <2>2. CASE v # u
    BY <1>1, <1>4, <2>2 DEF ThreadInv, Caught
  <2> QED BY <2>1, <2>2
<1>6. ASSUME NEW q \in Request PROVE Reads(threadReq[q])' /\ Writes(threadReq[q])'
  <2>1. PICK h : h = threadReq'[q]
    OBVIOUS
  <2>2. CASE h = Messages!Resting
    BY <2>1, <2>2, Idle DEF Reads, Writes
  <2>3. CASE h = threadReq[q] /\ ~(Reading(threadReq[q]) /\ threadReq[q].user = u)
    <3>1. Reads(h) /\ Writes(h)
      BY <2>3 DEF ThreadInv
    <3>2. Writes(h)'
      BY <3>1 DEF Writes, Dated
    <3>3. Reads(h)'
      <4> SUFFICES ASSUME h.pc = "read" PROVE Reads(h)'
        BY DEF Reads
      <4>1. h.user \in User \ {u}
        BY <2>3, <3>1 DEF Reads, Reading
      <4> QED BY <1>1, <1>4, <3>1, <4>1 DEF Reads
    <3> QED BY <2>1, <3>2, <3>3
  <2> QED BY <2>1, <2>2, <2>3
<1>7. OneReader'
  BY Idle DEF ThreadInv, OneReader, Reading
<1> QED BY <1>3, <1>5, <1>6, <1>7 DEF ThreadInv

LEMMA OpenStep == ASSUME ThreadInv, Messages!OpenOrLeave PROVE ThreadInv'
<1>1. PICK u \in User :
        /\ browser' = [browser EXCEPT ![u] = [Messages!Closed EXCEPT !.open = ~browser[u].open]]
        /\ Messages!Drop(u)
  BY DEF Messages!OpenOrLeave
<1>2. PICK b : b = [Messages!Closed EXCEPT !.open = ~browser[u].open]
  OBVIOUS
<1>3. browser' = [browser EXCEPT ![u] = b]
  BY <1>1, <1>2, Zenon
<1>4. /\ b \in Messages!Browser /\ b.paged = 0 /\ b.more = TRUE
  BY <1>2 DEF Messages!Closed, Messages!Browser
<1>5. UNCHANGED <<sent, touched, passed, lost>>
  BY DEF Messages!OpenOrLeave
<1>6. threadReq' = [q \in Request |->
         IF Reading(threadReq[q]) /\ threadReq[q].user = u THEN Messages!Resting
         ELSE threadReq[q]]
  BY <1>1, Zenon DEF Messages!Drop, Messages!At, Reading
<1>7. threadReq \in [Request -> Messages!Handler] /\ browser \in [User -> Messages!Browser]
      /\ sent \in Nat
  BY ThreadAssumption DEF ThreadInv, Messages!TypeOK
<1>8. threadReq' \in [Request -> Messages!Handler]
  BY <1>6, <1>7, Idle
<1>9. ASSUME NEW q \in Request
      PROVE  \/ threadReq'[q] = Messages!Resting /\ threadReq[q].message = Null
             \/ /\ threadReq'[q] = threadReq[q]
                /\ ~(Reading(threadReq[q]) /\ threadReq[q].user = u)
  <2>1. Reading(threadReq[q]) => threadReq[q].message = Null
    BY DEF ThreadInv, Reads, Reading
  <2> QED BY <1>6, <2>1, Zenon
<1>10. Caught(u)'
  <2>1. browser'[u] = b
    BY <1>3, <1>7
  <2> QED BY <1>4, <1>5, <1>7, <2>1 DEF Caught
<1> QED BY <1>3, <1>4, <1>5, <1>8, <1>9, <1>10, OneBrowser

\* The modules count alike.
LEMMA SameCount == ASSUME NEW S PROVE Messages!Cardinality(S) = Cardinality(S)
BY DEF Messages!Cardinality, Cardinality

\* A page of any size, at the end of what is left to show, is as long as it can be.
LEMMA PageReaches ==
  ASSUME NEW n \in Nat, NEW skip \in Nat, NEW P,
         P = {i \in 1 .. n : n - skip - Take < i /\ i <= n - skip}
  PROVE  /\ Cardinality(P) \in Nat
         /\ \A i \in 1 .. n : i > n - skip - Cardinality(P) /\ i <= n - skip => i \in P
<1>1. Take \in Nat
  BY ThreadAssumption
<1>2. CASE n - skip - Take >= 0
  <2>1. P = (n - skip - Take + 1) .. (n - skip)
    BY <1>1, <1>2
  <2>2. Cardinality(P) = Take
    <3>1. PICK a \in Int : a = n - skip - Take + 1
      BY <1>1
    <3>2. PICK b \in Int : b = n - skip
      OBVIOUS
    <3>3. Cardinality(a .. b) = IF a > b THEN 0 ELSE b - a + 1
      BY FS_Interval
    <3>4. P = a .. b
      BY <2>1, <3>1, <3>2, Zenon
    <3>5. Cardinality(P) = IF a > b THEN 0 ELSE b - a + 1
      BY <3>3, <3>4, Zenon
    <3> HIDE <2>1
    <3> QED BY <1>1, <3>1, <3>2, <3>5
  <2> QED BY <1>1, <2>1, <2>2
<1>3. CASE n - skip - Take < 0
  <2>1. PICK b \in Int : b = n - skip
    OBVIOUS
  <2>2. P = 1 .. b
    BY <1>1, <1>3, <2>1
  <2>3. Cardinality(1 .. b) = IF 1 > b THEN 0 ELSE b - 1 + 1
    BY FS_Interval
  <2>4. Cardinality(P) = IF 1 > b THEN 0 ELSE b - 1 + 1
    BY <2>2, <2>3, Zenon
  <2>5. Cardinality(P) \in Nat
    BY <2>1, <2>4
  <2>6. \A i \in 1 .. n : i <= n - skip => i \in P
    BY <2>1, <2>2
  <2> QED BY <2>5, <2>6
<1> QED BY <1>1, <1>2, <1>3

LEMMA AnswerStep ==
  ASSUME ThreadInv, NEW r \in Request, Messages!Answer(r) PROVE ThreadInv'
<1>1. PICK h : h = threadReq[r]
  OBVIOUS
<1>2. PICK u : u = h.user
  OBVIOUS
<1>3. PICK long : long = Cardinality(h.recent) /\ long = Messages!Cardinality(h.recent)
  BY SameCount
<1>4. PICK gap : gap = IF h.upTo > h.total THEN h.upTo - h.total ELSE 0
  OBVIOUS
<1>5. PICK further : further = Messages!HasMore(h)
  OBVIOUS
<1>6. PICK b : b = [browser[u] EXCEPT !.paged = @ + long, !.shown = @ \cup h.recent,
                                      !.more = further, !.behind = gap]
  OBVIOUS
<1>7. /\ h.pc = "read" /\ h.recent # Null /\ h.total # Null
      /\ threadReq' = [threadReq EXCEPT ![r] = Messages!Resting]
      /\ UNCHANGED <<sent, touched, passed, lost>>
  BY <1>1 DEF Messages!Answer, Messages!At, Messages!Finish
<1>8. /\ h \in Messages!Handler /\ u \in User /\ browser[u].open /\ h.skip = browser[u].paged
      /\ h.message = Null /\ h.upTo <= sent
      /\ h.recent = {i \in 1 .. h.upTo : h.upTo - h.skip - Take < i /\ i <= h.upTo - h.skip}
      /\ \A i \in 1 .. sent : i > h.upTo - h.skip => i \in Seen(u)
  BY <1>1, <1>2, <1>7 DEF ThreadInv, Messages!TypeOK, Reads
<1>9. /\ h.upTo \in Nat /\ h.skip \in Nat /\ h.total \in Nat /\ sent \in Nat
      /\ h.recent \subseteq Messages!Message
      /\ threadReq \in [Request -> Messages!Handler] /\ browser \in [User -> Messages!Browser]
  BY <1>7, <1>8, ThreadAssumption DEF ThreadInv, Messages!TypeOK, Messages!Handler
<1>10. /\ long \in Nat
       /\ \A i \in 1 .. h.upTo :
            i > h.upTo - h.skip - long /\ i <= h.upTo - h.skip => i \in h.recent
  BY <1>3, <1>8, <1>9, PageReaches
<1>11. /\ b \in Messages!Browser /\ b.open /\ b.paged = h.skip + long
       /\ b.shown = browser[u].shown \cup h.recent /\ b.more = further /\ b.behind = gap
  <2>1. browser[u] \in Messages!Browser /\ gap \in Nat /\ further \in BOOLEAN
    BY <1>4, <1>5, <1>8, <1>9 DEF Messages!HasMore
  <2>2. /\ browser[u].paged + long \in Nat
        /\ browser[u].shown \cup h.recent \in SUBSET Messages!Message
    BY <1>9, <1>10, <2>1 DEF Messages!Browser
  <2>3. /\ b = [open |-> browser[u].open, paged |-> browser[u].paged + long,
                shown |-> browser[u].shown \cup h.recent, more |-> further, behind |-> gap]
    BY <1>6, <2>1 DEF Messages!Browser
  <2> QED BY <1>8, <2>1, <2>2, <2>3 DEF Messages!Browser
<1>12. browser' = [browser EXCEPT ![u] = b]
  <2>1. browser' = [browser EXCEPT ![u].paged = @ + long, ![u].shown = @ \cup h.recent,
                                   ![u].more = further, ![u].behind = gap]
    BY <1>1, <1>2, <1>3, <1>4, <1>5 DEF Messages!Answer
  <2> QED BY <1>6, <1>8, <1>9, <2>1 DEF Messages!Browser
<1>13. threadReq' \in [Request -> Messages!Handler] /\ threadReq'[r] = Messages!Resting
       /\ \A q \in Request \ {r} : threadReq'[q] = threadReq[q]
  BY <1>7, <1>9, Idle
<1>14. ASSUME NEW q \in Request
       PROVE  \/ threadReq'[q] = Messages!Resting /\ threadReq[q].message = Null
              \/ /\ threadReq'[q] = threadReq[q]
                 /\ ~(Reading(threadReq[q]) /\ threadReq[q].user = u)
  BY <1>1, <1>2, <1>7, <1>8, <1>13 DEF ThreadInv, OneReader, Reading
<1>15. browser'[u] = b
  BY <1>8, <1>9, <1>12
<1>16. \A m \in Seen(u) \cup h.recent : m \in Seen(u)'
  <2>1. \A m \in Messages!Underway : m \in Messages!Underway'
    <3>1. \A q \in Request : threadReq'[q].message = threadReq[q].message
      BY <1>14, Idle
    <3> QED BY <3>1 DEF Messages!Underway
  <2> QED BY <1>7, <1>11, <1>15, <2>1 DEF Seen
<1>17. ASSUME NEW i \in 1 .. sent, i > h.upTo - h.skip - long PROVE i \in Seen(u)'
  <2>1. CASE i > h.upTo - h.skip
    BY <1>8, <1>16, <2>1
  <2>2. CASE i <= h.upTo - h.skip
    BY <1>9, <1>10, <1>16, <1>17, <2>2
  <2> QED BY <1>9, <2>1, <2>2
<1>18. Caught(u)'
  <2>1. \A i \in 1 .. sent : i > sent - (h.skip + long) => i \in Seen(u)'
    BY <1>8, <1>9, <1>10, <1>17
  <2>2. ~further => \A i \in 1 .. sent : i > gap => i \in Seen(u)'
    <3> SUFFICES ASSUME ~further, NEW i \in 1 .. sent, i > gap PROVE i \in Seen(u)'
      OBVIOUS
    <3>0. ~Messages!HasMore(h)
      BY <1>5, Zenon
    <3>1. h.skip + long >= h.total
      BY <1>3, <1>9, <1>10, <3>0 DEF Messages!HasMore
    <3>2. h.upTo - h.total <= gap /\ gap \in Nat
      BY <1>4, <1>9
    <3>3. i > h.upTo - h.skip - long
      BY <1>9, <1>10, <3>1, <3>2
    <3> QED BY <1>17, <3>3
  <2> QED BY <1>7, <1>11, <1>15, <2>1, <2>2 DEF Caught
<1> QED BY <1>7, <1>8, <1>11, <1>12, <1>13, <1>14, <1>18, OneBrowser

LEMMA ThreadNext == ThreadInv /\ [Messages!Next]_(Messages!vars) => ThreadInv'
<1> SUFFICES ASSUME ThreadInv, [Messages!Next]_(Messages!vars) PROVE ThreadInv'
  OBVIOUS
<1>1. CASE UNCHANGED Messages!vars
  BY <1>1 DEF Messages!vars, ThreadInv, Messages!TypeOK, Messages!TouchedLast, OneReader, Reads,
              Writes, Caught, Seen, Messages!Underway, Reading, Dated
<1> QED BY <1>1, BeginSendStep, CreateMessageStep, ClockStep, TouchStep, EmitStep, BeginGetStep,
           ReadPageStep, CountStep, AnswerStep, AbortThread, OpenStep DEF Messages!Next

\* Whatever is sent while pages are read: whoever goes back until there is no more shows
\* all the conversation, or is about to be told it, but for what was lost and for as many
\* messages as came between a count and its page; and the date it is listed by is not before
\* any message, but for those under way or lost, and those an older date was written over.
THEOREM MessagesFound == Messages!Spec => []MessagesAreFound
<1>1. ThreadInv => MessagesAreFound
  <2> SUFFICES ASSUME ThreadInv PROVE Messages!PagesMissNothing
    BY DEF ThreadInv, MessagesAreFound
  <2>1. ASSUME NEW u \in User, browser[u].open, ~browser[u].more
        PROVE  Cardinality((1 .. sent) \ Seen(u)) <= browser[u].behind
    <3>1. browser[u].behind \in Nat /\ sent \in Nat
      BY ThreadAssumption DEF ThreadInv, Messages!TypeOK, Messages!Browser
    <3>2. PICK n \in Nat : n = browser[u].behind
      BY <3>1
    <3>3. PICK S : S = (1 .. sent) \ Seen(u)
      OBVIOUS
    <3>4. S \subseteq 1 .. n
      BY <2>1, <3>1, <3>2, <3>3 DEF ThreadInv, Caught
    <3>5. IsFiniteSet(1 .. n) /\ Cardinality(1 .. n) = IF 1 > n THEN 0 ELSE n - 1 + 1
      BY FS_Interval
    <3>6. Cardinality(S) <= Cardinality(1 .. n)
      BY <3>4, <3>5, FS_Subset
    <3> QED BY <3>2, <3>3, <3>5, <3>6
  <2> QED BY <2>1, SameCount DEF Messages!PagesMissNothing, Seen
<1> QED BY <1>1, ThreadStart, ThreadNext, PTL DEF Messages!Spec

-----------------------------------------------------------------------------
(***************************************************************************)
(* Reports on time.  Totals are sums of the minutes of entries, grouped.     *)
(***************************************************************************)
LEMMA SumsSame == \A f : Workload!SumFunction(f) = SumFunctionOnSet(f, DOMAIN f)
BY DEF Workload!SumFunction, Workload!SumFunctionOnSet, Workload!FoldFunctionOnSet,
       Workload!MapThenFoldSet, SumFunctionOnSet, FoldFunctionOnSet, MapThenFoldSet

LEMMA ReportsFinite ==
  /\ IsFiniteSet(Person) /\ IsFiniteSet(Entry) /\ IsFiniteSet(Ended)
  /\ Duration \subseteq Nat /\ Ended \subseteq Int /\ Ended # {}
  /\ Settings \subseteq Workload!SettingRow /\ FirstSettings \in Workload!SettingRow
  /\ \A S : Workload!Cardinality(S) = Cardinality(S)
BY ReportAssumption DEF Workload!ReportsFit, Workload!IsFiniteSet, IsFiniteSet,
                        Workload!Cardinality, Cardinality

TimeOf == [e \in Workload!Kept |-> entry[e].minutes]

LEMMA KeptRows ==
  ASSUME Workload!TypeOK, NEW e \in Workload!Kept
  PROVE  /\ entry[e] \in Workload!EntryRow
         /\ entry[e].user \in Person /\ entry[e].task \in Work /\ entry[e].day \in Ended
         /\ entry[e].minutes \in Nat /\ TimeOf[e] = entry[e].minutes /\ entry[e].day \in Int
<1>1. entry[e] \in Workload!EntryRow
  BY DEF Workload!TypeOK, Workload!Kept
<1> QED BY <1>1, ReportAssumption DEF Workload!EntryRow, TimeOf, Workload!ReportsFit

LEMMA SpentIs ==
  ASSUME Workload!TypeOK, NEW E \in SUBSET Workload!Kept
  PROVE  /\ Workload!Spent(E) = SumFunctionOnSet(TimeOf, E)
         /\ IsFiniteSet(E) /\ Whole(TimeOf, E) /\ Workload!Spent(E) \in Nat
<1> DEFINE f == [e \in E |-> entry[e].minutes]
<1>1. IsFiniteSet(E)
  <2>1. E \in SUBSET Entry /\ IsFiniteSet(Entry)
    BY ReportsFinite DEF Workload!Kept
  <2> QED BY <2>1, FS_Subset
<1>2. \A e \in E : TimeOf[e] \in Nat /\ f[e] = TimeOf[e]
  BY KeptRows
<1>3. Whole(TimeOf, E) /\ Matching(TimeOf, f, E) /\ DOMAIN f = E
  BY <1>2 DEF Whole, Matching
<1>4. Workload!Spent(E) = Workload!SumFunction(f)
  BY DEF Workload!Spent
<1> HIDE DEF f
<1>5. Workload!Spent(E) = SumFunctionOnSet(f, E)
  BY <1>3, <1>4, SumsSame
<1>6. SumFunctionOnSet(TimeOf, E) = SumFunctionOnSet(f, E)
  BY <1>1, <1>3, SumSame
<1>7. SumFunctionOnSet(TimeOf, E) \in Nat
  BY <1>1, <1>2, SumNatural
<1> QED BY <1>1, <1>3, <1>5, <1>6, <1>7

LEMMA SpentTwice ==
  ASSUME Workload!TypeOK, NEW A \in SUBSET Workload!Kept, NEW B \in SUBSET Workload!Kept,
         A \cap B = {}
  PROVE  Workload!Spent(A \cup B) = Workload!Spent(A) + Workload!Spent(B)
<1>1. A \cup B \in SUBSET Workload!Kept
  OBVIOUS
<1>2. /\ Workload!Spent(A) = SumFunctionOnSet(TimeOf, A)
      /\ Workload!Spent(B) = SumFunctionOnSet(TimeOf, B)
      /\ Workload!Spent(A \cup B) = SumFunctionOnSet(TimeOf, A \cup B)
      /\ IsFiniteSet(A \cup B) /\ Whole(TimeOf, A \cup B)
  BY <1>1, SpentIs
<1>3. SumFunctionOnSet(TimeOf, A \cup B)
        = SumFunctionOnSet(TimeOf, A) + SumFunctionOnSet(TimeOf, B)
  BY <1>2, SumParts
<1> QED BY <1>2, <1>3

\* What is spent is what is spent part by part.
SpentParted(part, g, E, P) ==
  /\ \A e \in E : part[e] \in P
  /\ \A p \in P : g[p] = Workload!Spent({e \in E : part[e] = p})
LEMMA SpentByParts ==
  ASSUME Workload!TypeOK, NEW E, E \subseteq Workload!Kept, NEW P, IsFiniteSet(P),
         NEW part, NEW g, SpentParted(part, g, E, P)
  PROVE  SumFunctionOnSet(g, P) = Workload!Spent(E) /\ Whole(g, P)
<1>1. /\ Workload!Spent(E) = SumFunctionOnSet(TimeOf, E)
      /\ IsFiniteSet(E) /\ Whole(TimeOf, E)
  BY SpentIs
<1>2. ASSUME NEW p \in P PROVE g[p] = SumFunctionOnSet(TimeOf, {e \in E : part[e] = p})
  <2>1. {e \in E : part[e] = p} \in SUBSET Workload!Kept
    OBVIOUS
  <2> QED BY <2>1, SpentIs DEF SpentParted
<1>3. Parted(TimeOf, part, g, E, P)
  BY <1>2 DEF Parted, SpentParted
<1> QED BY <1>1, <1>3, SumByParts

\* A total in tenths, rounded to the nearest; a half may go down.
LEMMA TenthsRound ==
  ASSUME NEW m \in Nat, NEW t, t = Workload!Tenths(m) \/ (m % 6 = 3 /\ t = m \div 6)
  PROVE  /\ t \in Nat /\ 6 * t - m \in -3 .. 3
         /\ \A n \in Nat : /\ t > n => m - 6 * n >= 3
                           /\ m - 6 * n > 3 => t > n
<1> DEFINE q == (m + 3) \div 6
           k == m \div 6
<1>1. q \in Int /\ 6 * q <= m + 3 /\ m + 3 < 6 * q + 6
  OBVIOUS
<1>2. k \in Int /\ m % 6 = m - 6 * k
  OBVIOUS
<1>3. t = q \/ (m % 6 = 3 /\ t = k)
  BY DEF Workload!Tenths
<1> HIDE DEF q, k
<1>4. CASE t = q
  BY <1>1, <1>4
<1>5. CASE m % 6 = 3 /\ t = k
  <2>1. t \in Int /\ m = 6 * t + 3
    BY <1>2, <1>5
  <2> QED BY <2>1
<1> QED BY <1>3, <1>4, <1>5

\* Days together are days of one period.
LEMMA PeriodsAre ==
  ASSUME NEW h, NEW a \in Int, NEW b \in Int
  PROVE  Workload!Together(h, a, b) <=> Workload!PeriodOf(h, a) = Workload!PeriodOf(h, b)
<1>1. \A d \in Int : Workload!WeekStart(d) = 7 * (d \div 7)
  BY DEF Workload!WeekStart, Workload!Weekday
<1> QED BY <1>1 DEF Workload!Together, Workload!PeriodOf

\* What a handler has read when it answers.
Collected(h) ==
  h.pc = "answer" =>
    /\ \A e \in h.read : /\ entry[e] # Null /\ Workload!Within(entry[e].day, h)
                         /\ entry[e].minutes > 0 => entry[e].user \in h.who
    /\ \A u, p : <<u, p>> \in h.down => Workload!Spent(Workload!TimeIn(h, u, p)) % 6 = 3
    /\ \A p \in h.over : Workload!Team(h, p) = Workload!Capacity(h)
Reported == Workload!TypeOK /\ \A r \in Reporter : Collected(reportReq[r])

\* The entries of a report that are of a person, or of a period.
RowOf(h, u) == {e \in h.read : entry[e].user = u}
ColumnOf(h, p) == {e \in h.read : entry[e].user \in h.who /\ Workload!PeriodOf(h, entry[e].day) = p}

LEMMA ReportRead ==
  ASSUME Workload!TypeOK, NEW h \in Workload!Handler, h.pc = "answer", Collected(h)
  PROVE  /\ h.read \in SUBSET Workload!Kept /\ IsFiniteSet(h.read)
         /\ h.who \subseteq Person /\ IsFiniteSet(h.who)
         /\ IsFiniteSet(Workload!Periods(h))
         /\ \A e \in h.read : Workload!PeriodOf(h, entry[e].day) \in Workload!Periods(h)
<1>1. h.read \subseteq Entry /\ h.who \subseteq Person
  BY DEF Workload!Handler
<1>2. h.read \in SUBSET Workload!Kept
  BY <1>1 DEF Collected, Workload!Kept
<1>3. IsFiniteSet(h.read) /\ IsFiniteSet(h.who)
  BY <1>1, ReportsFinite, FS_Subset
<1> DEFINE f == [e \in h.read |-> Workload!PeriodOf(h, entry[e].day)]
<1>4. Workload!Periods(h) = {f[e] : e \in h.read}
  BY DEF Workload!Periods
<1> HIDE DEF f
<1>5. IsFiniteSet({f[e] : e \in h.read})
  BY <1>3, ImageFinite
<1>6. IsFiniteSet(Workload!Periods(h))
  BY <1>4, <1>5
<1>7. \A e \in h.read : Workload!PeriodOf(h, entry[e].day) \in Workload!Periods(h)
  BY DEF Workload!Periods
<1> QED BY <1>1, <1>2, <1>3, <1>6, <1>7

LEMMA LoadIs ==
  ASSUME Workload!TypeOK, NEW h \in Workload!Handler, h.pc = "answer", Collected(h),
         NEW u, NEW p
  PROVE  LET load == Workload!Load(h, u, p)
             spent == Workload!Spent(Workload!TimeIn(h, u, p))
         IN /\ spent \in Nat /\ load \in Nat /\ 6 * load - spent \in -3 .. 3
            /\ \A n \in Nat : /\ load > n => spent - 6 * n >= 3
                              /\ spent - 6 * n > 3 => load > n
<1>1. PICK m : m = Workload!Spent(Workload!TimeIn(h, u, p))
  OBVIOUS
<1>2. PICK t : t = Workload!Load(h, u, p)
  OBVIOUS
<1>3. m \in Nat
  <2>1. Workload!TimeIn(h, u, p) \in SUBSET Workload!Kept
    BY ReportRead DEF Workload!TimeIn
  <2> QED BY <1>1, <2>1, SpentIs
<1>4. <<u, p>> \in h.down => m % 6 = 3
  BY <1>1 DEF Collected
<1>5. t = IF <<u, p>> \in h.down THEN m \div 6 ELSE Workload!Tenths(m)
  BY <1>1, <1>2 DEF Workload!Load
<1>6. t = Workload!Tenths(m) \/ (m % 6 = 3 /\ t = m \div 6)
  BY <1>4, <1>5, Zenon
<1>7. /\ t \in Nat /\ 6 * t - m \in -3 .. 3
      /\ \A n \in Nat : /\ t > n => m - 6 * n >= 3
                        /\ m - 6 * n > 3 => t > n
  BY <1>3, <1>6, TenthsRound
<1> QED BY <1>1, <1>2, <1>3, <1>7

\* The hours of a person are what they spent, up to three minutes a period.
LEMMA HoursNear ==
  ASSUME Workload!TypeOK, NEW h \in Workload!Handler, h.pc = "answer", Collected(h), NEW u
  PROVE  /\ Workload!Hours(h, u) \in Int /\ Workload!Spent(RowOf(h, u)) \in Nat
         /\ LET c == 3 * Cardinality(Workload!Periods(h))
            IN 6 * Workload!Hours(h, u) - Workload!Spent(RowOf(h, u)) \in -c .. c
<1> DEFINE P == Workload!Periods(h)
           E == RowOf(h, u)
           part == [e \in E |-> Workload!PeriodOf(h, entry[e].day)]
           load == [p \in P |-> Workload!Load(h, u, p)]
           spent == [p \in P |-> Workload!Spent(Workload!TimeIn(h, u, p))]
<1>1. /\ h.read \in SUBSET Workload!Kept /\ IsFiniteSet(P)
      /\ \A e \in h.read : Workload!PeriodOf(h, entry[e].day) \in P
  BY ReportRead
<1>2. E \in SUBSET Workload!Kept /\ \A e \in E : part[e] \in P
  BY <1>1 DEF RowOf
<1>3. \A p \in P : spent[p] = Workload!Spent({e \in E : part[e] = p})
  <2> SUFFICES ASSUME NEW p \in P PROVE spent[p] = Workload!Spent({e \in E : part[e] = p})
    OBVIOUS
  <2>1. {e \in E : part[e] = p} = Workload!TimeIn(h, u, p)
    BY DEF RowOf, Workload!TimeIn
  <2> QED BY <2>1
<1>4. /\ \A p \in P : 6 * load[p] - spent[p] \in -3 .. 3
      /\ Whole(load, P) /\ Whole(spent, P)
  BY <1>1, LoadIs DEF Whole
<1>5. Workload!Hours(h, u) = SumFunctionOnSet(load, P)
  BY SumsSame DEF Workload!Hours
<1> HIDE DEF P, E, part, load, spent
<1>6. SumFunctionOnSet(spent, P) = Workload!Spent(E)
  <2>1. SpentParted(part, spent, E, P) /\ E \subseteq Workload!Kept
    BY <1>2, <1>3 DEF SpentParted
  <2> QED BY <1>1, <2>1, SpentByParts, Zenon
<1>7. 6 * SumFunctionOnSet(load, P) - SumFunctionOnSet(spent, P)
        \in -(3 * Cardinality(P)) .. 3 * Cardinality(P)
  BY <1>1, <1>4, SumNear
<1>8. SumFunctionOnSet(load, P) \in Int
  BY <1>1, <1>4, SumWhole
<1>9. Workload!Spent(E) \in Nat
  BY <1>2, SpentIs
<1> QED BY <1>5, <1>6, <1>7, <1>8, <1>9 DEF P, E

\* The time of all in a period, up to three minutes each.
LEMMA TeamNear ==
  ASSUME Workload!TypeOK, NEW h \in Workload!Handler, h.pc = "answer", Collected(h), NEW p
  PROVE  /\ Workload!Team(h, p) \in Int /\ Workload!Spent(ColumnOf(h, p)) \in Nat
         /\ LET c == 3 * Cardinality(h.who)
            IN 6 * Workload!Team(h, p) - Workload!Spent(ColumnOf(h, p)) \in -c .. c
<1> DEFINE P == h.who
           E == ColumnOf(h, p)
           part == [e \in E |-> entry[e].user]
           load == [u \in P |-> Workload!Load(h, u, p)]
           spent == [u \in P |-> Workload!Spent(Workload!TimeIn(h, u, p))]
<1>1. h.read \in SUBSET Workload!Kept /\ IsFiniteSet(P)
  BY ReportRead
<1>2. E \in SUBSET Workload!Kept /\ \A e \in E : part[e] \in P
  BY <1>1 DEF ColumnOf
<1>3. \A u \in P : spent[u] = Workload!Spent({e \in E : part[e] = u})
  <2> SUFFICES ASSUME NEW u \in P PROVE spent[u] = Workload!Spent({e \in E : part[e] = u})
    OBVIOUS
  <2>1. {e \in E : part[e] = u} = Workload!TimeIn(h, u, p)
    BY DEF ColumnOf, Workload!TimeIn
  <2> QED BY <2>1
<1>4. /\ \A u \in P : 6 * load[u] - spent[u] \in -3 .. 3
      /\ Whole(load, P) /\ Whole(spent, P)
  BY <1>1, LoadIs DEF Whole
<1>5. Workload!Team(h, p) = SumFunctionOnSet(load, P)
  BY SumsSame DEF Workload!Team
<1> HIDE DEF P, E, part, load, spent
<1>6. SumFunctionOnSet(spent, P) = Workload!Spent(E)
  <2>1. SpentParted(part, spent, E, P) /\ E \subseteq Workload!Kept
    BY <1>2, <1>3 DEF SpentParted
  <2> QED BY <1>1, <2>1, SpentByParts, Zenon
<1>7. 6 * SumFunctionOnSet(load, P) - SumFunctionOnSet(spent, P)
        \in -(3 * Cardinality(P)) .. 3 * Cardinality(P)
  BY <1>1, <1>4, SumNear
<1>8. SumFunctionOnSet(load, P) \in Int
  BY <1>1, <1>4, SumWhole
<1>9. Workload!Spent(E) \in Nat
  BY <1>2, SpentIs
<1> QED BY <1>5, <1>6, <1>7, <1>8, <1>9 DEF P, E

LEMMA SpentNone ==
  ASSUME Workload!TypeOK, NEW E \in SUBSET Workload!Kept, \A e \in E : entry[e].minutes = 0
  PROVE  Workload!Spent(E) = 0
<1>1. Workload!Spent(E) = SumFunctionOnSet(TimeOf, E) /\ IsFiniteSet(E)
  BY SpentIs
<1>2. Always(TimeOf, E, 0)
  BY KeptRows DEF Always
<1> QED BY <1>1, <1>2, SumOfNone

LEMMA HoursHold ==
  ASSUME Workload!TypeOK, NEW h \in Workload!Handler, h.pc = "answer", Collected(h)
  PROVE  Workload!HoursAreThose(h)
<1> DEFINE W == h.who
           P == Workload!Periods(h)
           c == 3 * Cardinality(P)
           Theirs == {e \in h.read : entry[e].user \in W}
           Others == {e \in h.read : entry[e].user \notin W}
           part == [e \in Theirs |-> entry[e].user]
           hours == [u \in W |-> Workload!Hours(h, u)]
           rows == [u \in W |-> Workload!Spent(RowOf(h, u))]
<1>1. h.read \in SUBSET Workload!Kept /\ IsFiniteSet(W) /\ IsFiniteSet(P)
  BY ReportRead
<1>2. Cardinality(W) \in Nat /\ Cardinality(P) \in Nat /\ c \in Nat
  <2>1. Cardinality(W) \in Nat /\ Cardinality(P) \in Nat
    BY <1>1, FS_CardinalityType
  <2> HIDE DEF P, W
  <2> QED BY <2>1
<1>3. /\ Theirs \in SUBSET Workload!Kept /\ Others \in SUBSET Workload!Kept
      /\ Theirs \cap Others = {} /\ Theirs \cup Others = h.read
  BY <1>1
<1>4. \A u \in W : rows[u] = Workload!Spent({e \in Theirs : part[e] = u})
  <2> SUFFICES ASSUME NEW u \in W PROVE rows[u] = Workload!Spent({e \in Theirs : part[e] = u})
    OBVIOUS
  <2>1. {e \in Theirs : part[e] = u} = RowOf(h, u)
    BY DEF RowOf
  <2> QED BY <2>1
<1>5. SpentParted(part, rows, Theirs, W) /\ Theirs \subseteq Workload!Kept
  BY <1>3, <1>4 DEF SpentParted
<1>6. /\ \A u \in W : 6 * hours[u] - rows[u] \in -c .. c
      /\ Whole(hours, W) /\ Whole(rows, W)
  <2>1. ASSUME NEW u \in W
        PROVE  6 * hours[u] - rows[u] \in -c .. c /\ hours[u] \in Int /\ rows[u] \in Int
    BY HoursNear
  <2> HIDE DEF hours, rows, c
  <2> QED BY <2>1 DEF Whole
<1>7. Workload!TotalHours(h) = SumFunctionOnSet(hours, W)
  BY SumsSame DEF Workload!TotalHours
<1>8. Workload!Spent(Others) = 0
  <2>1. \A e \in Others : entry[e].minutes = 0
    BY <1>3, KeptRows DEF Collected
  <2> HIDE DEF Others
  <2> QED BY <1>3, <2>1, SpentNone
<1>9. {e \in h.read : entry[e].day \in Workload!Asked(h)} = h.read
  BY <1>1, KeptRows DEF Collected, Workload!Asked, Workload!Within
<1> DEFINE spent == Workload!Spent(h.read)
           total == Workload!TotalHours(h)
           n == Cardinality(W)
           k == Cardinality(P)
<1>10. Workload!HoursAreThose(h) <=>
         spent - 3 * n * k <= 6 * total /\ 6 * total <= spent + 3 * n * k
  BY <1>9, ReportsFinite DEF Workload!HoursAreThose
<1> HIDE DEF W, P, Theirs, Others, part, hours, rows, c
<1>11. SumFunctionOnSet(rows, W) = Workload!Spent(Theirs)
  BY <1>1, <1>5, SpentByParts, Zenon
<1>12. 6 * SumFunctionOnSet(hours, W) - SumFunctionOnSet(rows, W) \in -(c * n) .. c * n
  BY <1>1, <1>2, <1>6, SumNear
<1>13. total \in Int
  BY <1>1, <1>6, <1>7, SumWhole
<1>14. spent = Workload!Spent(Theirs) /\ spent \in Nat
  <2>1. Workload!Spent(Theirs \cup Others) = Workload!Spent(Theirs) + Workload!Spent(Others)
    BY <1>3, SpentTwice
  <2>2. Workload!Spent(Theirs) \in Nat
    BY <1>3, SpentIs
  <2> QED BY <1>3, <1>8, <2>1, <2>2
<1>15. 6 * total - spent \in -(c * n) .. c * n
  BY <1>7, <1>11, <1>12, <1>14
<1>16. c * n = 3 * n * k /\ c * n \in Nat
  <2>1. \A i, j \in Nat : (3 * j) * i = 3 * i * j /\ (3 * j) * i \in Nat
    OBVIOUS
  <2> QED BY <1>2, <2>1 DEF c
<1> HIDE DEF spent, total, n, k
<1>17. spent - 3 * n * k <= 6 * total /\ 6 * total <= spent + 3 * n * k
  <2> DEFINE m == 3 * n * k
  <2>1. 6 * total - spent \in -m .. m /\ m \in Nat
    BY <1>15, <1>16
  <2> HIDE DEF m
  <2>2. spent - m <= 6 * total /\ 6 * total <= spent + m
    BY <1>13, <1>14, <2>1
  <2> QED BY <2>2 DEF m
<1> QED BY <1>10, <1>17

\* The settings of a project in numbers.
LEMMA SettingsAre ==
  ASSUME NEW h \in Workload!Handler
  PROVE  /\ Workload!Threshold(h) \in Nat
         /\ Workload!Machine(h) => Workload!Capacity(h) \in Nat
<1>1. h.setting # Null => /\ h.setting.hours \in Nat /\ h.setting.days \in Nat
                          /\ h.setting.machine \in Nat
  BY DEF Workload!Handler, Workload!SettingRow
<1>2. \A a, b \in Nat : Workload!PerPeriod(h, a, b) \in Nat
  BY DEF Workload!PerPeriod
<1> QED BY <1>1, <1>2 DEF Workload!Threshold, Workload!Machine, Workload!Capacity

LEMMA CapacityHolds ==
  ASSUME Workload!TypeOK, NEW h \in Workload!Handler, h.pc = "answer", Collected(h)
  PROVE  Workload!CapacityIsReal(h)
<1> SUFFICES ASSUME Workload!Machine(h), NEW e \in h.read
             PROVE  LET d == entry[e].day
                        over == Workload!Really(h, h.who, d) - 6 * Workload!Capacity(h)
                        margin == 3 * Workload!Cardinality(h.who)
                    IN /\ Workload!OverCapacity(h, Workload!PeriodOf(h, d)) => over >= -margin
                       /\ ~Workload!OverCapacity(h, Workload!PeriodOf(h, d)) => over <= margin
  BY DEF Workload!CapacityIsReal
<1> DEFINE d == entry[e].day
           p == Workload!PeriodOf(h, d)
           really == Workload!Really(h, h.who, d)
           team == Workload!Team(h, p)
           capacity == Workload!Capacity(h)
           n == Cardinality(h.who)
<1>1. h.read \in SUBSET Workload!Kept /\ IsFiniteSet(h.who)
  BY ReportRead
<1>2. \A i \in h.read : entry[i].day \in Int
  BY <1>1, KeptRows
<1>3. {i \in h.read : entry[i].user \in h.who /\ Workload!Together(h, entry[i].day, d)}
        = ColumnOf(h, p)
  BY <1>2, PeriodsAre DEF ColumnOf
<1>4. really = Workload!Spent(ColumnOf(h, p))
  BY <1>3 DEF Workload!Really
<1>5. team \in Int /\ really \in Nat /\ 6 * team - really \in -(3 * n) .. 3 * n
  BY <1>4, TeamNear
<1>6. capacity \in Nat /\ n \in Nat /\ Workload!Cardinality(h.who) = n
  BY <1>1, SettingsAre, ReportsFinite, FS_CardinalityType
<1>7. /\ Workload!OverCapacity(h, p) => team >= capacity
      /\ ~Workload!OverCapacity(h, p) => team <= capacity
  <2>1. Workload!OverCapacity(h, p) <=> team > capacity \/ p \in h.over
    BY DEF Workload!OverCapacity
  <2>2. p \in h.over => team = capacity
    BY DEF Collected
  <2> HIDE DEF p, team, capacity
  <2> QED BY <1>5, <1>6, <2>1, <2>2
<1> HIDE DEF d, p, really, team, capacity, n
<1>8. /\ Workload!OverCapacity(h, p) => really - 6 * capacity >= -(3 * n)
      /\ ~Workload!OverCapacity(h, p) => really - 6 * capacity <= 3 * n
  BY <1>5, <1>6, <1>7
<1> QED BY <1>6, <1>8 DEF d, p, really, capacity, n

LEMMA OverloadHolds ==
  ASSUME Workload!TypeOK, NEW h \in Workload!Handler, h.pc = "answer", Collected(h)
  PROVE  Workload!OverloadIsReal(h)
<1> DEFINE T == Workload!Threshold(h)
<1> SUFFICES ASSUME NEW u \in h.who
             PROVE  /\ Workload!Overloaded(h, u) =>
                         \E d \in Workload!Asked(h) : Workload!Really(h, {u}, d) - 6 * T >= 3
                    /\ (\E d \in Workload!Asked(h) : Workload!Really(h, {u}, d) - 6 * T > 3)
                         => Workload!Overloaded(h, u)
  BY DEF Workload!OverloadIsReal
<1>1. T \in Nat
  BY SettingsAre
<1>2. h.read \in SUBSET Workload!Kept
  BY ReportRead
<1>3. \A i \in h.read : entry[i].day \in Int /\ entry[i].day \in Workload!Asked(h)
  BY <1>2, KeptRows DEF Collected, Workload!Asked, Workload!Within
<1>4. Workload!Asked(h) \subseteq Int
  BY ReportsFinite DEF Workload!Asked
<1>5. ASSUME NEW d \in Int
      PROVE  LET p == Workload!PeriodOf(h, d)
                 over == Workload!Really(h, {u}, d) - 6 * T
             IN /\ Workload!Really(h, {u}, d) = Workload!Spent(Workload!TimeIn(h, u, p))
                /\ Workload!Load(h, u, p) > T => over >= 3
                /\ over > 3 => Workload!Load(h, u, p) > T
  <2> DEFINE p == Workload!PeriodOf(h, d)
  <2>1. {i \in h.read : entry[i].user \in {u} /\ Workload!Together(h, entry[i].day, d)}
          = Workload!TimeIn(h, u, p)
    BY <1>3, PeriodsAre DEF Workload!TimeIn
  <2>2. Workload!Really(h, {u}, d) = Workload!Spent(Workload!TimeIn(h, u, p))
    BY <2>1 DEF Workload!Really
  <2> HIDE DEF p, T
  <2>3. LET spent == Workload!Spent(Workload!TimeIn(h, u, p))
        IN /\ Workload!Load(h, u, p) > T => spent - 6 * T >= 3
           /\ spent - 6 * T > 3 => Workload!Load(h, u, p) > T
    BY <1>1, LoadIs
  <2> QED BY <2>2, <2>3 DEF p
<1> HIDE DEF T
<1>6. ASSUME Workload!Overloaded(h, u)
      PROVE  \E d \in Workload!Asked(h) : Workload!Really(h, {u}, d) - 6 * T >= 3
  <2>1. PICK p \in Workload!Periods(h) : Workload!Load(h, u, p) > T
    BY <1>6 DEF Workload!Overloaded, T
  <2>2. PICK i \in h.read : p = Workload!PeriodOf(h, entry[i].day)
    BY DEF Workload!Periods
  <2> QED BY <1>3, <1>5, <2>1, <2>2
<1>7. ASSUME NEW d \in Workload!Asked(h), Workload!Really(h, {u}, d) - 6 * T > 3
      PROVE  Workload!Overloaded(h, u)
  <2> DEFINE p == Workload!PeriodOf(h, d)
  <2>1. Workload!Load(h, u, p) > T /\ Workload!Spent(Workload!TimeIn(h, u, p)) - 6 * T > 3
    BY <1>4, <1>5, <1>7
  <2>2. Workload!TimeIn(h, u, p) # {}
    <3> SUFFICES ASSUME Workload!TimeIn(h, u, p) = {} PROVE FALSE
      OBVIOUS
    <3>1. Workload!Spent({}) = 0
      BY SpentNone
    <3> HIDE DEF p
    <3> QED BY <1>1, <2>1, <3>1
  <2>3. p \in Workload!Periods(h)
    BY <2>2 DEF Workload!TimeIn, Workload!Periods
  <2> QED BY <2>1, <2>3 DEF Workload!Overloaded, T
<1> QED BY <1>6, <1>7

\* Statistics grouped by people or by tasks are of the same entries.
LEMMA GroupsAddUp ==
  ASSUME Workload!TypeOK, NEW E \in SUBSET Workload!Kept, NEW part, NEW g,
         SpentParted(part, g, E, DOMAIN g), IsFiniteSet(DOMAIN g)
  PROVE  Workload!Spent(E) = Workload!SumFunction(g)
<1>1. SumFunctionOnSet(g, DOMAIN g) = Workload!Spent(E)
  BY SpentByParts
<1> QED BY <1>1, SumsSame

LEMMA StatsHold == ASSUME Workload!TypeOK PROVE Workload!StatsAgree
<1> DEFINE K == Workload!Kept
           person == [e \in K |-> entry[e].user]
           job == [e \in K |-> entry[e].task]
<1>1. \A e \in K : entry[e].user \in Person
  BY KeptRows
<1>2. IsFiniteSet(K)
  BY SpentIs
<1>3. \A E \in SUBSET K : IsFiniteSet({person[e] : e \in E}) /\ IsFiniteSet({job[e] : e \in E})
  <2> SUFFICES ASSUME NEW E \in SUBSET K
               PROVE  IsFiniteSet({person[e] : e \in E}) /\ IsFiniteSet({job[e] : e \in E})
    OBVIOUS
  <2> HIDE DEF person, job, K
  <2>1. IsFiniteSet(E)
    BY <1>2, FS_Subset
  <2> QED BY <2>1, ImageFinite
<1>4. Workload!ProjectTimeStats = Workload!SumFunction([u \in Person |-> Workload!MyTimeStats(u)])
  <2> DEFINE g == [u \in Person |-> Workload!MyTimeStats(u)]
  <2>1. SpentParted(person, g, K, Person)
    BY <1>1 DEF SpentParted, Workload!MyTimeStats
  <2>2. DOMAIN g = Person /\ IsFiniteSet(Person)
    BY ReportsFinite
  <2> HIDE DEF g, person
  <2>3. Workload!Spent(K) = Workload!SumFunction(g)
    BY <2>1, <2>2, GroupsAddUp
  <2> QED BY <2>3 DEF Workload!ProjectTimeStats, g, K
<1>5. ASSUME NEW u \in Person
      PROVE  Workload!MyTimeStats(u) = Workload!SumFunction(Workload!MyByTask(u))
  <2> DEFINE E == {e \in K : entry[e].user = u}
             g == Workload!MyByTask(u)
  <2>1. E \in SUBSET K /\ DOMAIN g = {job[e] : e \in E}
    BY DEF Workload!MyByTask
  <2>2. \A t \in DOMAIN g : g[t] = Workload!Spent({e \in E : job[e] = t})
    <3> SUFFICES ASSUME NEW t \in DOMAIN g PROVE g[t] = Workload!Spent({e \in E : job[e] = t})
      OBVIOUS
    <3>1. {e \in K : entry[e].user = u /\ entry[e].task = t} = {e \in E : job[e] = t}
      OBVIOUS
    <3>2. g[t] = Workload!Spent({e \in K : entry[e].user = u /\ entry[e].task = t})
      BY <2>1 DEF Workload!MyByTask
    <3> QED BY <3>1, <3>2
  <2>3. SpentParted(job, g, E, DOMAIN g)
    BY <2>1, <2>2 DEF SpentParted
  <2>4. IsFiniteSet(DOMAIN g)
    BY <1>3, <2>1
  <2>5. Workload!MyTimeStats(u) = Workload!Spent(E)
    BY DEF Workload!MyTimeStats
  <2> HIDE DEF g, job, E
  <2>6. Workload!Spent(E) = Workload!SumFunction(g)
    BY <2>1, <2>3, <2>4, GroupsAddUp
  <2> QED BY <2>5, <2>6 DEF g
<1>6. Workload!ProjectTimeStats = Workload!SumFunction(Workload!ByUser)
  <2> DEFINE g == Workload!ByUser
  <2>1. DOMAIN g = {person[e] : e \in K}
    BY DEF Workload!ByUser
  <2>2. \A u \in DOMAIN g : g[u] = Workload!Spent({e \in K : person[e] = u})
    <3> SUFFICES ASSUME NEW u \in DOMAIN g PROVE g[u] = Workload!Spent({e \in K : person[e] = u})
      OBVIOUS
    <3>1. {e \in K : entry[e].user = u} = {e \in K : person[e] = u}
      OBVIOUS
    <3>2. g[u] = Workload!Spent({e \in K : entry[e].user = u})
      BY <2>1 DEF Workload!ByUser
    <3> QED BY <3>1, <3>2
  <2>3. SpentParted(person, g, K, DOMAIN g)
    BY <2>1, <2>2 DEF SpentParted
  <2>4. IsFiniteSet(DOMAIN g)
    BY <1>3, <2>1
  <2> HIDE DEF g, person
  <2>5. Workload!Spent(K) = Workload!SumFunction(g)
    BY <2>3, <2>4, GroupsAddUp
  <2> QED BY <2>5 DEF g, Workload!ProjectTimeStats
<1>7. Workload!ProjectTimeStats = Workload!SumFunction(Workload!ByTask)
  <2> DEFINE g == Workload!ByTask
  <2>1. DOMAIN g = {job[e] : e \in K}
    BY DEF Workload!ByTask
  <2>2. \A t \in DOMAIN g : g[t] = Workload!Spent({e \in K : job[e] = t})
    <3> SUFFICES ASSUME NEW t \in DOMAIN g PROVE g[t] = Workload!Spent({e \in K : job[e] = t})
      OBVIOUS
    <3>1. {e \in K : entry[e].task = t} = {e \in K : job[e] = t}
      OBVIOUS
    <3>2. g[t] = Workload!Spent({e \in K : entry[e].task = t})
      BY <2>1 DEF Workload!ByTask
    <3> QED BY <3>1, <3>2
  <2>3. SpentParted(job, g, K, DOMAIN g)
    BY <2>1, <2>2 DEF SpentParted
  <2>4. IsFiniteSet(DOMAIN g)
    BY <1>3, <2>1
  <2> HIDE DEF g, job
  <2>5. Workload!Spent(K) = Workload!SumFunction(g)
    BY <2>3, <2>4, GroupsAddUp
  <2> QED BY <2>5 DEF g, Workload!ProjectTimeStats
<1> QED BY <1>4, <1>5, <1>6, <1>7 DEF Workload!StatsAgree

\* A report reads what it is about before it answers; entries do not change.
LEMMA ReportStart == Workload!Init => Reported
<1> SUFFICES ASSUME Workload!Init PROVE Reported
  OBVIOUS
<1>1. Workload!Min(Ended) \in Ended
  <2>1. \E m \in Ended : \A n \in Ended : m <= n
    BY ReportsFinite, LeastOf
  <2> QED BY <2>1 DEF Workload!Min
<1>2. Workload!Resting \in Workload!Handler /\ Workload!Resting.pc = "idle"
  BY <1>1 DEF Workload!Resting, Workload!Handler
<1>3. entry \in [Entry -> Workload!EntryRow \cup {Null}]
  BY ReportsFinite DEF Workload!Init, Workload!EntryRow
<1> QED BY <1>2, <1>3, ReportsFinite DEF Workload!Init, Reported, Workload!TypeOK, Collected

LEMMA StillCollected ==
  ASSUME NEW h, UNCHANGED entry PROVE Collected(h)' <=> Collected(h)
BY DEF Collected, Workload!Within, Workload!Spent, Workload!TimeIn, Workload!PeriodOf,
       Workload!WeekStart, Workload!Weekday, Workload!Team, Workload!Load, Workload!Tenths,
       Workload!Capacity, Workload!PerPeriod

LEMMA ReportStep == Reported /\ [Workload!Next]_(Workload!vars) => Reported'
<1> SUFFICES ASSUME Reported, [Workload!Next]_(Workload!vars) PROVE Reported'
  OBVIOUS
<1>1. Workload!Resting \in Workload!Handler /\ Workload!Resting.pc = "idle"
  <2>1. \E m \in Ended : \A n \in Ended : m <= n
    BY ReportsFinite, LeastOf
  <2>2. Workload!Min(Ended) \in Ended
    BY <2>1 DEF Workload!Min
  <2> QED BY <2>2 DEF Workload!Resting, Workload!Handler
<1>2. ASSUME NEW r \in Reporter, NEW h \in Workload!Handler, Collected(h),
             reportReq' = [reportReq EXCEPT ![r] = h], UNCHANGED entry,
             people' \subseteq Person, setting' \in Workload!SettingRow \cup {Null}
      PROVE  Reported'
  <2>1. reportReq' \in [Reporter -> Workload!Handler]
    BY <1>2 DEF Reported, Workload!TypeOK
  <2>2. \A q \in Reporter : Collected(reportReq'[q])
    BY <1>2 DEF Reported, Workload!TypeOK
  <2>3. ASSUME NEW q \in Reporter PROVE Collected(reportReq[q])'
    <3>1. PICK g : g = reportReq'[q]
      OBVIOUS
    <3>2. Collected(g) /\ (Collected(g)' <=> Collected(g))
      BY <1>2, <2>2, <3>1, StillCollected
    <3> QED BY <3>1, <3>2
  <2> QED BY <1>2, <2>1, <2>3 DEF Reported, Workload!TypeOK
<1>3. ASSUME NEW r \in Reporter, Workload!Finish(r), UNCHANGED <<people, setting, entry>>
      PROVE  Reported'
  <2>1. Collected(Workload!Resting)
    BY <1>1 DEF Collected
  <2>2. people \subseteq Person /\ setting \in Workload!SettingRow \cup {Null}
    BY DEF Reported, Workload!TypeOK
  <2> QED BY <1>1, <1>2, <1>3, <2>1, <2>2 DEF Workload!Finish
<1> DEFINE Fits == /\ people \subseteq Person /\ setting \in Workload!SettingRow \cup {Null}
                   /\ reportReq \in [Reporter -> Workload!Handler]
                   /\ entry \in [Entry -> Workload!EntryRow \cup {Null}]
<1>4. Fits
  BY DEF Reported, Workload!TypeOK
<1>5. ASSUME NEW r \in Reporter, Workload!BeginGetWorkload(r) PROVE Reported'
  <2>1. PICK of \in {"project", "everything"}, by \in {"day", "week"},
             from \in Ended, to \in Ended :
               /\ from <= to
               /\ reportReq' = [reportReq EXCEPT ![r] = [Workload!Resting EXCEPT
                    !.of = of, !.by = by, !.from = from, !.to = to,
                    !.setting = IF of = "project" THEN setting ELSE Null,
                    !.pc = IF of = "everything" THEN "entries"
                           ELSE IF setting = Null THEN "create" ELSE "members"]]
    BY <1>5, Zenon DEF Workload!BeginGetWorkload
  <2> DEFINE seen == IF of = "project" THEN setting ELSE Null
             step == IF of = "everything" THEN "entries"
                     ELSE IF setting = Null THEN "create" ELSE "members"
             h == [Workload!Resting EXCEPT !.of = of, !.by = by, !.from = from, !.to = to,
                     !.setting = seen, !.pc = step]
  <2>2. seen \in Workload!SettingRow \cup {Null} /\ step \in {"entries", "create", "members"}
    BY <1>4
  <2>3. reportReq' = [reportReq EXCEPT ![r] = h]
    BY <2>1, Zenon
  <2> HIDE DEF seen, step
  <2>4. h \in Workload!Handler /\ h.pc = step
    BY <1>1, <2>2 DEF Workload!Handler
  <2> HIDE DEF h
  <2>5. Collected(h)
    BY <2>2, <2>4 DEF Collected
  <2>6. UNCHANGED <<people, setting, entry>>
    BY <1>5 DEF Workload!BeginGetWorkload
  <2> QED BY <1>2, <1>4, <2>3, <2>4, <2>5, <2>6
<1>6. ASSUME NEW r \in Reporter, Workload!CreateSettings(r) PROVE Reported'
  <2>1. CASE setting = Null
    <3> DEFINE h == [reportReq[r] EXCEPT !.pc = "members", !.setting = FirstSettings]
    <3>1. reportReq' = [reportReq EXCEPT ![r] = h] /\ setting' = FirstSettings
          /\ UNCHANGED <<people, entry>>
      BY <1>6, <2>1 DEF Workload!CreateSettings
    <3>2. h \in Workload!Handler /\ h.pc = "members"
      BY <1>4, ReportsFinite DEF Workload!Handler
    <3> HIDE DEF h
    <3> QED BY <1>2, <1>4, <3>1, <3>2, ReportsFinite DEF Collected
  <2>2. CASE setting # Null
    BY <1>3, <1>6, <2>2 DEF Workload!CreateSettings
  <2> QED BY <2>1, <2>2
<1>7. ASSUME NEW r \in Reporter, Workload!ReadMembers(r) PROVE Reported'
  <2> DEFINE h == [reportReq[r] EXCEPT !.pc = "entries", !.who = people]
  <2>1. reportReq' = [reportReq EXCEPT ![r] = h] /\ UNCHANGED <<people, setting, entry>>
    BY <1>7 DEF Workload!ReadMembers
  <2>2. h \in Workload!Handler /\ h.pc = "entries"
    BY <1>4 DEF Workload!Handler
  <2> HIDE DEF h
  <2> QED BY <1>2, <1>4, <2>1, <2>2 DEF Collected
<1>8. ASSUME NEW r \in Reporter, Workload!ReadEntries(r) PROVE Reported'
  <2> DEFINE found == {e \in Workload!Kept : Workload!Within(entry[e].day, reportReq[r])}
             spent == {entry[e].user : e \in {e \in found : entry[e].minutes > 0}}
             g == [reportReq[r] EXCEPT !.pc = "answer", !.read = found, !.who = @ \cup spent]
  <2>1. PICK down \in SUBSET Workload!Halves(g) :
               \E over \in SUBSET Workload!AtCapacity([g EXCEPT !.down = down]) :
                 reportReq' = [reportReq EXCEPT ![r] = [g EXCEPT !.down = down, !.over = over]]
    BY <1>8, Zenon DEF Workload!ReadEntries
  <2>2. PICK over \in SUBSET Workload!AtCapacity([g EXCEPT !.down = down]) :
               reportReq' = [reportReq EXCEPT ![r] = [g EXCEPT !.down = down, !.over = over]]
    BY <2>1
  <2> DEFINE f == [g EXCEPT !.down = down]
             h == [g EXCEPT !.down = down, !.over = over]
  <2>3. reportReq' = [reportReq EXCEPT ![r] = h]
    BY <2>2
  <2>4. UNCHANGED <<people, setting, entry>>
    BY <1>8 DEF Workload!ReadEntries
  <2>5. found \subseteq Entry /\ spent \subseteq Person
    BY KeptRows DEF Workload!Kept, Reported
  <2>6. /\ \A e \in found : entry[e] # Null /\ Workload!Within(entry[e].day, reportReq[r])
        /\ \A e \in found : entry[e].minutes > 0 => entry[e].user \in spent
    BY DEF Workload!Kept
  <2>7. \A e \in found : entry[e].day \in Int
    BY KeptRows DEF Reported
  <2> HIDE DEF found, spent
  <2>8. /\ g \in Workload!Handler /\ g.pc = "answer" /\ g.from = reportReq[r].from
        /\ g.to = reportReq[r].to /\ g.read = found /\ spent \subseteq g.who
    BY <1>4, <2>5 DEF Workload!Handler
  <2> HIDE DEF g
  <2>9. Workload!Periods(g) \subseteq Int /\ Workload!Periods(f) = Workload!Periods(g)
    <3>1. \A d \in Int : Workload!PeriodOf(g, d) \in Int
      BY DEF Workload!PeriodOf, Workload!WeekStart, Workload!Weekday
    <3>2. f.by = g.by /\ f.read = g.read
      BY <2>8 DEF Workload!Handler
    <3> QED BY <2>7, <2>8, <3>1, <3>2 DEF Workload!Periods, Workload!PeriodOf
  <2>10. down \in SUBSET (Person \X Int)
    <3>1. g.who \subseteq Person
      BY <2>8 DEF Workload!Handler
    <3> QED BY <2>9, <3>1 DEF Workload!Halves
  <2>11. over \in SUBSET Int
    BY <2>2, <2>9 DEF Workload!AtCapacity
  <2>12. /\ h \in Workload!Handler /\ h.pc = g.pc /\ h.from = g.from /\ h.to = g.to
         /\ h.read = g.read /\ h.who = g.who /\ h.by = g.by /\ h.setting = g.setting
         /\ h.down = down /\ h.over = over
         /\ f.read = g.read /\ f.who = g.who /\ f.by = g.by /\ f.setting = g.setting
         /\ f.down = down
    BY <2>8, <2>10, <2>11 DEF Workload!Handler
  <2>13. ASSUME NEW u, NEW p, <<u, p>> \in h.down
         PROVE  Workload!Spent(Workload!TimeIn(h, u, p)) % 6 = 3
    <3>1. <<u, p>> \in Workload!Halves(g)
      BY <2>12, <2>13
    <3>2. Workload!Spent(Workload!TimeIn(g, u, p)) % 6 = 3
      BY <3>1 DEF Workload!Halves
    <3>3. Workload!TimeIn(h, u, p) = Workload!TimeIn(g, u, p)
      BY <2>12 DEF Workload!TimeIn, Workload!PeriodOf
    <3> QED BY <3>2, <3>3
  <2>14. ASSUME NEW p \in h.over PROVE Workload!Team(h, p) = Workload!Capacity(h)
    <3>1. Workload!Team(f, p) = Workload!Capacity(f)
      BY <2>2, <2>12, <2>14 DEF Workload!AtCapacity
    <3>2. \A u : Workload!Load(h, u, p) = Workload!Load(f, u, p)
      BY <2>12 DEF Workload!Load, Workload!TimeIn, Workload!PeriodOf
    <3>3. Workload!Team(h, p) = Workload!Team(f, p)
      BY <2>12, <3>2 DEF Workload!Team
    <3>4. Workload!Capacity(h) = Workload!Capacity(f)
      BY <2>12 DEF Workload!Capacity, Workload!PerPeriod
    <3> QED BY <3>1, <3>3, <3>4
  <2> HIDE DEF h, f
  <2>15. Collected(h)
    BY <2>6, <2>8, <2>12, <2>13, <2>14 DEF Collected, Workload!Within
  <2> QED BY <1>2, <1>4, <2>3, <2>4, <2>12, <2>15
<1>9. ASSUME NEW r \in Reporter, Workload!Answer(r) \/ Workload!Abort(r) PROVE Reported'
  BY <1>3, <1>9 DEF Workload!Answer, Workload!Abort
<1>10. ASSUME UNCHANGED <<entry, reportReq>>, people' \subseteq Person,
              setting' \in Workload!SettingRow \cup {Null}
       PROVE  Reported'
  <2>1. \A q \in Reporter : Collected(reportReq[q])'
    BY <1>10, StillCollected DEF Reported
  <2> QED BY <1>10, <2>1 DEF Reported, Workload!TypeOK
<1>11. CASE Workload!UpdateSettings
  BY <1>4, <1>10, <1>11, ReportsFinite DEF Workload!UpdateSettings
<1>12. CASE Workload!AddMember \/ Workload!RemoveMember
  BY <1>4, <1>10, <1>12 DEF Workload!AddMember, Workload!RemoveMember
<1>13. CASE UNCHANGED Workload!vars
  BY <1>4, <1>10, <1>13 DEF Workload!vars
<1> QED BY <1>5, <1>6, <1>7, <1>8, <1>9, <1>11, <1>12, <1>13 DEF Workload!Next

\* WorkloadService and the statistics of TimeEntryService: for any entries, people, days and
\* settings, whoever is told to be overloaded is, and whoever is by more than the rounding is
\* told; the machine is judged on the time of all and the hours of a report are those spent on
\* its days, each up to three minutes a total; and statistics add up.
THEOREM WorkloadTold == Workload!Spec => []WorkloadTellsTime
<1>1. Reported => WorkloadTellsTime
  <2> SUFFICES ASSUME Reported PROVE WorkloadTellsTime
    OBVIOUS
  <2>1. Workload!TypeOK
    BY DEF Reported
  <2>2. ASSUME NEW r \in Reporter, Workload!At(r, "answer")
        PROVE  /\ Workload!OverloadIsReal(reportReq[r]) /\ Workload!CapacityIsReal(reportReq[r])
               /\ Workload!HoursAreThose(reportReq[r])
    <3>1. /\ reportReq[r] \in Workload!Handler /\ reportReq[r].pc = "answer"
          /\ Collected(reportReq[r])
      BY <2>2 DEF Reported, Workload!TypeOK, Workload!At
    <3> QED BY <2>1, <3>1, OverloadHolds, CapacityHolds, HoursHold
  <2> QED BY <2>1, <2>2, StatsHold DEF WorkloadTellsTime, Workload!WorkloadTellsTime
<1> QED BY <1>1, ReportStart, ReportStep, PTL DEF Workload!Spec
=============================================================================
