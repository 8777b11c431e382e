---------------------------- MODULE SessionLife ----------------------------
(***************************************************************************)
(* What a session is to the person who logged in, whatever tokens carry it: *)
(* it is opened once, for one person, goes on until something ends it, and  *)
(* is then over for good.                                                   *)
(***************************************************************************)
CONSTANTS Session,   \* names of sessions
          Person,
          Nobody     \* holds a session that was never opened

VARIABLES life,      \* "none", "open" or "over"
          holder     \* whose session it is

Init ==
  /\ life = [s \in Session |-> "none"]
  /\ holder = [s \in Session |-> Nobody]

Open(s, p) ==
  /\ life[s] = "none"
  /\ life' = [life EXCEPT ![s] = "open"]
  /\ holder' = [holder EXCEPT ![s] = p]

\* A session expires or is left, or a person leaves several at once.
End(p, sessions) ==
  /\ \A s \in sessions : life[s] = "open" /\ holder[s] = p
  /\ life' = [s \in Session |-> IF s \in sessions THEN "over" ELSE life[s]]
  /\ UNCHANGED holder

Next ==
  \E p \in Person :
    \/ \E s \in Session : Open(s, p)
    \/ \E sessions \in SUBSET Session : End(p, sessions)

Spec == Init /\ [][Next]_<<life, holder>>
=============================================================================
