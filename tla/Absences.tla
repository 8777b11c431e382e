------------------------------ MODULE Absences ------------------------------
(***************************************************************************)
(* The availability people declare: AbsenceService.  A request is filed,    *)
(* moved and withdrawn by its author, and approved or refused by a manager  *)
(* or an administrator.                                                     *)
(***************************************************************************)
EXTENDS Naturals, FiniteSets

CONSTANTS User,     \* accounts
          Absence,  \* rows of table Absence
          Request,  \* slots for handlers in flight
          Null,
          LastDay   \* bound: days are 0..LastDay

Calendar == 0..LastDay

VARIABLES absence,  \* table Absence
          req       \* handlers in flight

vars == <<absence, req>>

Status == {"PENDING", "APPROVED", "REJECTED"}
\* Whole days, both ends included.  History: "rushed" that a write of it was computed from
\* rows that had changed since; if none was, "agreed" holds the days its approver had read.
AbsenceRow == [row : {"none", "live", "deleted"}, user : User \cup {Null},
               start : Calendar, end : Calendar, status : Status,
               agreed : SUBSET Calendar, rushed : BOOLEAN]
NoAbsence == [row |-> "none", user |-> Null, start |-> 0, end |-> 0,
              status |-> "PENDING", agreed |-> {}, rushed |-> FALSE]

Op == {"none", "create", "update", "decide"}
Step == {"idle", "insert", "update", "decision"}
\* "stale" is history: rows of the user "for" have changed since r read them.
Handler == [op : Op, pc : Step, absence : Absence \cup {Null}, for : User \cup {Null},
            start : Calendar, end : Calendar, verdict : Status, stale : BOOLEAN]
Resting == [op |-> "none", pc |-> "idle", absence |-> Null, for |-> Null,
            start |-> 0, end |-> 0, verdict |-> "PENDING", stale |-> FALSE]

Live == {a \in Absence : absence[a].row = "live"}
Of(u) == {a \in Live : absence[a].user = u}
Days(a) == absence[a].start .. absence[a].end

Init ==
  /\ absence = [a \in Absence |-> NoAbsence]
  /\ req = [r \in Request |-> Resting]

At(r, step) == req[r].pc = step
Finish(r) == req' = [req EXCEPT ![r] = Resting]
Accept(r, h) == req[r] = Resting /\ req' = [req EXCEPT ![r] = h]

\* The write of r to the rows of its user is committed, and r is done.
Commit(r) ==
  req' = [q \in Request |->
    IF q = r THEN Resting
    ELSE [req[q] EXCEPT !.stale = @ \/ (req[q] # Resting /\ req[q].for = req[r].for)]]

\* overlapsWindow: each of two periods begins before the other ends.
Overlaps(a, start, end) == absence[a].start <= end /\ absence[a].end >= start
Conflict(u, except, start, end) ==
  \E a \in Of(u) \ except : absence[a].status # "REJECTED" /\ Overlaps(a, start, end)

\* listForUsers: what the team sees of a person on a day.
Shown(u, day) == {a \in Of(u) : absence[a].status # "REJECTED" /\ Overlaps(a, day, day)}

-----------------------------------------------------------------------------
BeginCreate(r) ==
  /\ \E u \in User, start \in Calendar, end \in Calendar :
       /\ start <= end
       /\ ~Conflict(u, {}, start, end)
       /\ Accept(r, [Resting EXCEPT !.op = "create", !.pc = "insert", !.for = u,
                                    !.start = start, !.end = end])
  /\ UNCHANGED absence

Create(r) ==
  LET h == req[r] IN
  /\ At(r, "insert")
  /\ \E a \in Absence :
       /\ absence[a].row = "none"
       /\ absence' = [absence EXCEPT ![a] =
            [NoAbsence EXCEPT !.row = "live", !.user = h.for, !.start = h.start,
                              !.end = h.end, !.rushed = h.stale]]
  /\ Commit(r)

\* A date that is not given stays as findOwn has read it: one more date to be asked for.
BeginUpdate(r) ==
  /\ \E a \in Live, start \in Calendar, end \in Calendar :
       /\ start <= end
       /\ ~Conflict(absence[a].user, {a}, start, end)
       /\ Accept(r, [Resting EXCEPT !.op = "update", !.pc = "update", !.absence = a,
                       !.for = absence[a].user, !.start = start, !.end = end])
  /\ UNCHANGED absence

\* An agreement bears on precise dates: whatever is changed, it is to be given again.
Moved(row, h) ==
  [row EXCEPT !.start = h.start, !.end = h.end, !.rushed = h.stale,
              !.status = "PENDING", !.agreed = {}]

Update(r) ==
  LET h == req[r] IN
  /\ At(r, "update")
  /\ IF h.absence \in Live
     THEN /\ absence' = [absence EXCEPT ![h.absence] = Moved(@, h)]
          /\ Commit(r)
     ELSE Finish(r) /\ UNCHANGED absence

\* Of two removals one fails; nothing but the row is read before.
Remove ==
  \E a \in Live :
    /\ absence' = [absence EXCEPT ![a] = [NoAbsence EXCEPT !.row = "deleted"]]
    /\ req' = [q \in Request |->
         [req[q] EXCEPT !.stale = @ \/ (req[q] # Resting /\ req[q].for = absence[a].user)]]

\* A manager other than the author decides: whose request it is is looked at, its status
\* is not.  The days read are those an approval is taken on.
BeginDecide(r) ==
  /\ \E a \in Live, verdict \in {"APPROVED", "REJECTED"} :
       Accept(r, [Resting EXCEPT !.op = "decide", !.pc = "decision", !.absence = a,
                    !.for = absence[a].user, !.verdict = verdict,
                    !.start = IF verdict = "APPROVED" THEN absence[a].start ELSE 0,
                    !.end = IF verdict = "APPROVED" THEN absence[a].end ELSE 0])
  /\ UNCHANGED absence

\* A refusal taken back gives its days again without a look at what else is declared.
Rushed(h) ==
  \/ h.stale \/ absence[h.absence].rushed
  \/ absence[h.absence].status = "REJECTED" /\ h.verdict = "APPROVED"
Decide(r) ==
  LET h == req[r] IN
  /\ At(r, "decision")
  /\ IF h.absence \in Live
     THEN /\ absence' = [absence EXCEPT
               ![h.absence].status = h.verdict,
               ![h.absence].agreed = IF h.verdict = "APPROVED" /\ ~Rushed(h)
                                     THEN h.start .. h.end ELSE {},
               ![h.absence].rushed = Rushed(h)]
          /\ Commit(r)
     ELSE Finish(r) /\ UNCHANGED absence

\* The server stops, or a call fails, between two steps.
Abort(r) ==
  /\ req[r] # Resting
  /\ Finish(r)
  /\ UNCHANGED absence

Next ==
  \/ \E r \in Request :
       \/ BeginCreate(r) \/ Create(r)
       \/ BeginUpdate(r) \/ Update(r)
       \/ BeginDecide(r) \/ Decide(r)
       \/ Abort(r)
  \/ Remove

Spec == Init /\ [][Next]_vars

-----------------------------------------------------------------------------
\* Types of the table and of the handlers.
TypeOK ==
  /\ absence \in [Absence -> AbsenceRow]
  /\ req \in [Request -> Handler]

\* create and update: the team sees one absence of a person on a day at most, except
\* where rows changed between the check and the write, or a refusal was taken back.
OneAbsenceADay ==
  \A u \in User, d \in Calendar :
    Cardinality({a \in Shown(u, d) : ~absence[a].rushed}) <= 1

\* An approval covers the very days the approver had read, unless the author moved them
\* while the decision was under way: update takes the approval back.
ApprovedAsRead ==
  \A a \in Live :
    absence[a].status = "APPROVED" /\ ~absence[a].rushed => Days(a) = absence[a].agreed
=============================================================================
