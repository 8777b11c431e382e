--------------------------- MODULE PlanningProofs ---------------------------
(***************************************************************************)
(* Theorems about what MCPlanning composes: the rescheduling of a task and *)
(* the reference of a plan, for any number of tasks and dependencies,      *)
(* cycles included, any dates and lags, and any number of requests in      *)
(* flight; then absences, agendas, templates, and the dates of milestones  *)
(* and issues.                                                             *)
(***************************************************************************)
EXTENDS MCPlanning, SumsProofs

\* The fields of a handler.  What getPertData keeps in them is no matter here.
Shape(h) ==
  h \in [op : {"none", "reschedule", "baseline", "pert"},
         pc : {"idle", "propagate", "commit", "walk"}, task : {h.task},
         dates : {h.dates}, listing : {h.listing}, queue : {h.queue},
         guard : {h.guard}, changed : {h.changed}, prev : {h.prev},
         cut : {h.cut}, stale : BOOLEAN]

CascadeType(h) ==
  /\ h.op \in {"reschedule", "baseline"} => h.dates \in [Task -> DateRow]
  /\ h.op = "reschedule" =>
       /\ h.task \in Task
       /\ h.queue \in Seq(Task)
       /\ h.changed \in SUBSET Task
       /\ ToSet(h.queue) \subseteq Moved(h)

PlanType ==
  /\ dates \in [Task -> DateRow]
  /\ baseline \in [Task -> DateRow]
  /\ Edges \subseteq Task \X Task
  /\ lag \in [Edges -> Int]
  /\ clean \in BOOLEAN
  /\ req = [r \in Request |-> req[r]]
  /\ \A r \in Request : Shape(req[r]) /\ CascadeType(req[r])

\* Why a conflict may be left in the dates of a handler: its blocker is still to be
\* visited, or it was there and its blocker stays, or it is between a task that stays
\* and the one the user placed.
Excused(e, h) ==
  \/ e[1] \in ToSet(h.queue)
  \/ e \in Conflicts(dates) /\ e[1] \notin Moved(h)
  \/ e[2] = h.task /\ e[1] \notin h.changed

\* Task t was pushed: later, as long as it was, and no further than one of its blockers asks.
PushedBy(t, h) ==
  /\ Planned(dates[t]) /\ Planned(h.dates[t])
  /\ h.dates[t].start > dates[t].start
  /\ Duration(h.dates[t]) = Duration(dates[t])
  /\ \E b \in Moved(h) : /\ <<b, t>> \in Edges
                         /\ h.dates[b].end # Null
                         /\ h.dates[t].start <= h.dates[b].end + lag[<<b, t>>]

\* What holds of a cascade whose dates nobody changed under it.
Settling(h) ==
  h.op = "reschedule" /\ ~h.stale =>
    /\ \A t \in Task \ Moved(h) : h.dates[t] = dates[t]
    /\ \A t \in h.changed \ {h.task} : PushedBy(t, h)
    /\ ~h.cut => \A e \in Conflicts(h.dates) : Excused(e, h)
    /\ h.cut => h.pc = "commit"
    /\ h.pc = "commit" => h.queue = <<>>

\* As long as no commit has left a conflict, neither the plan, nor the reference, nor
\* what a setBaseline has read has one.
CleanPlan ==
  clean =>
    /\ Conflicts(dates) = {}
    /\ Conflicts(baseline) = {}
    /\ \A r \in Request : req[r].op = "baseline" => Conflicts(req[r].dates) = {}

CascadeInv == PlanType /\ (\A r \in Request : Settling(req[r])) /\ CleanPlan

-----------------------------------------------------------------------------
\* A listing of a finite set has all its elements.
LEMMA ListingOfAll ==
  ASSUME NEW S, IsFiniteSet(S), NEW s \in SetToSeqs(S)
  PROVE  s \in Seq(S) /\ ToSet(s) = S
<1> DEFINE D == 1..Cardinality(S)
<1>1. Cardinality(S) \in Nat /\ IsFiniteSet(D) /\ Cardinality(D) = Cardinality(S)
  BY FS_CardinalityType, FS_Interval
<1>2. s \in [D -> S] /\ \A i, j \in D : i # j => s[i] # s[j]
  BY DEF SetToSeqs
<1>3. s \in Injection(D, S)
  BY <1>2 DEF Injection, IsInjective
<1>4. s \in Surjection(D, S)
  BY <1>1, <1>3, FS_Injection
<1>5. \A x \in S : \E i \in D : s[i] = x
  BY <1>4 DEF Surjection
<1>6. s \in Seq(S)
  BY <1>1, <1>2
<1> QED
  BY <1>1, <1>2, <1>5, <1>6 DEF ToSet

LEMMA HeadAndTail ==
  ASSUME NEW S, NEW q \in Seq(S), q # <<>>
  PROVE  /\ Tail(q) \in Seq(S) /\ Head(q) \in S
         /\ ToSet(q) = {Head(q)} \cup ToSet(Tail(q))
<1>1. /\ Len(q) \in Nat \ {0} /\ DOMAIN q = 1..Len(q) /\ Head(q) = q[1] /\ Head(q) \in S
      /\ Tail(q) \in Seq(S) /\ Len(Tail(q)) = Len(q) - 1 /\ DOMAIN Tail(q) = 1..(Len(q) - 1)
      /\ \A i \in 1..(Len(q) - 1) : Tail(q)[i] = q[i + 1]
  OBVIOUS
<1>2. ASSUME NEW i \in 1..Len(q)
      PROVE  q[i] \in {Head(q)} \cup ToSet(Tail(q))
  <2>1. CASE i = 1
    BY <1>1, <2>1
  <2>2. CASE i # 1
    <3>1. i - 1 \in DOMAIN Tail(q) /\ Tail(q)[i - 1] = q[i]
      BY <1>1, <2>2
    <3> QED
      BY <3>1 DEF ToSet
  <2> QED
    BY <2>1, <2>2
<1>3. \A i \in 1..(Len(q) - 1) : Tail(q)[i] \in ToSet(q)
  BY <1>1 DEF ToSet
<1>4. Head(q) \in ToSet(q)
  BY <1>1 DEF ToSet
<1>5. \A x \in ToSet(Tail(q)) : x \in ToSet(q)
  BY <1>1, <1>3 DEF ToSet
<1>6. \A x \in ToSet(q) : x \in {Head(q)} \cup ToSet(Tail(q))
  BY <1>1, <1>2 DEF ToSet
<1> QED
  BY <1>1, <1>4, <1>5, <1>6

LEMMA JoinedElements ==
  ASSUME NEW S, NEW p \in Seq(S), NEW q \in Seq(S)
  PROVE  p \o q \in Seq(S) /\ ToSet(p \o q) = ToSet(p) \cup ToSet(q)
<1>1. /\ Len(p) \in Nat /\ Len(q) \in Nat /\ DOMAIN p = 1..Len(p) /\ DOMAIN q = 1..Len(q)
      /\ p \o q \in Seq(S) /\ DOMAIN (p \o q) = 1..(Len(p) + Len(q))
      /\ \A i \in 1..(Len(p) + Len(q)) :
           (p \o q)[i] = IF i <= Len(p) THEN p[i] ELSE q[i - Len(p)]
  OBVIOUS
<1>2. \A i \in 1..(Len(p) + Len(q)) : (p \o q)[i] \in ToSet(p) \cup ToSet(q)
  <2> TAKE i \in 1..(Len(p) + Len(q))
  <2>1. CASE i <= Len(p)
    BY <1>1, <2>1 DEF ToSet
  <2>2. CASE i > Len(p)
    <3>1. i - Len(p) \in DOMAIN q /\ (p \o q)[i] = q[i - Len(p)]
      BY <1>1, <2>2
    <3> QED
      BY <3>1 DEF ToSet
  <2> QED
    BY <1>1, <2>1, <2>2
<1>3. \A i \in 1..Len(p) : p[i] \in ToSet(p \o q)
  BY <1>1 DEF ToSet
<1>4. \A i \in 1..Len(q) : q[i] \in ToSet(p \o q)
  <2> TAKE i \in 1..Len(q)
  <2>1. i + Len(p) \in DOMAIN (p \o q) /\ (p \o q)[i + Len(p)] = q[i]
    BY <1>1
  <2> QED
    BY <2>1 DEF ToSet
<1>5. \A x \in ToSet(p \o q) : x \in ToSet(p) \cup ToSet(q)
  BY <1>1, <1>2 DEF ToSet
<1>6. \A x \in ToSet(p) \cup ToSet(q) : x \in ToSet(p \o q)
  BY <1>1, <1>3, <1>4 DEF ToSet
<1> QED
  BY <1>1, <1>5, <1>6

\* The dates of a task behind its blocker.
LEMMA ShiftedDates ==
  \A a, t, D, d : d = Shifted(<<a, t>>, D) =>
    /\ d.start = D[a].end + lag[<<a, t>>]
    /\ d.end = D[a].end + lag[<<a, t>>] + (D[t].end - D[t].start)
BY DEF Shifted, Duration

LEMMA ShiftedRow ==
  ASSUME NEW a, NEW t, NEW D, lag[<<a, t>>] \in Int,
         D[a].end \in Int, D[t].start \in Int, D[t].end \in Int
  PROVE  Shifted(<<a, t>>, D) \in DateRow
BY DEF Shifted, Duration, DateRow

LEMMA AtMostOne ==
  ASSUME NEW S, \A x, y \in S : x = y
  PROVE  IsFiniteSet(S) /\ Cardinality(S) <= 1
<1>1. CASE S = {}
  BY <1>1, FS_EmptySet
<1>2. CASE S # {}
  <2>1. PICK x \in S : S = {x}
    BY <1>2
  <2>2. IsFiniteSet({x}) /\ Cardinality({x}) = 1
    BY FS_Singleton
  <2> QED
    BY <2>1, <2>2
<1> QED
  BY <1>1, <1>2

LEMMA CascadeInit == Init => CascadeInv
<1> SUFFICES ASSUME Init
             PROVE  CascadeInv
  OBVIOUS
<1>1. PICK p \in Plans : dates = p.dates /\ lag = p.lag
  BY DEF Init
<1>2. \A t \in Task : baseline[t] = NoDates
  BY DEF Init
<1>3. PlanType
  BY <1>1, PlansAssumption
     DEF Init, PlanType, Shape, CascadeType, Resting, DateRow, NoDates, Edges
<1>4. Conflicts(baseline) = {}
  BY <1>2, <1>3 DEF Conflicts, InConflict, PlanType, NoDates
<1>5. \A r \in Request : req[r].op = "none"
  BY DEF Init, Resting
<1>6. clean => Conflicts(dates) = {}
  BY DEF Init
<1> QED
  BY <1>3, <1>4, <1>5, <1>6 DEF CascadeInv, CleanPlan, Settling

\* One turn: what the head of the queue pushes is visited again, and nothing else is left
\* in conflict by it.
LEMMA TurnKeeps ==
  ASSUME PlanType, NEW h, Shape(h), CascadeType(h), Settling(h), h.op = "reschedule",
         h.pc = "propagate", h.queue # <<>>, NEW next \in Requeued(h, Pushed(h)), NEW g,
         g = [h EXCEPT !.guard = @ + 1,
                       !.dates = [t \in Task |->
                         IF t \in Pushed(h) THEN Shifted(<<Head(h.queue), t>>, h.dates) ELSE @[t]],
                       !.changed = @ \cup Pushed(h),
                       !.queue = Tail(@) \o next]
  PROVE  Shape(g) /\ CascadeType(g) /\ Settling(g)
<1> DEFINE a == Head(h.queue)
           pushed == Pushed(h)
<1>1. /\ h.dates \in [Task -> DateRow] /\ h.task \in Task /\ h.queue \in Seq(Task)
      /\ h.changed \in SUBSET Task /\ ToSet(h.queue) \subseteq Moved(h)
  BY DEF CascadeType
<1>2. /\ g.op = "reschedule" /\ g.pc = "propagate" /\ g.task = h.task /\ g.cut = h.cut
      /\ g.stale = h.stale /\ g.changed = h.changed \cup pushed
      /\ g.queue = Tail(h.queue) \o next
      /\ g.dates = [t \in Task |-> IF t \in pushed THEN Shifted(<<a, t>>, h.dates) ELSE h.dates[t]]
      /\ Shape(g)
  BY DEF Shape
<1>3. pushed \in SUBSET Task /\ IsFiniteSet(pushed)
  BY TaskAssumption, FS_Subset DEF Pushed
<1>4. next \in Seq(Task) /\ ToSet(next) = pushed
  <2>1. next \in Seq(pushed) /\ ToSet(next) = pushed
    BY <1>3, ListingOfAll DEF Requeued
  <2> QED
    BY <1>3, <2>1
<1>5. a \in Task /\ a \in ToSet(h.queue) /\ a \in Moved(h)
  BY <1>1, HeadAndTail
<1>6. /\ g.queue \in Seq(Task)
      /\ ToSet(g.queue) = ToSet(Tail(h.queue)) \cup pushed
      /\ ToSet(h.queue) = {a} \cup ToSet(Tail(h.queue))
  <2>1. ToSet(h.queue) = {a} \cup ToSet(Tail(h.queue)) /\ Tail(h.queue) \in Seq(Task)
    BY <1>1, HeadAndTail
  <2>2. g.queue \in Seq(Task) /\ ToSet(g.queue) = ToSet(Tail(h.queue)) \cup ToSet(next)
    <3>1. \A p, q \in Seq(Task) : p \o q \in Seq(Task) /\ ToSet(p \o q) = ToSet(p) \cup ToSet(q)
      BY JoinedElements
    <3> QED
      BY <1>2, <1>4, <2>1, <3>1
  <2> QED
    BY <1>4, <2>1, <2>2
<1>7. Moved(g) = Moved(h) \cup pushed
  BY <1>2 DEF Moved
\* The push itself.
<1>8. ASSUME NEW t \in pushed
      PROVE  /\ t \in Task
             /\ <<a, t>> \in Edges
             /\ lag[<<a, t>>] \in Int
             /\ h.dates[a].end \in Int
             /\ h.dates[t].start \in Int
             /\ h.dates[t].end \in Int
             /\ g.dates[t].start = h.dates[a].end + lag[<<a, t>>]
             /\ g.dates[t].start \in Int
             /\ g.dates[t].end \in Int
             /\ g.dates[t].start > h.dates[t].start
             /\ g.dates[t].end = g.dates[t].start + (h.dates[t].end - h.dates[t].start)
             /\ g.dates[t] \in DateRow
  <2>1. t \in Task /\ <<a, t>> \in Edges /\ InConflict(<<a, t>>, h.dates)
    BY <1>8 DEF Pushed
  <2>2. lag[<<a, t>>] \in Int
    BY <2>1 DEF PlanType
  <2>3. h.dates[a] \in DateRow /\ h.dates[t] \in DateRow
    BY <1>1, <1>5, <2>1
  <2>4. h.dates[a].end \in Int /\ h.dates[t].start \in Int /\ h.dates[t].end \in Int
    BY <2>1, <2>3 DEF InConflict, Planned, DateRow
  <2>5. g.dates[t] = Shifted(<<a, t>>, h.dates)
    BY <1>2, <1>8, <2>1
  <2>6. /\ g.dates[t].start = h.dates[a].end + lag[<<a, t>>]
        /\ g.dates[t].end = h.dates[a].end + lag[<<a, t>>] + (h.dates[t].end - h.dates[t].start)
    <3> HIDE DEF a
    <3>1. g.dates[t].start = h.dates[a].end + lag[<<a, t>>]
      BY <2>5, ShiftedDates
    <3>2. g.dates[t].end = h.dates[a].end + lag[<<a, t>>] + (h.dates[t].end - h.dates[t].start)
      BY <2>5, ShiftedDates
    <3> QED
      BY <3>1, <3>2
  <2>7. g.dates[t].start \in Int /\ g.dates[t].end \in Int
    BY <2>2, <2>4, <2>6
  <2>8. h.dates[t].start < h.dates[a].end + lag[<<a, t>>]
    BY <2>1 DEF InConflict
  <2>9. g.dates[t] \in DateRow
    BY <2>2, <2>4, <2>5, ShiftedRow
  <2>10. /\ g.dates[t].start > h.dates[t].start
         /\ g.dates[t].end = g.dates[t].start + (h.dates[t].end - h.dates[t].start)
    BY <2>2, <2>4, <2>6, <2>8
  <2> QED
    BY <2>1, <2>2, <2>4, <2>6, <2>7, <2>9, <2>10
<1>9. \A t \in Task \ pushed : g.dates[t] = h.dates[t]
  BY <1>2
<1>10. g.dates \in [Task -> DateRow]
  <2>1. \A t \in Task : g.dates[t] \in DateRow
    BY <1>1, <1>8, <1>9
  <2>2. g.dates = [t \in Task |-> g.dates[t]]
    BY <1>2
  <2> QED
    BY <2>1, <2>2
<1>11. CascadeType(g)
  BY <1>1, <1>2, <1>3, <1>6, <1>7, <1>10 DEF CascadeType
\* The end of a task that moved only grows.
<1>12. ASSUME NEW b \in Task, h.dates[b].end # Null
       PROVE  h.dates[b].end \in Int /\ g.dates[b].end \in Int /\ g.dates[b].end >= h.dates[b].end
  <2>1. h.dates[b].end \in Int
    BY <1>1, <1>12 DEF DateRow
  <2>2. CASE b \in pushed
    <3>1. /\ h.dates[b].start \in Int
          /\ g.dates[b].start \in Int
          /\ g.dates[b].end \in Int
          /\ g.dates[b].start > h.dates[b].start
          /\ g.dates[b].end = g.dates[b].start + (h.dates[b].end - h.dates[b].start)
      BY <1>8, <2>2
    <3> QED
      BY <2>1, <3>1
  <2>3. CASE b \notin pushed
    BY <1>9, <2>1, <2>3
  <2> QED
    BY <2>1, <2>2, <2>3
<1>13. ASSUME ~h.stale
       PROVE  Settling(g)
  <2>1. \A t \in Task \ Moved(g) : g.dates[t] = dates[t]
    BY <1>7, <1>9, <1>13 DEF Settling
  <2>2. ASSUME NEW t \in g.changed \ {g.task}
        PROVE  PushedBy(t, g)
    <3>1. t \in Task /\ t # h.task /\ t \in h.changed \cup pushed /\ dates[t] \in DateRow
      BY <1>1, <1>2, <1>3, <2>2 DEF PlanType
    <3>2. CASE t \in pushed
      <4>1. /\ Planned(dates[t])
            /\ h.dates[t].start >= dates[t].start
            /\ Duration(h.dates[t]) = Duration(dates[t])
        <5>1. CASE t \in h.changed
          <6>1. PushedBy(t, h)
            BY <1>13, <3>1, <5>1 DEF Settling
          <6>2. h.dates[t].start \in Int
            BY <1>8, <3>2
          <6>3. /\ Planned(dates[t])
                /\ h.dates[t].start > dates[t].start
                /\ Duration(h.dates[t]) = Duration(dates[t])
            BY <6>1 DEF PushedBy
          <6>4. dates[t].start \in Int
            BY <3>1, <6>3 DEF Planned, DateRow
          <6> QED
            BY <6>2, <6>3, <6>4
        <5>2. CASE t \notin h.changed
          <6>1. h.dates[t] = dates[t]
            BY <1>13, <3>1, <5>2 DEF Settling, Moved
          <6>2. h.dates[t].start \in Int /\ h.dates[t].end \in Int
            BY <1>8, <3>2
          <6> QED
            BY <6>1, <6>2, NullIsNoDay DEF Planned
        <5> QED
          BY <5>1, <5>2
      <4>2. dates[t].start \in Int /\ dates[t].end \in Int
        BY <3>1, <4>1 DEF Planned, DateRow
      <4>3. /\ <<a, t>> \in Edges
            /\ lag[<<a, t>>] \in Int
            /\ g.dates[t].start = h.dates[a].end + lag[<<a, t>>]
            /\ h.dates[a].end \in Int
        BY <1>8, <3>2
      <4>4. g.dates[a].end \in Int /\ g.dates[t].start <= g.dates[a].end + lag[<<a, t>>]
        BY <1>5, <1>12, <4>3, NullIsNoDay
      <4>5. Planned(g.dates[t]) /\ g.dates[a].end # Null
        BY <1>8, <3>2, <4>4, NullIsNoDay DEF Planned
      <4>6. g.dates[t].start > dates[t].start /\ Duration(g.dates[t]) = Duration(dates[t])
        <5>1. /\ h.dates[t].start \in Int /\ h.dates[t].end \in Int
              /\ g.dates[t].start \in Int /\ g.dates[t].start > h.dates[t].start
              /\ g.dates[t].end = g.dates[t].start + (h.dates[t].end - h.dates[t].start)
          BY <1>8, <3>2
        <5>2. Duration(g.dates[t]) = Duration(h.dates[t])
          BY <5>1 DEF Duration
        <5> QED
          BY <4>1, <4>2, <5>1, <5>2
      <4> QED
        BY <1>5, <1>7, <4>1, <4>3, <4>4, <4>5, <4>6 DEF PushedBy
    <3>3. CASE t \notin pushed
      <4>1. PushedBy(t, h) /\ g.dates[t] = h.dates[t]
        BY <1>9, <1>13, <3>1, <3>3 DEF Settling
      <4>2. PICK b \in Moved(h) : /\ <<b, t>> \in Edges
                                  /\ h.dates[b].end # Null
                                  /\ h.dates[t].start <= h.dates[b].end + lag[<<b, t>>]
        BY <4>1 DEF PushedBy
      <4>3. b \in Task /\ lag[<<b, t>>] \in Int /\ h.dates[t].start \in Int
        BY <1>1, <3>1, <4>1, <4>2 DEF Moved, PlanType, PushedBy, Planned, DateRow
      <4>4. g.dates[b].end # Null /\ g.dates[t].start <= g.dates[b].end + lag[<<b, t>>]
        BY <1>12, <4>1, <4>2, <4>3, NullIsNoDay
      <4> QED
        BY <1>7, <4>1, <4>2, <4>4 DEF PushedBy
    <3> QED
      BY <3>1, <3>2, <3>3
  <2>3. ASSUME ~g.cut, NEW e \in Conflicts(g.dates)
        PROVE  Excused(e, g)
    <3>1. PICK x \in Task, y \in Task : e = <<x, y>> /\ e \in Edges
      BY <2>3 DEF Conflicts, PlanType
    <3>2. /\ g.dates[x].end # Null
          /\ Planned(g.dates[y])
          /\ g.dates[y].start < g.dates[x].end + lag[e]
          /\ lag[e] \in Int
      BY <2>3, <3>1 DEF Conflicts, InConflict, PlanType
    <3>3. CASE x \in pushed
      BY <1>6, <3>1, <3>3 DEF Excused
    <3>4. CASE x \notin pushed
      <4>1. g.dates[x] = h.dates[x]
        BY <1>9, <3>4
      <4>2. x # a
        <5>1. ASSUME x = a, y \in pushed
              PROVE  FALSE
          <6>1. g.dates[y].start = h.dates[a].end + lag[<<a, y>>] /\ g.dates[y].start \in Int
            BY <1>8, <5>1
          <6> QED
            BY <3>1, <3>2, <4>1, <5>1, <6>1
        <5>2. ASSUME x = a, y \notin pushed
              PROVE  FALSE
          BY <1>9, <3>1, <3>2, <4>1, <5>2 DEF Pushed, InConflict
        <5> QED
          BY <5>1, <5>2
      <4>3. e \in Conflicts(h.dates)
        <5>1. CASE y \in pushed
          <6>1. /\ h.dates[y].start \in Int
                /\ h.dates[y].end \in Int
                /\ g.dates[y].start > h.dates[y].start
                /\ g.dates[y].start \in Int
            BY <1>8, <5>1
          <6>2. h.dates[x].end \in Int
            BY <1>12, <3>2, <4>1
          <6>3. h.dates[y].start < h.dates[x].end + lag[e]
            BY <3>2, <4>1, <6>1, <6>2
          <6>4. Planned(h.dates[y])
            BY <6>1, NullIsNoDay DEF Planned
          <6> QED
            BY <3>1, <3>2, <4>1, <6>3, <6>4 DEF Conflicts, InConflict
        <5>2. CASE y \notin pushed
          BY <1>9, <3>1, <3>2, <4>1, <5>2 DEF Conflicts, InConflict
        <5> QED
          BY <5>1, <5>2
      <4>4. Excused(e, h)
        BY <1>2, <1>13, <2>3, <4>3 DEF Settling
      <4> QED
        BY <1>2, <1>6, <1>7, <3>1, <3>4, <4>2, <4>4 DEF Excused
    <3> QED
      BY <3>3, <3>4
  <2> QED
    BY <1>2, <2>1, <2>2, <2>3 DEF Settling
<1> QED
  BY <1>2, <1>11, <1>13 DEF Settling

WellBegun(h) ==
  /\ Shape(h) /\ CascadeType(h) /\ Settling(h)
  /\ h.op = "baseline" /\ clean => Conflicts(h.dates) = {}

LEMMA RestingBegun == WellBegun(Resting)
BY DEF WellBegun, Shape, CascadeType, Settling, Resting

\* A step that leaves the tables alone and puts one handler in its slot.
LEMMA SlotKeeps ==
  ASSUME CascadeInv, NEW r \in Request, NEW h, WellBegun(h),
         UNCHANGED <<dates, lag, baseline, clean>>, req' = [req EXCEPT ![r] = h]
  PROVE  CascadeInv'
<1>1. req' = [q \in Request |-> req'[q]] /\ \A q \in Request : req'[q] \in {h, req[q]}
  BY DEF CascadeInv, PlanType
<1>2. \A q \in Request : Shape(req'[q]) /\ CascadeType(req'[q])
  BY <1>1 DEF WellBegun, CascadeInv, PlanType
<1>3. PlanType'
  BY <1>1, <1>2 DEF CascadeInv, PlanType, Edges, Shape, CascadeType, Moved
<1>4. \A D : Conflicts(D)' = Conflicts(D)
  BY DEF Conflicts, InConflict, Edges
<1>5. \A q \in Request : Settling(req'[q])
  BY <1>1 DEF WellBegun, CascadeInv
<1>6. \A q \in Request : Settling(req[q])'
  BY <1>4, <1>5 DEF Settling, PushedBy, Excused, Edges, Moved
<1>7. CleanPlan'
  BY <1>1, <1>4 DEF CascadeInv, CleanPlan, WellBegun
<1> QED
  BY <1>3, <1>6, <1>7 DEF CascadeInv

LEMMA StaleShape ==
  ASSUME NEW h, Shape(h), CascadeType(h), NEW g, g = [h EXCEPT !.stale = TRUE]
  PROVE  Shape(g) /\ CascadeType(g) /\ g.stale /\ g.op = h.op /\ g.dates = h.dates
BY DEF Shape, CascadeType, Moved

LEMMA CascadeStep == CascadeInv /\ [Next]_vars => CascadeInv'
<1> SUFFICES ASSUME CascadeInv, [Next]_vars
             PROVE  CascadeInv'
  OBVIOUS
<1>1. CASE UNCHANGED vars
  <2>1. UNCHANGED <<dates, lag, baseline, clean, req>>
    BY <1>1 DEF vars
  <2>2. \A D : Conflicts(D)' = Conflicts(D)
    BY <2>1 DEF Conflicts, InConflict, Edges
  <2>3. PlanType'
    BY <2>1 DEF CascadeInv, PlanType, Edges, Shape, CascadeType, Moved
  <2>4. \A q \in Request : Settling(req[q])'
    BY <2>1, <2>2 DEF CascadeInv, Settling, PushedBy, Excused, Edges, Moved
  <2> QED
    BY <2>1, <2>2, <2>3, <2>4 DEF CascadeInv, CleanPlan
<1>2. ASSUME NEW r \in Request, BeginRescheduleTask(r)
      PROVE  CascadeInv'
  <2>1. PICK t \in Task, s \in Day, e \in Day :
               req' = [req EXCEPT ![r] = [Resting EXCEPT
                         !.op = "reschedule", !.pc = "propagate", !.task = t,
                         !.dates = [dates EXCEPT ![t] = [start |-> s, end |-> e]],
                         !.queue = <<t>>]]
    BY <1>2 DEF BeginRescheduleTask, Accept
  <2>2. PICK D : D = [dates EXCEPT ![t] = [start |-> s, end |-> e]]
    OBVIOUS
  <2>3. PICK h : h = [Resting EXCEPT !.op = "reschedule", !.pc = "propagate", !.task = t,
                                     !.dates = D, !.queue = <<t>>]
    OBVIOUS
  <2>4. /\ D \in [Task -> DateRow]
        /\ \A x \in Task \ {t} : D[x] = dates[x]
    BY <2>2, DayAssumption DEF CascadeInv, PlanType, DateRow
  <2>5. /\ Shape(h) /\ h.op = "reschedule" /\ h.pc = "propagate" /\ h.task = t /\ h.dates = D
        /\ h.queue = <<t>> /\ h.changed = {} /\ h.cut = FALSE
    BY <2>3 DEF Shape, Resting
  <2>6. h.queue \in Seq(Task) /\ ToSet(h.queue) = {t} /\ Moved(h) = {t}
    BY <2>5 DEF ToSet, Moved
  <2>7. CascadeType(h)
    BY <2>4, <2>5, <2>6 DEF CascadeType
  <2>8. ASSUME NEW e1 \in Conflicts(h.dates)
        PROVE  Excused(e1, h)
    <3>1. e1 \in Edges /\ InConflict(e1, D) /\ e1[1] \in Task /\ e1[2] \in Task
      BY <2>5, <2>8 DEF Conflicts, CascadeInv, PlanType
    <3>2. CASE e1[1] = t
      BY <2>6, <3>2 DEF Excused
    <3>3. CASE e1[1] # t /\ e1[2] = t
      BY <2>5, <3>3 DEF Excused
    <3>4. CASE e1[1] # t /\ e1[2] # t
      BY <2>4, <2>6, <3>1, <3>4 DEF Excused, Conflicts, InConflict
    <3> QED
      BY <3>2, <3>3, <3>4
  <2>9. WellBegun(h)
    BY <2>4, <2>5, <2>6, <2>7, <2>8 DEF WellBegun, Settling
  <2> QED
    BY <1>2, <2>1, <2>2, <2>3, <2>9, SlotKeeps DEF BeginRescheduleTask, rows
<1>3. ASSUME NEW r \in Request, Propagate(r)
      PROVE  CascadeInv'
  <2>1. PICK h : h = req[r]
    OBVIOUS
  <2>2. /\ Shape(h) /\ CascadeType(h) /\ Settling(h) /\ h.op = "reschedule"
        /\ h.pc = "propagate" /\ h.queue # <<>>
    BY <1>3, <2>1 DEF Propagate, At, CascadeInv, PlanType
  <2>3. PICK next \in Requeued(h, Pushed(h)) :
          req' = [req EXCEPT ![r] =
            [h EXCEPT !.guard = @ + 1,
                      !.dates = [t \in Task |->
                        IF t \in Pushed(h) THEN Shifted(<<Head(h.queue), t>>, h.dates) ELSE @[t]],
                      !.changed = @ \cup Pushed(h),
                      !.queue = Tail(@) \o next]]
    BY <1>3, <2>1 DEF Propagate
  <2>4. PICK g : g = [h EXCEPT !.guard = @ + 1,
                      !.dates = [t \in Task |->
                        IF t \in Pushed(h) THEN Shifted(<<Head(h.queue), t>>, h.dates) ELSE @[t]],
                      !.changed = @ \cup Pushed(h),
                      !.queue = Tail(@) \o next]
    OBVIOUS
  <2>5. Shape(g) /\ CascadeType(g) /\ Settling(g)
    BY <2>2, <2>4, TurnKeeps DEF CascadeInv
  <2>6. g.op = "reschedule"
    BY <2>2, <2>4 DEF Shape
  <2> QED
    BY <1>3, <2>3, <2>4, <2>5, <2>6, SlotKeeps DEF Propagate, rows, WellBegun
<1>4. ASSUME NEW r \in Request, PropagateEnds(r)
      PROVE  CascadeInv'
  <2>1. PICK h : h = req[r]
    OBVIOUS
  <2>2. /\ Shape(h) /\ CascadeType(h) /\ Settling(h) /\ h.op = "reschedule"
        /\ h.pc = "propagate"
    BY <1>4, <2>1 DEF PropagateEnds, At, CascadeInv, PlanType
  <2>3. PICK b : b = (h.queue # <<>>)
    OBVIOUS
  <2>4. PICK g : g = [h EXCEPT !.pc = "commit", !.queue = <<>>, !.cut = b]
    OBVIOUS
  <2>5. req' = [req EXCEPT ![r] = g]
    BY <1>4, <2>1, <2>3, <2>4, Zenon DEF PropagateEnds
  <2>6. /\ Shape(g) /\ g.op = "reschedule" /\ g.pc = "commit" /\ g.task = h.task
        /\ g.dates = h.dates /\ g.queue = <<>> /\ g.changed = h.changed
        /\ g.stale = h.stale /\ g.cut = b
    BY <2>2, <2>4 DEF Shape
  <2>7. ToSet(<<>>) = {} /\ Moved(g) = Moved(h)
    BY <2>6 DEF ToSet, Moved
  <2>8. CascadeType(g)
    BY <2>2, <2>6, <2>7 DEF CascadeType
  <2>9. ASSUME ~b
        PROVE  h.queue = <<>>
    BY <2>3, <2>9
  <2>10. Settling(g)
    <3>1. ASSUME ~h.stale, ~g.cut, NEW e \in Conflicts(g.dates)
          PROVE  Excused(e, g)
      <4>1. h.queue = <<>> /\ Conflicts(g.dates) = Conflicts(h.dates)
        BY <2>6, <2>9, <3>1
      <4>2. ~h.cut
        BY <2>2, <3>1 DEF Settling
      <4>3. Excused(e, h)
        BY <2>2, <3>1, <4>1, <4>2 DEF Settling
      <4> QED
        BY <2>6, <2>7, <4>1, <4>3 DEF Excused
    <3>2. ASSUME ~h.stale, NEW t \in h.changed \ {h.task}
          PROVE  PushedBy(t, g)
      BY <2>2, <2>6, <2>7, <3>2 DEF Settling, PushedBy
    <3> QED
      BY <2>2, <2>6, <2>7, <3>1, <3>2 DEF Settling
  <2> QED
    BY <1>4, <2>5, <2>6, <2>8, <2>10, SlotKeeps DEF PropagateEnds, rows, WellBegun
<1>5. ASSUME NEW r \in Request, RescheduleTask(r)
      PROVE  CascadeInv'
  <2>1. PICK h : h = req[r]
    OBVIOUS
  <2>2. /\ Shape(h) /\ CascadeType(h) /\ h.op = "reschedule"
    BY <1>5, <2>1 DEF RescheduleTask, At, CascadeInv, PlanType
  <2>3. /\ dates' = [t \in Task |-> IF t \in Moved(h) THEN h.dates[t] ELSE dates[t]]
        /\ clean' = (clean /\ Conflicts(dates') = {})
        /\ UNCHANGED <<baseline, lag>>
    BY <1>5, <2>1 DEF RescheduleTask
  <2>4. req' = [q \in Request |->
                 IF q = r \/ req[q] = Resting THEN Resting ELSE [req[q] EXCEPT !.stale = TRUE]]
    BY <1>5 DEF RescheduleTask, Commit
  <2>5. dates' \in [Task -> DateRow]
    BY <2>2, <2>3 DEF CascadeInv, PlanType, CascadeType
  <2>6. ASSUME NEW q \in Request
        PROVE  /\ Shape(req'[q]) /\ CascadeType(req'[q])
               /\ req'[q].op = "none" \/ req'[q].stale
               /\ req'[q].op = "baseline" => req[q].op = "baseline" /\ req'[q].dates = req[q].dates
    <3>1. PICK g : g = [req[q] EXCEPT !.stale = TRUE]
      OBVIOUS
    <3>2. req'[q] \in {Resting, g}
      BY <2>4, <3>1
    <3>3. Shape(g) /\ CascadeType(g) /\ g.stale /\ g.op = req[q].op /\ g.dates = req[q].dates
      BY <3>1, StaleShape DEF CascadeInv, PlanType
    <3>4. Shape(Resting) /\ CascadeType(Resting) /\ Resting.op = "none"
      BY RestingBegun DEF WellBegun, Resting
    <3> QED
      BY <3>2, <3>3, <3>4
  <2>7. clean' \in BOOLEAN
    BY <2>3 DEF CascadeInv, PlanType
  <2>8. PlanType'
    <3>1. req' = [q \in Request |-> req'[q]]
      BY <2>4
    <3>2. \A q \in Request : (Shape(req[q]) /\ CascadeType(req[q]))'
      BY <2>6 DEF Shape, CascadeType, Moved
    <3> QED
      BY <2>3, <2>5, <2>7, <3>1, <3>2 DEF CascadeInv, PlanType, Edges
  <2>9. \A q \in Request : Settling(req[q])'
    BY <2>6 DEF Settling
  <2>10. \A D : Conflicts(D)' = Conflicts(D)
    BY <2>3 DEF Conflicts, InConflict, Edges
  <2>11. CleanPlan'
    <3>1. ASSUME clean'
          PROVE  clean /\ Conflicts(dates)' = {}
      BY <2>3, <3>1 DEF Conflicts, InConflict, Edges
    <3> QED
      BY <2>3, <2>6, <2>10, <3>1 DEF CascadeInv, CleanPlan
  <2> QED
    BY <2>8, <2>9, <2>11 DEF CascadeInv
<1>6. ASSUME NEW r \in Request, BeginSetBaseline(r)
      PROVE  CascadeInv'
  <2>1. PICK h : h = [Resting EXCEPT !.op = "baseline", !.pc = "commit", !.dates = dates]
    OBVIOUS
  <2>2. req' = [req EXCEPT ![r] = h] /\ UNCHANGED <<dates, lag, baseline, clean>>
    BY <1>6, <2>1 DEF BeginSetBaseline, Accept, rows
  <2>3. Shape(h) /\ h.op = "baseline" /\ h.dates = dates
    BY <2>1 DEF Shape, Resting
  <2> QED
    BY <2>2, <2>3, SlotKeeps
       DEF WellBegun, CascadeType, Settling, CascadeInv, PlanType, CleanPlan
<1>7. ASSUME NEW r \in Request, SetBaseline(r)
      PROVE  CascadeInv'
  <2>1. PICK D : D = req[r].dates
    OBVIOUS
  <2>2. /\ baseline' = [t \in Task |-> Reference(D, t)]
        /\ clean' = (clean /\ \A t \in Task : Planned(D[t]) \/ baseline[t] = NoDates)
        /\ req' = [req EXCEPT ![r] = Resting]
        /\ UNCHANGED <<dates, lag>>
    BY <1>7, <2>1 DEF SetBaseline, Finish
  <2>3. D \in [Task -> DateRow] /\ req[r].op = "baseline"
    BY <1>7, <2>1 DEF SetBaseline, At, CascadeInv, PlanType, CascadeType
  <2>4. baseline' \in [Task -> DateRow]
    BY <2>2, <2>3 DEF Reference, CascadeInv, PlanType
  <2>5. \A q \in Request : req'[q] \in {Resting, req[q]}
    BY <2>2 DEF CascadeInv, PlanType
  <2>6. PlanType'
    <3>1. req' = [q \in Request |-> req'[q]]
      BY <2>2 DEF CascadeInv, PlanType
    <3>2. \A q \in Request : Shape(req'[q]) /\ CascadeType(req'[q])
      BY <2>5, RestingBegun DEF WellBegun, CascadeInv, PlanType
    <3>3. clean' \in BOOLEAN
      BY <2>2 DEF CascadeInv, PlanType
    <3> QED
      BY <2>2, <2>4, <3>1, <3>2, <3>3
         DEF CascadeInv, PlanType, Edges, Shape, CascadeType, Moved
  <2>7. \A E : Conflicts(E)' = Conflicts(E)
    BY <2>2 DEF Conflicts, InConflict, Edges
  <2>8. \A q \in Request : Settling(req'[q])
    BY <2>5, RestingBegun DEF WellBegun, CascadeInv
  <2>9. \A q \in Request : Settling(req[q])'
    <3>1. UNCHANGED <<dates, lag>>
      BY <2>2
    <3> QED
      BY <2>7, <2>8, <3>1 DEF Settling, PushedBy, Excused, Edges, Moved
  <2>10. ASSUME clean'
         PROVE  Conflicts(baseline') = {}
    <3>1. /\ clean
          /\ \A t \in Task : Planned(D[t]) \/ baseline[t] = NoDates
          /\ Conflicts(D) = {}
      BY <2>1, <2>2, <2>3, <2>10 DEF CascadeInv, CleanPlan
    <3>2. \A t \in Task : \/ Planned(D[t]) /\ baseline'[t] = D[t]
                          \/ baseline'[t] = NoDates
      BY <2>2, <3>1 DEF Reference
    <3>3. \A t \in Task : baseline'[t].end # Null => baseline'[t] = D[t]
      BY <3>2 DEF NoDates
    <3>4. ASSUME NEW e \in Conflicts(baseline')
          PROVE  FALSE
      <4>1. /\ e \in Edges /\ e[1] \in Task /\ e[2] \in Task
            /\ InConflict(e, baseline')
        BY <3>4 DEF Conflicts, CascadeInv, PlanType
      <4>2. baseline'[e[1]] = D[e[1]] /\ baseline'[e[2]] = D[e[2]]
        BY <3>3, <4>1 DEF InConflict, Planned
      <4> QED
        BY <3>1, <4>1, <4>2 DEF Conflicts, InConflict
    <3> QED
      BY <3>4
  <2>11. CleanPlan'
    <3>1. clean' => clean
      BY <2>2
    <3>2. ASSUME clean'
          PROVE  Conflicts(baseline)' = {}
      BY <2>2, <2>10, <3>2 DEF Conflicts, InConflict, Edges
    <3>3. Resting.op = "none"
      BY DEF Resting
    <3>4. UNCHANGED dates
      BY <2>2
    <3>5. clean' => Conflicts(dates)' = {}
      BY <2>7, <3>1, <3>4 DEF CascadeInv, CleanPlan
    <3>6. ASSUME clean', NEW q \in Request, req'[q].op = "baseline"
          PROVE  Conflicts(req[q].dates)' = {}
      <4>1. req'[q] = req[q]
        BY <2>5, <3>3, <3>6
      <4>2. Conflicts(req[q].dates) = {}
        BY <3>1, <3>6, <4>1 DEF CascadeInv, CleanPlan
      <4> QED
        BY <2>2, <4>1, <4>2 DEF Conflicts, InConflict, Edges
    <3> QED
      BY <3>2, <3>5, <3>6 DEF CleanPlan
  <2> QED
    BY <2>6, <2>9, <2>11 DEF CascadeInv
<1>8. ASSUME NEW r \in Request, BeginGetPertData(r)
      PROVE  CascadeInv'
  <2>1. PICK l, t, p : req' = [req EXCEPT ![r] = [Resting EXCEPT
                         !.op = "pert", !.pc = "walk", !.listing = l, !.task = t, !.prev = p]]
    BY <1>8, Zenon DEF BeginGetPertData, Accept
  <2>2. PICK h : h = [Resting EXCEPT
                         !.op = "pert", !.pc = "walk", !.listing = l, !.task = t, !.prev = p]
    OBVIOUS
  <2>3. WellBegun(h)
    BY <2>2 DEF WellBegun, Shape, CascadeType, Settling, Resting
  <2> QED
    BY <1>8, <2>1, <2>2, <2>3, SlotKeeps DEF BeginGetPertData, rows
<1>9. ASSUME NEW r \in Request, WalkBack(r)
      PROVE  CascadeInv'
  <2>1. PICK h : h = req[r]
    OBVIOUS
  <2>2. PICK g : g = [h EXCEPT !.queue = <<h.task>> \o @, !.task = h.prev[h.task]]
    OBVIOUS
  <2>3. Shape(h) /\ h.op = "pert"
    BY <1>9, <2>1 DEF WalkBack, At, CascadeInv, PlanType
  <2>4. req' = [req EXCEPT ![r] = g]
    BY <1>9, <2>1, <2>2 DEF WalkBack
  <2>5. WellBegun(g)
    BY <2>2, <2>3 DEF WellBegun, Shape, CascadeType, Settling
  <2> QED
    BY <1>9, <2>4, <2>5, SlotKeeps DEF WalkBack, rows
<1>10. ASSUME NEW r \in Request, GetPertData(r) \/ Abort(r)
       PROVE  CascadeInv'
  BY <1>10, RestingBegun, SlotKeeps DEF GetPertData, Abort, Finish, rows
<1> QED
  BY <1>1, <1>2, <1>3, <1>4, <1>5, <1>6, <1>7, <1>8, <1>9, <1>10 DEF Next

LEMMA CascadeAlways == Spec => []CascadeInv
BY CascadeInit, CascadeStep, PTL DEF Spec

\* The step that commits a cascade.
LEMMA CommitStep ==
  ASSUME CascadeInv, [Next]_vars, NEW r \in Request, Commits(r)
  PROVE  RescheduleTask(r)
<1>1. req[r].op = "reschedule" /\ req[r].pc = "commit" /\ req'[r] = Resting /\ dates' # dates
  BY DEF Commits, At
<1>2. \A q \in Request : RescheduleTask(q) => q = r
  <2> SUFFICES ASSUME NEW q \in Request, RescheduleTask(q), q # r
               PROVE  FALSE
    OBVIOUS
  <2>1. req[r] # Resting
    BY <1>1 DEF Resting
  <2>2. PICK g : g = [req[r] EXCEPT !.stale = TRUE]
    OBVIOUS
  <2>3. req'[r] = g
    BY <2>1, <2>2 DEF RescheduleTask, Commit
  <2>4. g.op = "reschedule"
    BY <1>1, <2>2, StaleShape DEF CascadeInv, PlanType
  <2> QED
    BY <1>1, <2>3, <2>4 DEF Resting
<1>3. \A q \in Request : ~ (\/ BeginRescheduleTask(q) \/ Propagate(q) \/ PropagateEnds(q)
                           \/ BeginSetBaseline(q) \/ SetBaseline(q) \/ BeginGetPertData(q)
                           \/ WalkBack(q) \/ GetPertData(q) \/ Abort(q))
  BY <1>1 DEF BeginRescheduleTask, Propagate, PropagateEnds, BeginSetBaseline, SetBaseline,
              BeginGetPertData, WalkBack, GetPertData, Abort, rows
<1>4. ~ UNCHANGED vars
  BY <1>1 DEF vars
<1> QED
  BY <1>2, <1>3, <1>4 DEF Next

\* A commit of a cascade that nothing overtook writes what the cascade holds.
LEMMA CommitWrites ==
  ASSUME CascadeInv, [Next]_vars, NEW r \in Request, Commits(r), ~req[r].stale
  PROVE  /\ CascadeType(req[r]) /\ Settling(req[r]) /\ req[r].op = "reschedule"
         /\ req[r].queue = <<>>
         /\ dates' = req[r].dates /\ lag' = lag
<1>1. RescheduleTask(r)
  BY CommitStep
<1>2. PICK h : h = req[r]
  OBVIOUS
<1>3. /\ CascadeType(h) /\ Settling(h) /\ h.op = "reschedule" /\ h.pc = "commit"
  BY <1>1, <1>2 DEF RescheduleTask, At, CascadeInv, PlanType
<1>4. /\ h.queue = <<>> /\ \A t \in Task \ Moved(h) : h.dates[t] = dates[t]
  BY <1>2, <1>3 DEF Settling
<1>5. dates' = [t \in Task |-> IF t \in Moved(h) THEN h.dates[t] ELSE dates[t]]
  BY <1>1, <1>2 DEF RescheduleTask
<1>6. h.dates = [t \in Task |-> h.dates[t]]
  BY <1>3 DEF CascadeType
<1>7. dates' = h.dates
  BY <1>4, <1>5, <1>6
<1> QED
  BY <1>1, <1>2, <1>3, <1>4, <1>7 DEF RescheduleTask

LEMMA ConflictsSettle ==
  ASSUME CascadeInv, [Next]_vars, NEW r \in Request, Commits(r), ~req[r].stale, ~req[r].cut,
         NEW e \in Conflicts(dates)'
  PROVE  \/ e \in Conflicts(dates) /\ e[1] \notin Moved(req[r])
         \/ e[2] = req[r].task /\ e[1] \notin req[r].changed
<1>1. /\ Settling(req[r]) /\ req[r].op = "reschedule" /\ req[r].queue = <<>>
      /\ dates' = req[r].dates /\ lag' = lag
  BY CommitWrites
<1>2. e \in Conflicts(req[r].dates)
  BY <1>1 DEF Conflicts, InConflict, Edges
<1>3. Excused(e, req[r])
  BY <1>1, <1>2 DEF Settling
<1>4. ToSet(<<>>) = {}
  BY DEF ToSet
<1> QED
  BY <1>1, <1>3, <1>4 DEF Excused

LEMMA PushesAreLeast ==
  ASSUME CascadeInv, [Next]_vars, NEW r \in Request, Commits(r), ~req[r].stale, ~req[r].cut,
         NEW t \in Task \ {req[r].task}, dates'[t] # dates[t]
  PROVE  /\ dates'[t].start > dates[t].start
         /\ Duration(dates'[t]) = Duration(dates[t])
         /\ \E e \in Edges : /\ e[2] = t
                             /\ dates'[e[1]].end # Null
                             /\ dates'[t].start = dates'[e[1]].end + lag[e]
<1>1. PICK h : h = req[r]
  OBVIOUS
<1>2. /\ CascadeType(h) /\ Settling(h) /\ h.op = "reschedule" /\ h.queue = <<>>
      /\ dates' = h.dates /\ ~h.cut /\ ~h.stale
  BY <1>1, CommitWrites
<1>3. h.dates \in [Task -> DateRow] /\ h.task \in Task /\ h.changed \in SUBSET Task
  BY <1>2 DEF CascadeType
<1>4. t \in h.changed \ {h.task}
  BY <1>1, <1>2 DEF Settling, Moved
<1>5. PushedBy(t, h)
  BY <1>2, <1>4 DEF Settling
<1>6. PICK b \in Moved(h) : /\ <<b, t>> \in Edges
                            /\ h.dates[b].end # Null
                            /\ h.dates[t].start <= h.dates[b].end + lag[<<b, t>>]
  BY <1>5 DEF PushedBy
<1>7. ~ Excused(<<b, t>>, h)
  <2>1. ToSet(<<>>) = {}
    BY DEF ToSet
  <2>2. b \notin ToSet(h.queue)
    BY <1>2, <2>1
  <2> QED
    BY <1>4, <1>6, <2>2 DEF Excused
<1>8. ~ InConflict(<<b, t>>, h.dates)
  BY <1>2, <1>6, <1>7 DEF Settling, Conflicts
<1>9. Planned(h.dates[t])
  BY <1>5 DEF PushedBy
<1>10. ~ (h.dates[t].start < h.dates[b].end + lag[<<b, t>>])
  BY <1>6, <1>8, <1>9 DEF InConflict
<1>11. /\ b \in Task /\ lag[<<b, t>>] \in Int
       /\ h.dates[b].end \in Int /\ h.dates[t].start \in Int
  BY <1>3, <1>6, <1>9 DEF Moved, CascadeInv, PlanType, DateRow, Planned
<1>12. h.dates[t].start = h.dates[b].end + lag[<<b, t>>]
  BY <1>6, <1>10, <1>11
<1>13. <<b, t>>[1] = b /\ <<b, t>>[2] = t
  OBVIOUS
<1> QED
  BY <1>2, <1>5, <1>6, <1>12, <1>13 DEF PushedBy

\* ScheduleService.rescheduleTask: a cascade solves every conflict but those it was told to
\* leave, and moves each task no further than one of its blockers asks.
THEOREM CascadeAlwaysSettles == Spec => CascadeSettles
<1>1. ASSUME CascadeInv, [Next]_vars
      PROVE  [\A r \in Request : Commits(r) /\ ~req[r].stale /\ ~req[r].cut =>
                \A e \in Conflicts(dates)' :
                  \/ e \in Conflicts(dates) /\ e[1] \notin Moved(req[r])
                  \/ e[2] = req[r].task /\ e[1] \notin req[r].changed]_vars
  BY <1>1, ConflictsSettle
<1>2. ASSUME CascadeInv, [Next]_vars
      PROVE  [\A r \in Request : Commits(r) /\ ~req[r].stale /\ ~req[r].cut =>
                \A t \in Task \ {req[r].task} : dates'[t] # dates[t] =>
                  /\ dates'[t].start > dates[t].start
                  /\ Duration(dates'[t]) = Duration(dates[t])
                  /\ \E e \in Edges : /\ e[2] = t
                                      /\ dates'[e[1]].end # Null
                                      /\ dates'[t].start = dates'[e[1]].end + lag[e]]_vars
  BY <1>2, PushesAreLeast
<1>3. Spec => NoNewConflict
  BY <1>1, CascadeAlways, PTL DEF Spec, NoNewConflict
<1>4. Spec => LeastPush
  BY <1>2, CascadeAlways, PTL DEF Spec, LeastPush
<1> QED
  BY <1>3, <1>4 DEF CascadeSettles

\* ScheduleService.setBaseline: as long as no commit leaves a conflict, the reference that is
\* kept of a plan has none.
THEOREM ReferencesHonourDependencies == Spec => []BaselineHonoursDependencies
<1>1. CascadeInv => BaselineHonoursDependencies
  BY DEF CascadeInv, CleanPlan, BaselineHonoursDependencies
<1> QED
  BY <1>1, CascadeAlways, PTL

-----------------------------------------------------------------------------
\* What the team sees of a person: rows that were not written over rows that had changed.
Counted(row) == row.row = "live" /\ row.status # "REJECTED" /\ ~row.rushed

\* Two periods share a day.
Meet(row, start, end) == row.start <= end /\ row.end >= start

Apart ==
  \A a, b \in Absence :
    a # b /\ Counted(absence[a]) /\ Counted(absence[b]) /\ absence[a].user = absence[b].user
    => ~Meet(absence[a], absence[b].start, absence[b].end)

Agreed(row) ==
  row.row = "live" /\ row.status = "APPROVED" /\ ~row.rushed => row.start..row.end = row.agreed

\* Whose rows a handler writes.
Writes(h) ==
  /\ h.pc = "insert" => h.for \in Applicant
  /\ h.pc \in {"update", "decision"} =>
       /\ h.absence \in Absence /\ absence[h.absence].row # "none"
       /\ absence[h.absence].row = "live" => absence[h.absence].user = h.for
  /\ h.pc = "decision" => h.verdict # "PENDING"

\* What a handler has read is still so, unless rows of that person changed.
Informed(h) ==
  ~h.stale =>
    /\ h.pc = "insert" => ~Absences!Conflict(h.for, {}, h.start, h.end)
    /\ h.pc = "update" /\ h.absence \in Absences!Live =>
         ~Absences!Conflict(h.for, {h.absence}, h.start, h.end)
    /\ h.pc = "decision" /\ h.verdict = "APPROVED" /\ h.absence \in Absences!Live =>
         h.start = absence[h.absence].start /\ h.end = absence[h.absence].end

AbsenceInv ==
  /\ Absences!TypeOK
  /\ Apart
  /\ \A a \in Absence : Agreed(absence[a])
  /\ \A r \in Request : Writes(absenceReq[r]) /\ Informed(absenceReq[r])

LEMMA AbsenceInit == Absences!Init => AbsenceInv
BY LastAwayAssumption
   DEF Absences!Init, AbsenceInv, Absences!TypeOK, Absences!AbsenceRow, Absences!NoAbsence,
       Absences!Handler, Absences!Resting, Absences!Op, Absences!Step, Absences!Status,
       Absences!Calendar, Apart, Counted, Agreed, Writes, Informed

\* A step that begins or ends a request and writes no row.
LEMMA AbsenceSlot ==
  ASSUME AbsenceInv, NEW r \in Request, NEW h \in Absences!Handler, Writes(h), Informed(h),
         UNCHANGED absence, absenceReq' = [absenceReq EXCEPT ![r] = h]
  PROVE  AbsenceInv'
<1>1. \A q \in Request : absenceReq'[q] \in {h, absenceReq[q]}
  BY DEF AbsenceInv, Absences!TypeOK
<1>2. Absences!TypeOK'
  BY DEF AbsenceInv, Absences!TypeOK
<1>3. \A q \in Request : Writes(absenceReq'[q]) /\ Informed(absenceReq'[q])
  BY <1>1 DEF AbsenceInv
<1>4. \A q \in Request : Writes(absenceReq[q])' /\ Informed(absenceReq[q])'
  BY <1>3 DEF Writes, Informed, Absences!Conflict, Absences!Of, Absences!Live,
              Absences!Overlaps
<1> QED
  BY <1>2, <1>4 DEF AbsenceInv, Apart

\* A row of person u is made, or one of theirs is written.
RowOf(a, u, row) ==
  /\ absence[a].row = "none" \/ (absence[a].row = "live" /\ absence[a].user = u)
  /\ row.row # "none"
  /\ row.row = "live" => row.user = u

\* A handler for another person: what it has read is still so.
LEMMA OtherPerson ==
  ASSUME NEW a \in Absence, NEW u, NEW row, NEW h, RowOf(a, u, row),
         absence \in [Absence -> Absences!AbsenceRow],
         absence' = [absence EXCEPT ![a] = row],
         h.for # u, Writes(h), Informed(h)
  PROVE  Informed(h)'
<1>1. absence'[a] = row /\ \A b \in Absence : b # a => absence'[b] = absence[b]
  OBVIOUS
<1>2. Absences!Of(h.for)' = Absences!Of(h.for)
  BY <1>1 DEF Absences!Of, Absences!Live, RowOf
<1>3. a \notin Absences!Of(h.for)
  BY DEF Absences!Of, Absences!Live, RowOf
<1>4. \A S, s, e : Absences!Conflict(h.for, S, s, e)' <=> Absences!Conflict(h.for, S, s, e)
  BY <1>1, <1>2, <1>3 DEF Absences!Conflict, Absences!Overlaps, Absences!Of, Absences!Live
<1>5. h.pc \in {"update", "decision"} =>
        /\ h.absence \in Absence
        /\ absence'[h.absence] = absence[h.absence]
        /\ h.absence \in Absences!Live' <=> h.absence \in Absences!Live
  BY <1>1 DEF Writes, RowOf, Absences!Live
<1> QED
  BY <1>4, <1>5 DEF Informed

\* A write of one row of person u, after which the other handlers that have read rows of
\* that person are out of date.
LEMMA RowWritten ==
  ASSUME AbsenceInv, NEW a \in Absence, NEW u, NEW row \in Absences!AbsenceRow,
         RowOf(a, u, row), Agreed(row),
         Counted(row) => \A b \in Absence \ {a} :
           Counted(absence[b]) /\ absence[b].user = u => ~Meet(absence[b], row.start, row.end),
         absence' = [absence EXCEPT ![a] = row],
         absenceReq' \in [Request -> Absences!Handler],
         \A q \in Request :
           \/ absenceReq'[q] = Absences!Resting
           \/ \E b \in BOOLEAN : /\ absenceReq'[q] = [absenceReq[q] EXCEPT !.stale = b]
                                 /\ ~b => ~absenceReq[q].stale /\ absenceReq[q].for # u
  PROVE  AbsenceInv'
<1>1. /\ absence \in [Absence -> Absences!AbsenceRow]
      /\ absence' \in [Absence -> Absences!AbsenceRow]
      /\ absence'[a] = row /\ \A b \in Absence : b # a => absence'[b] = absence[b]
  BY DEF AbsenceInv, Absences!TypeOK
<1>2. Absences!TypeOK'
  BY <1>1 DEF Absences!TypeOK
<1>3. Apart'
  <2> SUFFICES ASSUME NEW x \in Absence, NEW y \in Absence, x # y,
                      Counted(absence'[x]), Counted(absence'[y]),
                      absence'[x].user = absence'[y].user
               PROVE  ~Meet(absence'[x], absence'[y].start, absence'[y].end)
    BY DEF Apart, Counted, Meet
  <2>1. CASE x # a /\ y # a
    BY <1>1, <2>1 DEF AbsenceInv, Apart
  <2>2. CASE y = a
    BY <1>1, <2>2 DEF RowOf, Counted
  <2>3. CASE x = a
    <3>1. ~Meet(absence[y], row.start, row.end) /\ absence'[y] = absence[y] /\ absence'[x] = row
      BY <1>1, <2>3 DEF RowOf, Counted
    <3> QED
      BY <3>1 DEF Meet
  <2> QED
    BY <2>1, <2>2, <2>3
<1>4. \A b \in Absence : Agreed(absence[b])'
  BY <1>1 DEF AbsenceInv, Agreed
<1>5. ASSUME NEW q \in Request
      PROVE  Writes(absenceReq[q])' /\ Informed(absenceReq[q])'
  <2>1. CASE absenceReq'[q] = Absences!Resting
    BY <2>1 DEF Absences!Resting, Writes, Informed
  <2>2. CASE absenceReq'[q] # Absences!Resting
    <3>1. PICK b \in BOOLEAN : /\ absenceReq'[q] = [absenceReq[q] EXCEPT !.stale = b]
                               /\ ~b => ~absenceReq[q].stale /\ absenceReq[q].for # u
      BY <2>2
    <3>2. PICK h : h = absenceReq[q]
      OBVIOUS
    <3>3. PICK g : g = [h EXCEPT !.stale = b]
      OBVIOUS
    <3>4. h \in Absences!Handler /\ Writes(h) /\ Informed(h)
      BY <3>2 DEF AbsenceInv, Absences!TypeOK
    <3>5. /\ g.pc = h.pc /\ g.for = h.for /\ g.absence = h.absence /\ g.start = h.start
          /\ g.end = h.end /\ g.verdict = h.verdict /\ g.stale = b
      BY <3>3, <3>4 DEF Absences!Handler
    <3>6. Writes(h)'
      BY <1>1, <3>4 DEF Writes, RowOf
    <3>7. ~b => Informed(h)'
      BY <1>1, <3>1, <3>2, <3>4, OtherPerson
    <3>8. Writes(g)' /\ Informed(g)'
      BY <3>1, <3>2, <3>5, <3>6, <3>7 DEF Writes, Informed
    <3>9. absenceReq'[q] = g
      BY <3>1, <3>2, <3>3
    <3> QED
      BY <3>8, <3>9 DEF Writes, Informed
  <2> QED
    BY <2>1, <2>2
<1> QED
  BY <1>2, <1>3, <1>4, <1>5 DEF AbsenceInv

\* What a commit to the rows of person u makes of a handler.
LEMMA OutOfDate ==
  ASSUME AbsenceInv, NEW q \in Request, NEW u, NEW g,
         \/ g = Absences!Resting
         \/ g = [absenceReq[q] EXCEPT
                   !.stale = @ \/ (absenceReq[q] # Absences!Resting /\ absenceReq[q].for = u)]
  PROVE  /\ g \in Absences!Handler
         /\ \/ g = Absences!Resting
            \/ \E b \in BOOLEAN : /\ g = [absenceReq[q] EXCEPT !.stale = b]
                                  /\ ~b => ~absenceReq[q].stale /\ absenceReq[q].for # u
<1>1. Absences!Resting \in Absences!Handler
  BY LastAwayAssumption DEF Absences!Resting, Absences!Handler, Absences!Op, Absences!Step,
     Absences!Status, Absences!Calendar
<1>2. PICK h : h = absenceReq[q]
  OBVIOUS
<1>3. h \in Absences!Handler
  BY <1>2 DEF AbsenceInv, Absences!TypeOK
<1>4. PICK b \in BOOLEAN : b = (h.stale \/ (h # Absences!Resting /\ h.for = u))
  BY Zenon
<1>5. CASE g # Absences!Resting
  <2>1. g = [h EXCEPT !.stale = b]
    BY <1>2, <1>4, <1>5, Zenon
  <2>2. g \in Absences!Handler
    BY <1>3, <2>1 DEF Absences!Handler
  <2>3. CASE h = Absences!Resting
    <3>1. b = FALSE
      BY <1>4, <2>3 DEF Absences!Resting
    <3>2. g = Absences!Resting
      BY <2>1, <2>3, <3>1 DEF Absences!Resting
    <3> QED
      BY <1>5, <3>2
  <2>4. CASE h # Absences!Resting
    BY <1>2, <1>4, <2>1, <2>2, <2>4
  <2> QED
    BY <2>3, <2>4
<1> QED
  BY <1>1, <1>5

LEMMA AbsenceCommit ==
  ASSUME AbsenceInv, NEW r \in Request, NEW u, absenceReq[r].for = u, Absences!Commit(r)
  PROVE  /\ absenceReq' \in [Request -> Absences!Handler]
         /\ \A q \in Request :
              \/ absenceReq'[q] = Absences!Resting
              \/ \E b \in BOOLEAN : /\ absenceReq'[q] = [absenceReq[q] EXCEPT !.stale = b]
                                    /\ ~b => ~absenceReq[q].stale /\ absenceReq[q].for # u
<1>1. absenceReq' = [q \in Request |->
        IF q = r THEN Absences!Resting
        ELSE [absenceReq[q] EXCEPT
                !.stale = @ \/ (absenceReq[q] # Absences!Resting /\ absenceReq[q].for = u)]]
  BY Zenon DEF Absences!Commit
<1>2. \A q \in Request :
        \/ absenceReq'[q] = Absences!Resting
        \/ absenceReq'[q] = [absenceReq[q] EXCEPT
             !.stale = @ \/ (absenceReq[q] # Absences!Resting /\ absenceReq[q].for = u)]
  BY <1>1, Zenon
<1>3. \A q \in Request :
        /\ absenceReq'[q] \in Absences!Handler
        /\ \/ absenceReq'[q] = Absences!Resting
           \/ \E b \in BOOLEAN : /\ absenceReq'[q] = [absenceReq[q] EXCEPT !.stale = b]
                                 /\ ~b => ~absenceReq[q].stale /\ absenceReq[q].for # u
  <2> TAKE q \in Request
  <2>1. PICK g : g = absenceReq'[q]
    OBVIOUS
  <2>2. \/ g = Absences!Resting
        \/ g = [absenceReq[q] EXCEPT
                  !.stale = @ \/ (absenceReq[q] # Absences!Resting /\ absenceReq[q].for = u)]
    BY <1>2, <2>1, Zenon
  <2>3. /\ g \in Absences!Handler
        /\ \/ g = Absences!Resting
           \/ \E b \in BOOLEAN : /\ g = [absenceReq[q] EXCEPT !.stale = b]
                                 /\ ~b => ~absenceReq[q].stale /\ absenceReq[q].for # u
    BY <2>2, OutOfDate, Zenon
  <2> QED
    BY <2>1, <2>3, Zenon
<1>4. absenceReq' = [q \in Request |-> absenceReq'[q]]
  BY <1>1, Zenon
<1> QED
  BY <1>3, <1>4

LEMMA AbsenceRest ==
  ASSUME AbsenceInv, NEW r \in Request, UNCHANGED absence,
         absenceReq' = [absenceReq EXCEPT ![r] = Absences!Resting]
  PROVE  AbsenceInv'
<1>1. Absences!Resting \in Absences!Handler
  BY LastAwayAssumption DEF Absences!Resting, Absences!Handler, Absences!Op, Absences!Step,
     Absences!Status, Absences!Calendar
<1>2. Writes(Absences!Resting) /\ Informed(Absences!Resting)
  BY DEF Writes, Informed, Absences!Resting
<1> QED
  BY <1>1, <1>2, AbsenceSlot

LEMMA AbsenceStep == AbsenceInv /\ [Absences!Next]_(Absences!vars) => AbsenceInv'
<1> SUFFICES ASSUME AbsenceInv, [Absences!Next]_(Absences!vars)
             PROVE  AbsenceInv'
  OBVIOUS
<1> USE LastAwayAssumption
<1>1. CASE UNCHANGED Absences!vars
  BY <1>1 DEF AbsenceInv, Absences!vars, Absences!TypeOK, Apart, Writes, Informed,
     Absences!Conflict, Absences!Of, Absences!Live, Absences!Overlaps
<1>2. ASSUME NEW r \in Request, Absences!BeginCreate(r)
      PROVE  AbsenceInv'
  <2>1. PICK u \in Applicant, start \in Absences!Calendar, end \in Absences!Calendar :
          /\ ~Absences!Conflict(u, {}, start, end)
          /\ absenceReq' = [absenceReq EXCEPT ![r] =
               [Absences!Resting EXCEPT !.op = "create", !.pc = "insert", !.for = u,
                                        !.start = start, !.end = end]]
    BY <1>2 DEF Absences!BeginCreate, Absences!Accept
  <2>2. PICK h : h = [Absences!Resting EXCEPT !.op = "create", !.pc = "insert", !.for = u,
                                              !.start = start, !.end = end]
    OBVIOUS
  <2>3. /\ h \in Absences!Handler /\ h.pc = "insert" /\ h.for = u
        /\ h.start = start /\ h.end = end
    BY <2>2 DEF Absences!Resting, Absences!Handler, Absences!Op, Absences!Step,
       Absences!Status, Absences!Calendar
  <2>4. Writes(h) /\ Informed(h)
    BY <2>1, <2>3 DEF Writes, Informed
  <2> QED
    BY <1>2, <2>1, <2>2, <2>3, <2>4, AbsenceSlot DEF Absences!BeginCreate
<1>3. ASSUME NEW r \in Request, Absences!Create(r)
      PROVE  AbsenceInv'
  <2>1. PICK h : h = absenceReq[r]
    OBVIOUS
  <2>2. /\ h \in Absences!Handler /\ h.pc = "insert" /\ Writes(h) /\ Informed(h)
    BY <1>3, <2>1 DEF Absences!Create, Absences!At, AbsenceInv, Absences!TypeOK
  <2>3. PICK a \in Absence :
          /\ absence[a].row = "none"
          /\ absence' = [absence EXCEPT ![a] =
               [Absences!NoAbsence EXCEPT !.row = "live", !.user = h.for, !.start = h.start,
                                          !.end = h.end, !.rushed = h.stale]]
    BY <1>3, <2>1 DEF Absences!Create
  <2>4. PICK row : row = [Absences!NoAbsence EXCEPT !.row = "live", !.user = h.for,
                            !.start = h.start, !.end = h.end, !.rushed = h.stale]
    OBVIOUS
  <2>5. /\ row \in Absences!AbsenceRow /\ row.row = "live" /\ row.user = h.for
        /\ row.start = h.start /\ row.end = h.end /\ row.rushed = h.stale
        /\ row.status = "PENDING"
    BY <2>2, <2>4 DEF Writes, Absences!NoAbsence, Absences!AbsenceRow, Absences!Handler,
       Absences!Status, Absences!Calendar
  <2>6. RowOf(a, h.for, row) /\ Agreed(row)
    BY <2>3, <2>5 DEF RowOf, Agreed
  <2>7. ASSUME Counted(row), NEW b \in Absence \ {a}, Counted(absence[b]),
               absence[b].user = h.for
        PROVE  ~Meet(absence[b], row.start, row.end)
    <3>1. ~Absences!Conflict(h.for, {}, h.start, h.end)
      BY <2>2, <2>5, <2>7 DEF Informed, Counted
    <3> QED
      BY <2>5, <2>7, <3>1 DEF Absences!Conflict, Absences!Of, Absences!Live,
         Absences!Overlaps, Counted, Meet
  <2>8. absence' = [absence EXCEPT ![a] = row] /\ Absences!Commit(r)
    BY <1>3, <2>3, <2>4 DEF Absences!Create
  <2> QED
    BY <2>1, <2>5, <2>6, <2>7, <2>8, AbsenceCommit, RowWritten
<1>4. ASSUME NEW r \in Request, Absences!BeginUpdate(r)
      PROVE  AbsenceInv'
  <2>1. PICK a \in Absences!Live, start \in Absences!Calendar, end \in Absences!Calendar :
          /\ ~Absences!Conflict(absence[a].user, {a}, start, end)
          /\ absenceReq' = [absenceReq EXCEPT ![r] =
               [Absences!Resting EXCEPT !.op = "update", !.pc = "update", !.absence = a,
                          !.for = absence[a].user, !.start = start, !.end = end]]
    BY <1>4 DEF Absences!BeginUpdate, Absences!Accept
  <2>2. PICK h : h = [Absences!Resting EXCEPT !.op = "update", !.pc = "update",
                        !.absence = a, !.for = absence[a].user, !.start = start, !.end = end]
    OBVIOUS
  <2>3. a \in Absence /\ absence[a].user \in Applicant \cup {Null} /\ absence[a].row = "live"
    BY <2>1 DEF Absences!Live, AbsenceInv, Absences!TypeOK, Absences!AbsenceRow
  <2>4. /\ h \in Absences!Handler /\ h.pc = "update" /\ h.for = absence[a].user
        /\ h.absence = a /\ h.start = start /\ h.end = end
    BY <2>2, <2>3 DEF Absences!Resting, Absences!Handler, Absences!Op, Absences!Step,
       Absences!Status, Absences!Calendar
  <2>5. Writes(h) /\ Informed(h)
    BY <2>1, <2>3, <2>4 DEF Writes, Informed
  <2> QED
    BY <1>4, <2>1, <2>2, <2>4, <2>5, AbsenceSlot DEF Absences!BeginUpdate
<1>5. ASSUME NEW r \in Request, Absences!Update(r)
      PROVE  AbsenceInv'
  <2>1. PICK h : h = absenceReq[r]
    OBVIOUS
  <2>2. /\ h \in Absences!Handler /\ h.pc = "update" /\ Writes(h) /\ Informed(h)
    BY <1>5, <2>1 DEF Absences!Update, Absences!At, AbsenceInv, Absences!TypeOK
  <2>3. CASE h.absence \in Absences!Live
    <3>1. PICK a \in Absence : a = h.absence
      BY <2>2 DEF Writes
    <3>2. PICK old : old = absence[a]
      OBVIOUS
    <3>3. PICK row : row = Absences!Moved(old, h)
      OBVIOUS
    <3>4. absence' = [absence EXCEPT ![a] = row] /\ Absences!Commit(r)
      BY <1>5, <2>1, <2>3, <3>1, <3>2, <3>3, Zenon DEF Absences!Update
    <3>5. old \in Absences!AbsenceRow /\ old.row = "live" /\ old.user = h.for
      BY <2>2, <2>3, <3>1, <3>2
         DEF AbsenceInv, Absences!TypeOK, Absences!Live, Writes
    <3>6. /\ row \in Absences!AbsenceRow /\ row.row = "live" /\ row.user = h.for
          /\ row.start = h.start /\ row.end = h.end /\ row.rushed = h.stale
          /\ row.status = "PENDING"
      BY <2>2, <3>3, <3>5 DEF Absences!Moved, Absences!AbsenceRow, Absences!Handler,
         Absences!Status
    <3>7. RowOf(a, h.for, row) /\ Agreed(row)
      BY <3>2, <3>5, <3>6 DEF RowOf, Agreed
    <3>8. ASSUME Counted(row), NEW b \in Absence \ {a}, Counted(absence[b]),
                 absence[b].user = h.for
          PROVE  ~Meet(absence[b], row.start, row.end)
      <4>1. ~Absences!Conflict(h.for, {a}, h.start, h.end)
        BY <2>2, <2>3, <3>1, <3>6, <3>8 DEF Informed, Counted
      <4> QED
        BY <3>6, <3>8, <4>1 DEF Absences!Conflict, Absences!Of, Absences!Live,
           Absences!Overlaps, Counted, Meet
    <3> QED
      BY <2>1, <3>4, <3>6, <3>7, <3>8, AbsenceCommit, RowWritten
  <2>4. CASE h.absence \notin Absences!Live
    BY <1>5, <2>1, <2>4, AbsenceRest DEF Absences!Update, Absences!Finish
  <2> QED
    BY <2>3, <2>4
<1>6. ASSUME NEW r \in Request, Absences!BeginDecide(r)
      PROVE  AbsenceInv'
  <2>1. PICK a \in Absences!Live, verdict \in {"APPROVED", "REJECTED"} :
          absenceReq' = [absenceReq EXCEPT ![r] =
            [Absences!Resting EXCEPT !.op = "decide", !.pc = "decision", !.absence = a,
                    !.for = absence[a].user, !.verdict = verdict,
                    !.start = IF verdict = "APPROVED" THEN absence[a].start ELSE 0,
                    !.end = IF verdict = "APPROVED" THEN absence[a].end ELSE 0]]
    BY <1>6, Zenon DEF Absences!BeginDecide, Absences!Accept
  <2>2. PICK start, end : /\ start = IF verdict = "APPROVED" THEN absence[a].start ELSE 0
                          /\ end = IF verdict = "APPROVED" THEN absence[a].end ELSE 0
    OBVIOUS
  <2>3. PICK h : h = [Absences!Resting EXCEPT !.op = "decide", !.pc = "decision",
                        !.absence = a, !.for = absence[a].user, !.verdict = verdict,
                        !.start = start, !.end = end]
    OBVIOUS
  <2>4. /\ a \in Absence /\ absence[a].user \in Applicant \cup {Null}
        /\ absence[a].row = "live" /\ absence[a].start \in Absences!Calendar
        /\ absence[a].end \in Absences!Calendar
    BY <2>1 DEF Absences!Live, AbsenceInv, Absences!TypeOK, Absences!AbsenceRow
  <2>5. start \in Absences!Calendar /\ end \in Absences!Calendar
    BY <2>2, <2>4 DEF Absences!Calendar
  <2>6. /\ h \in Absences!Handler /\ h.pc = "decision" /\ h.for = absence[a].user
        /\ h.absence = a /\ h.start = start /\ h.end = end /\ h.verdict = verdict
    BY <2>3, <2>4, <2>5 DEF Absences!Resting, Absences!Handler, Absences!Op, Absences!Step,
       Absences!Status
  <2>7. Writes(h) /\ Informed(h)
    BY <2>2, <2>4, <2>6 DEF Writes, Informed
  <2>8. absenceReq' = [absenceReq EXCEPT ![r] = h]
    BY <2>1, <2>2, <2>3, Zenon
  <2> QED
    BY <1>6, <2>6, <2>7, <2>8, AbsenceSlot DEF Absences!BeginDecide
<1>7. ASSUME NEW r \in Request, Absences!Decide(r)
      PROVE  AbsenceInv'
  <2>1. PICK h : h = absenceReq[r]
    OBVIOUS
  <2>2. /\ h \in Absences!Handler /\ h.pc = "decision" /\ Writes(h) /\ Informed(h)
    BY <1>7, <2>1 DEF Absences!Decide, Absences!At, AbsenceInv, Absences!TypeOK
  <2>3. CASE h.absence \in Absences!Live
    <3>1. PICK a \in Absence : a = h.absence
      BY <2>2 DEF Writes
    <3>2. PICK rushed \in BOOLEAN : rushed = Absences!Rushed(h)
      BY Zenon DEF Absences!Rushed
    <3>3. PICK agreed : agreed = IF h.verdict = "APPROVED" /\ ~rushed THEN h.start..h.end ELSE {}
      OBVIOUS
    <3>4. PICK old : old = absence[a]
      OBVIOUS
    <3>5. PICK row : row = [old EXCEPT !.status = h.verdict, !.agreed = agreed, !.rushed = rushed]
      OBVIOUS
    <3>6. absence' = [absence EXCEPT ![a].status = h.verdict, ![a].agreed = agreed,
                                     ![a].rushed = rushed]
      BY <1>7, <2>1, <2>3, <3>1, <3>2, <3>3, Zenon DEF Absences!Decide
    <3>7. absence' = [absence EXCEPT ![a] = row] /\ Absences!Commit(r)
      <4>1. absence \in [Absence -> Absences!AbsenceRow]
        BY DEF AbsenceInv, Absences!TypeOK
      <4>2. Absences!Commit(r)
        BY <1>7, <2>1, <2>3, Zenon DEF Absences!Decide
      <4> QED
        BY <3>4, <3>5, <3>6, <4>1, <4>2
    <3>8. old \in Absences!AbsenceRow /\ old.row = "live" /\ old.user = h.for
      BY <2>2, <2>3, <3>1, <3>4
         DEF AbsenceInv, Absences!TypeOK, Absences!Live, Writes
    <3>9. agreed \in SUBSET Absences!Calendar
      BY <2>2, <3>3 DEF Absences!Handler, Absences!Calendar
    <3>10. /\ row \in Absences!AbsenceRow /\ row.row = "live" /\ row.user = h.for
           /\ row.start = old.start /\ row.end = old.end /\ row.rushed = rushed
           /\ row.status = h.verdict /\ row.agreed = agreed
      BY <2>2, <3>2, <3>5, <3>8, <3>9 DEF Absences!AbsenceRow, Absences!Handler
    <3>11. ~rushed /\ h.verdict = "APPROVED" =>
             /\ ~h.stale /\ ~old.rushed /\ old.status # "REJECTED"
             /\ h.start = old.start /\ h.end = old.end
      BY <2>2, <2>3, <3>1, <3>2, <3>4 DEF Absences!Rushed, Informed
    <3>12. RowOf(a, h.for, row) /\ Agreed(row)
      BY <3>3, <3>4, <3>8, <3>10, <3>11 DEF RowOf, Agreed
    <3>13. ASSUME Counted(row), NEW b \in Absence \ {a}, Counted(absence[b]),
                  absence[b].user = h.for
           PROVE  ~Meet(absence[b], row.start, row.end)
      <4>1. h.verdict = "APPROVED"
        BY <2>2, <3>10, <3>13 DEF Counted, Writes, Absences!Handler, Absences!Status
      <4>2. Counted(old)
        BY <3>8, <3>10, <3>11, <3>13, <4>1 DEF Counted
      <4> QED
        BY <3>4, <3>8, <3>10, <3>13, <4>2 DEF AbsenceInv, Apart
    <3> QED
      BY <2>1, <3>7, <3>10, <3>12, <3>13, AbsenceCommit, RowWritten
  <2>4. CASE h.absence \notin Absences!Live
    BY <1>7, <2>1, <2>4, AbsenceRest DEF Absences!Decide, Absences!Finish
  <2> QED
    BY <2>3, <2>4
<1>8. ASSUME NEW r \in Request, Absences!Abort(r)
      PROVE  AbsenceInv'
  BY <1>8, AbsenceRest DEF Absences!Abort, Absences!Finish
<1>9. ASSUME Absences!Remove
      PROVE  AbsenceInv'
  <2>1. PICK a \in Absences!Live :
          /\ absence' = [absence EXCEPT ![a] = [Absences!NoAbsence EXCEPT !.row = "deleted"]]
          /\ absenceReq' = [q \in Request |->
               [absenceReq[q] EXCEPT !.stale = @ \/ (/\ absenceReq[q] # Absences!Resting
                                                   /\ absenceReq[q].for = absence[a].user)]]
    BY <1>9, Zenon DEF Absences!Remove
  <2>2. PICK u : u = absence[a].user
    OBVIOUS
  <2>3. PICK row : row = [Absences!NoAbsence EXCEPT !.row = "deleted"]
    OBVIOUS
  <2>4. row \in Absences!AbsenceRow /\ row.row = "deleted"
    <3>1. Absences!NoAbsence \in Absences!AbsenceRow
      BY LastAwayAssumption DEF Absences!NoAbsence, Absences!AbsenceRow, Absences!Status,
         Absences!Calendar
    <3> QED
      BY <2>3, <3>1 DEF Absences!AbsenceRow
  <2>5. a \in Absence /\ RowOf(a, u, row) /\ Agreed(row) /\ ~Counted(row)
    BY <2>1, <2>2, <2>4 DEF RowOf, Agreed, Counted, Absences!Live
  <2>6. ASSUME NEW q \in Request
        PROVE  /\ absenceReq'[q] \in Absences!Handler
               /\ \/ absenceReq'[q] = Absences!Resting
                  \/ \E b \in BOOLEAN : /\ absenceReq'[q] = [absenceReq[q] EXCEPT !.stale = b]
                                        /\ ~b => ~absenceReq[q].stale /\ absenceReq[q].for # u
    <3>1. PICK g : g = [absenceReq[q] EXCEPT
               !.stale = @ \/ (absenceReq[q] # Absences!Resting /\ absenceReq[q].for = u)]
      OBVIOUS
    <3>2. absenceReq'[q] = g
      BY <2>1, <2>2, <3>1, Zenon
    <3>3. /\ g \in Absences!Handler
          /\ \/ g = Absences!Resting
             \/ \E b \in BOOLEAN : /\ g = [absenceReq[q] EXCEPT !.stale = b]
                                   /\ ~b => ~absenceReq[q].stale /\ absenceReq[q].for # u
      BY <3>1, OutOfDate, Zenon
    <3> QED
      BY <3>2, <3>3, Zenon
  <2>7. absenceReq' = [q \in Request |-> absenceReq'[q]]
    BY <2>1, Zenon
  <2> QED
    BY <2>1, <2>3, <2>4, <2>5, <2>6, <2>7, RowWritten
<1> QED
  BY <1>1, <1>2, <1>3, <1>4, <1>5, <1>6, <1>7, <1>8, <1>9 DEF Absences!Next

\* AbsenceService.create and update: on any day the team sees one absence of a person, as
\* long as no write was computed from rows that had changed.
THEOREM OneAbsence == Absences!Spec => []Absences!OneAbsenceADay
<1>1. ASSUME AbsenceInv
      PROVE  Absences!OneAbsenceADay
  <2> SUFFICES ASSUME NEW u \in Applicant, NEW d \in Absences!Calendar
               PROVE  Absences!Cardinality({a \in Absences!Shown(u, d) : ~absence[a].rushed}) <= 1
    BY DEF Absences!OneAbsenceADay
  <2> DEFINE S == {a \in Absences!Shown(u, d) : ~absence[a].rushed}
  <2>1. \A a \in S : /\ a \in Absence /\ Counted(absence[a]) /\ absence[a].user = u
                     /\ absence[a].start <= d /\ absence[a].end >= d
                     /\ absence[a].start \in Int /\ absence[a].end \in Int /\ d \in Int
    BY <1>1 DEF Absences!Shown, Absences!Of, Absences!Live, Absences!Overlaps, Counted,
       AbsenceInv, Absences!TypeOK, Absences!AbsenceRow, Absences!Calendar
  <2>2. \A a, b \in S : a = b
    <3> SUFFICES ASSUME NEW a \in S, NEW b \in S, a # b
                 PROVE  FALSE
      OBVIOUS
    <3>1. ~Meet(absence[a], absence[b].start, absence[b].end)
      BY <1>1, <2>1 DEF AbsenceInv, Apart
    <3> QED
      BY <2>1, <3>1 DEF Meet
  <2>3. Cardinality(S) <= 1
    BY <2>2, AtMostOne
  <2> QED
    BY <2>3 DEF Absences!Cardinality, Cardinality
<1> QED
  BY <1>1, AbsenceInit, AbsenceStep, PTL DEF Absences!Spec

\* AbsenceService.decide: what is approved are the days that were read, unless the author
\* moved them meanwhile.
THEOREM ApprovalsAsRead == Absences!Spec => []Absences!ApprovedAsRead
<1>1. AbsenceInv => Absences!ApprovedAsRead
  BY DEF AbsenceInv, Agreed, Absences!ApprovedAsRead, Absences!Live, Absences!Days
<1> QED
  BY <1>1, AbsenceInit, AbsenceStep, PTL DEF Absences!Spec

-----------------------------------------------------------------------------
\* Two periods meet exactly when they share a day.
LEMMA SharedDay ==
  ASSUME NEW s \in Int, NEW e \in Int, NEW f \in Int, NEW t \in Int, s <= e, f <= t
  PROVE  s <= t /\ e >= f <=> (s..e) \cap (f..t) # {}
<1>1. ASSUME s <= t, e >= f
      PROVE  (s..e) \cap (f..t) # {}
  <2>1. CASE s <= f
    <3>1. f \in (s..e) \cap (f..t)
      BY <1>1, <2>1
    <3> QED
      BY <3>1
  <2>2. CASE s > f
    <3>1. s \in (s..e) \cap (f..t)
      BY <1>1, <2>2
    <3> QED
      BY <3>1
  <2> QED
    BY <2>1, <2>2
<1>2. ASSUME NEW d \in (s..e) \cap (f..t)
      PROVE  s <= t /\ e >= f
  BY <1>2
<1> QED
  BY <1>1, <1>2

\* The whole calendar is a window.
LEMMA WholeWindow == Agenda!Min(0..LastShown) = 0 /\ Agenda!Max(0..LastShown) = LastShown
BY AgendaAssumption DEF Agenda!Min, Agenda!Max

\* A dated row is in a window exactly when it lasts on one of its days, and always in that
\* of all days.
LEMMA WindowOfRow ==
  ASSUME NEW row, row.start \in 0..LastShown, row.end \in 0..LastShown, row.start <= row.end,
         NEW from \in 0..LastShown, NEW to \in 0..LastShown, from <= to
  PROVE  /\ Agenda!InWindow(row, from, to) <=> (row.start..row.end) \cap (from..to) # {}
         /\ Agenda!InWindow(row, 0, LastShown)
<1>1. /\ row.start \in Int /\ row.end \in Int /\ from \in Int /\ to \in Int
      /\ row.start <= LastShown /\ row.end >= 0
  BY AgendaAssumption
<1>2. row.start <= to /\ row.end >= from <=> (row.start..row.end) \cap (from..to) # {}
  BY <1>1, SharedDay
<1> QED
  BY <1>1, <1>2 DEF Agenda!InWindow

\* CalendarService: whatever window is asked for, an agenda shows what lasts on its days.
LEMMA AgendaWindows == Agenda!TypeOK => Agenda!WindowsShowTheirDays
<1> SUFFICES ASSUME Agenda!TypeOK,
                    NEW u \in Reader, NEW from \in 0..LastShown, NEW to \in 0..LastShown,
                    from <= to
             PROVE  /\ Agenda!GetPersonal(u, from, to) =
                         {e \in Agenda!GetPersonal(u, 0, LastShown) :
                            Agenda!Days(e) \cap (from..to) # {}}
                    /\ Agenda!GetOrganisation(u, from, to) =
                         {e \in Agenda!GetOrganisation(u, 0, LastShown) :
                            Agenda!Days(e) \cap (from..to) # {}}
  BY WholeWindow DEF Agenda!WindowsShowTheirDays
<1> DEFINE Among(events) == {e \in events : Agenda!Days(e) \cap (from..to) # {}}
<1>1. ASSUME NEW i \in Deadline, dated[i] # Null
      PROVE  /\ Agenda!InWindow(dated[i], from, to) <=>
                  Agenda!Days(<<i, dated[i].project>>) \cap (from..to) # {}
             /\ Agenda!InWindow(dated[i], 0, LastShown)
  <2>1. dated[i].start \in 0..LastShown /\ dated[i].end \in 0..LastShown
        /\ dated[i].start <= dated[i].end
    BY <1>1 DEF Agenda!TypeOK, Agenda!ItemRows, Agenda!ItemRow
  <2>2. Agenda!Days(<<i, dated[i].project>>) = dated[i].start..dated[i].end
    BY DEF Agenda!Days
  <2> QED
    BY <2>1, <2>2, WindowOfRow
<1>2. ASSUME NEW a \in Leave, leave[a] # Null
      PROVE  /\ Agenda!InWindow(leave[a], from, to) <=>
                  Agenda!Days(<<a, leave[a].user>>) \cap (from..to) # {}
             /\ Agenda!InWindow(leave[a], 0, LastShown)
  <2>1. leave[a].start \in 0..LastShown /\ leave[a].end \in 0..LastShown
        /\ leave[a].start <= leave[a].end
    BY <1>2 DEF Agenda!TypeOK, Agenda!AbsenceRows, Agenda!AbsenceRow
  <2>2. Agenda!Days(<<a, leave[a].user>>) = leave[a].start..leave[a].end
    BY AgendaAssumption DEF Agenda!Days
  <2> QED
    BY <2>1, <2>2, WindowOfRow
<1>3. ASSUME NEW P
      PROVE  Agenda!OfProject(Agenda!Items(P, from, to)) =
               Among(Agenda!OfProject(Agenda!Items(P, 0, LastShown)))
  BY <1>1 DEF Agenda!OfProject, Agenda!Items
<1>4. Agenda!OfProject(Agenda!Assigned(u, from, to)) =
        Among(Agenda!OfProject(Agenda!Assigned(u, 0, LastShown)))
  BY <1>1 DEF Agenda!OfProject, Agenda!Assigned, Agenda!Items
<1>5. ASSUME NEW v
      PROVE  Agenda!OfPerson(Agenda!Mine(v, from, to)) =
               Among(Agenda!OfPerson(Agenda!Mine(v, 0, LastShown)))
  BY <1>2 DEF Agenda!OfPerson, Agenda!Mine
<1>6. ASSUME NEW V
      PROVE  Agenda!OfPerson(Agenda!ForUsers(V, from, to)) =
               Among(Agenda!OfPerson(Agenda!ForUsers(V, 0, LastShown)))
  BY <1>2 DEF Agenda!OfPerson, Agenda!ForUsers, Agenda!Mine
<1>7. \A E, F : Among(E \cup F) = Among(E) \cup Among(F)
  OBVIOUS
<1> HIDE DEF Among
<1>8. Agenda!GetPersonal(u, from, to) = Among(Agenda!GetPersonal(u, 0, LastShown))
  BY <1>4, <1>5, <1>7 DEF Agenda!GetPersonal
<1>9. Agenda!GetOrganisation(u, from, to) = Among(Agenda!GetOrganisation(u, 0, LastShown))
  BY <1>3, <1>6, <1>7 DEF Agenda!GetOrganisation
<1> QED
  BY <1>8, <1>9 DEF Among

\* A person is, or was, in a project that is, or was, the user's.
Met(v, h) == h.user \in admin \/ v = h.user \/ \E p \in h.mine : <<v, p>> \in h.ever

\* What is to be shown is still to be read.
Due(x, h) ==
  \/ x[1][1] \in Deadline /\ dated[x[1][1]].kind \in h.todo
  \/ x[1][1] \in Leave /\ h.whose = "personal" /\ "absences" \in h.todo
  \/ /\ x[1][1] \in Leave /\ h.whose = "organisation" /\ h.todo # {}
     /\ "people" \in h.todo \/ x[1][2] \in h.people

\* The queries still to run.
Queries(h) ==
  /\ h.pc = "begin" => h.whose = "organisation" /\ "people" \in h.todo /\ Agenda!Kinds \subseteq h.todo
  /\ h.pc = "reading" => h.todo # {}
  /\ h.whose = "organisation" => "absences" \notin h.todo \/ h.todo = {"absences"}
  /\ h.pc = "answer" => h.todo = {}

\* What was read is within what was the user's, and lacks nothing that was all along.
Honest(h) ==
  h.pc # "none" =>
    /\ h.user \in Reader
    /\ Agenda!MyProjects(h.user) \subseteq h.mine /\ h.projects \subseteq h.mine
    /\ member \subseteq h.ever
    /\ \A v \in h.people : Met(v, h)
    /\ \A e \in h.shown : h.whose = "organisation" => e[2] \in h.mine \/ Met(e[2], h)
    /\ h.always \subseteq Agenda!Reasons(h)
    /\ h.pc # "begin" /\ h.whose = "organisation" =>
         \A x \in h.always : (x[2] = Null /\ h.user \in admin) \/ x[2] \in h.projects
    /\ \A x \in h.always : x[1] \in h.shown \/ Due(x, h)

AgendaInv == Agenda!TypeOK /\ Queries(agenda) /\ Honest(agenda)

LEMMA AgendaBegins == Agenda!Init => AgendaInv
<1> SUFFICES ASSUME Agenda!Init
             PROVE  AgendaInv
  OBVIOUS
<1>1. agenda = Agenda!NoRequest
  BY DEF Agenda!Init
<1>2. /\ agenda.pc = "none" /\ agenda.todo = {}
  BY <1>1 DEF Agenda!NoRequest
<1>3. agenda \in Agenda!Asking
  BY <1>1, AgendaAssumption DEF Agenda!NoRequest, Agenda!Asking
<1>4. Agenda!TypeOK
  BY <1>3, AgendaAssumption DEF Agenda!Init, Agenda!TypeOK
<1> QED
  BY <1>2, <1>4 DEF AgendaInv, Queries, Honest

\* Why an event is to be shown.
LEMMA ReasonOfEvent ==
  ASSUME Agenda!TypeOK, NEW h, NEW x \in Agenda!Reasons(h)
  PROVE  \/ /\ x[1][1] \in Deadline /\ dated[x[1][1]] # Null
            /\ x[1] = <<x[1][1], dated[x[1][1]].project>>
            /\ dated[x[1][1]].project \in live
            /\ Agenda!InWindow(dated[x[1][1]], h.from, h.to)
            /\ h.whose = "personal" => /\ dated[x[1][1]].kind = "TASK"
                                       /\ h.user \in dated[x[1][1]].assigned
            /\ h.whose # "personal" => x[2] = dated[x[1][1]].project /\ <<h.user, x[2]>> \in member
         \/ /\ x[1][1] \in Leave /\ leave[x[1][1]] # Null
            /\ x[1] = <<x[1][1], leave[x[1][1]].user>>
            /\ Agenda!InWindow(leave[x[1][1]], h.from, h.to)
            /\ h.whose = "personal" => x[1][2] = h.user
            /\ h.whose # "personal" => ~leave[x[1][1]].refused
            /\ h.whose # "personal" /\ h.user \in admin => x[2] = Null
            /\ h.whose # "personal" /\ h.user \notin admin =>
                 x[2] \in Agenda!MyProjects(h.user) /\ <<x[1][2], x[2]>> \in member
<1>1. CASE h.whose = "personal"
  <2>1. x[1] \in Agenda!GetPersonal(h.user, h.from, h.to)
    BY <1>1 DEF Agenda!Reasons
  <2>2. CASE x[1] \in Agenda!OfProject(Agenda!Assigned(h.user, h.from, h.to))
    <3>1. PICK i \in Agenda!Assigned(h.user, h.from, h.to) : x[1] = <<i, dated[i].project>>
      BY <2>2 DEF Agenda!OfProject
    <3> QED
      BY <1>1, <3>1 DEF Agenda!Assigned, Agenda!Items
  <2>3. CASE x[1] \in Agenda!OfPerson(Agenda!Mine(h.user, h.from, h.to))
    <3>1. PICK a \in Agenda!Mine(h.user, h.from, h.to) : x[1] = <<a, leave[a].user>>
      BY <2>3 DEF Agenda!OfPerson
    <3> QED
      BY <1>1, <3>1 DEF Agenda!Mine
  <2> QED
    BY <2>1, <2>2, <2>3 DEF Agenda!GetPersonal
<1>2. CASE h.whose # "personal"
  <2>1. CASE x \in {<<e, e[2]>> : e \in Agenda!OfProject(
                                         Agenda!Items(Agenda!MyProjects(h.user), h.from, h.to))}
    <3>1. PICK i \in Agenda!Items(Agenda!MyProjects(h.user), h.from, h.to) :
            x = <<<<i, dated[i].project>>, dated[i].project>>
      BY <2>1 DEF Agenda!OfProject
    <3> QED
      BY <1>2, <3>1 DEF Agenda!Items, Agenda!MyProjects
  <2>2. CASE x \in {y \in Agenda!OfPerson(Agenda!ForUsers(Reader, h.from, h.to))
                            \X (Agenda!MyProjects(h.user) \cup {Null}) :
                      IF h.user \in admin THEN y[2] = Null ELSE <<y[1][2], y[2]>> \in member}
    <3>1. x[1] \in Agenda!OfPerson(Agenda!ForUsers(Reader, h.from, h.to))
      BY <2>2
    <3>2. PICK a \in Agenda!ForUsers(Reader, h.from, h.to) : x[1] = <<a, leave[a].user>>
      BY <3>1 DEF Agenda!OfPerson
    <3>3. /\ x[2] \in Agenda!MyProjects(h.user) \cup {Null}
          /\ IF h.user \in admin THEN x[2] = Null ELSE <<x[1][2], x[2]>> \in member
      BY <2>2
    <3>4. h.user \notin admin => x[2] # Null
      BY <3>3, AgendaAssumption DEF Agenda!TypeOK
    <3> QED
      BY <1>2, <3>2, <3>3, <3>4 DEF Agenda!ForUsers, Agenda!Mine
  <2> QED
    BY <1>2, <2>1, <2>2 DEF Agenda!Reasons
<1> QED
  BY <1>1, <1>2

LEMMA EventsTyped ==
  ASSUME Agenda!TypeOK
  PROVE  /\ \A P, from, to :
              Agenda!OfProject(Agenda!Items(P, from, to)) \subseteq Deadline \X Shared
         /\ \A u, from, to : Agenda!OfPerson(Agenda!Mine(u, from, to)) \subseteq Leave \X Reader
         /\ \A V, from, to : Agenda!OfPerson(Agenda!ForUsers(V, from, to)) \subseteq Leave \X Reader
<1>1. \A P, from, to :
        Agenda!OfProject(Agenda!Items(P, from, to)) \subseteq Deadline \X Shared
  BY DEF Agenda!OfProject, Agenda!Items, Agenda!TypeOK, Agenda!ItemRows, Agenda!ItemRow
<1>2. \A u, from, to : Agenda!OfPerson(Agenda!Mine(u, from, to)) \subseteq Leave \X Reader
  BY DEF Agenda!OfPerson, Agenda!Mine, Agenda!TypeOK, Agenda!AbsenceRows, Agenda!AbsenceRow
<1>3. \A V, from, to : Agenda!OfPerson(Agenda!ForUsers(V, from, to)) \subseteq Leave \X Reader
  BY DEF Agenda!OfPerson, Agenda!Mine, Agenda!ForUsers, Agenda!TypeOK, Agenda!AbsenceRows,
     Agenda!AbsenceRow
<1> QED
  BY <1>1, <1>2, <1>3

LEMMA ReasonsTyped ==
  ASSUME Agenda!TypeOK, NEW h
  PROVE  Agenda!Reasons(h) \subseteq Agenda!Events \X (Shared \cup {Null})
<1>1. \A P, from, to :
        Agenda!OfProject(Agenda!Items(P, from, to)) \subseteq Deadline \X Shared
  BY EventsTyped
<1>2. \A u, from, to : /\ Agenda!OfPerson(Agenda!Mine(u, from, to)) \subseteq Leave \X Reader
                       /\ Agenda!OfPerson(Agenda!ForUsers(Reader, from, to)) \subseteq Leave \X Reader
  BY EventsTyped
<1>3. CASE h.whose = "personal"
  <2>1. Agenda!OfProject(Agenda!Assigned(h.user, h.from, h.to)) \subseteq Deadline \X Shared
    BY <1>1 DEF Agenda!Assigned, Agenda!OfProject
  <2>2. Agenda!GetPersonal(h.user, h.from, h.to) \subseteq Agenda!Events
    BY <1>2, <2>1 DEF Agenda!GetPersonal, Agenda!Events
  <2> QED
    BY <1>3, <2>2 DEF Agenda!Reasons
<1>4. CASE h.whose # "personal"
  <2> SUFFICES ASSUME NEW x \in Agenda!Reasons(h)
               PROVE  x \in Agenda!Events \X (Shared \cup {Null})
    OBVIOUS
  <2>1. CASE x \in {<<e, e[2]>> : e \in Agenda!OfProject(
                                         Agenda!Items(Agenda!MyProjects(h.user), h.from, h.to))}
    <3>1. PICK e \in Deadline \X Shared : x = <<e, e[2]>>
      BY <1>1, <2>1
    <3> QED
      BY <3>1 DEF Agenda!Events
  <2>2. CASE x \in {y \in Agenda!OfPerson(Agenda!ForUsers(Reader, h.from, h.to))
                            \X (Agenda!MyProjects(h.user) \cup {Null}) :
                      IF h.user \in admin THEN y[2] = Null ELSE <<y[1][2], y[2]>> \in member}
    <3>1. x \in (Leave \X Reader) \X (Agenda!MyProjects(h.user) \cup {Null})
      BY <1>2, <2>2
    <3>2. Agenda!MyProjects(h.user) \subseteq Shared
      BY DEF Agenda!MyProjects, Agenda!TypeOK
    <3> QED
      BY <3>1, <3>2 DEF Agenda!Events
  <2> QED
    BY <1>4, <2>1, <2>2 DEF Agenda!Reasons
<1> QED
  BY <1>3, <1>4

\* After a change too, only rows that are there are to be shown.
LEMMA StillThere ==
  ASSUME NEW h, NEW x, x \in Agenda!Reasons(h)', x[1][1] \in Deadline
  PROVE  dated'[x[1][1]] # Null
<1>1. CASE x[1] \in Agenda!OfProject(Agenda!Items(live, h.from, h.to))'
  BY <1>1 DEF Agenda!OfProject, Agenda!Items
<1>2. CASE \E a \in Leave : x[1] = <<a, leave'[a].user>>
  BY <1>2, AgendaAssumption
<1>3. CASE h.whose = "personal"
  <2>1. x[1] \in Agenda!GetPersonal(h.user, h.from, h.to)'
    BY <1>3 DEF Agenda!Reasons
  <2> QED
    BY <1>1, <1>2, <2>1 DEF Agenda!GetPersonal, Agenda!OfProject, Agenda!OfPerson,
       Agenda!Assigned, Agenda!Mine
<1>4. CASE h.whose # "personal"
  <2>1. \/ x \in {<<e, e[2]>> : e \in Agenda!OfProject(
                            Agenda!Items(Agenda!MyProjects(h.user), h.from, h.to))'}
        \/ x[1] \in Agenda!OfPerson(Agenda!ForUsers(Reader, h.from, h.to))'
    BY <1>4 DEF Agenda!Reasons
  <2>2. CASE x \in {<<e, e[2]>> : e \in Agenda!OfProject(
                            Agenda!Items(Agenda!MyProjects(h.user), h.from, h.to))'}
    <3>1. x[1] \in Agenda!OfProject(Agenda!Items(Agenda!MyProjects(h.user), h.from, h.to))'
      BY <2>2
    <3> QED
      BY <1>1, <3>1 DEF Agenda!OfProject, Agenda!Items, Agenda!MyProjects
  <2>3. CASE x[1] \in Agenda!OfPerson(Agenda!ForUsers(Reader, h.from, h.to))'
    BY <1>2, <2>3 DEF Agenda!OfPerson, Agenda!ForUsers, Agenda!Mine
  <2> QED
    BY <2>1, <2>2, <2>3
<1> QED
  BY <1>3, <1>4

\* What is to be shown when nothing was read yet is still to be read.
LEMMA AllDue ==
  ASSUME Agenda!TypeOK, NEW h, NEW x \in Agenda!Reasons(h),
         \/ h.whose = "personal" /\ h.todo = {"TASK", "absences"}
         \/ h.whose = "organisation" /\ Agenda!Kinds \cup {"people"} \subseteq h.todo
  PROVE  Due(x, h)
<1>1. CASE x[1][1] \in Deadline /\ dated[x[1][1]] # Null
  <2>1. dated[x[1][1]].kind \in Agenda!Kinds
    BY <1>1 DEF Agenda!TypeOK, Agenda!ItemRows, Agenda!ItemRow, Agenda!Kinds
  <2>2. h.whose = "personal" => dated[x[1][1]].kind = "TASK"
    BY <1>1, ReasonOfEvent, AgendaAssumption
  <2> QED
    BY <1>1, <2>1, <2>2 DEF Due
<1>2. CASE x[1][1] \in Leave
  BY <1>2 DEF Due
<1> QED
  BY <1>1, <1>2, ReasonOfEvent

\* A step that changes the request alone.
LEMMA AgendaKeeps ==
  ASSUME Agenda!TypeOK, NEW g \in Agenda!Asking, Queries(g), Honest(g),
         UNCHANGED <<admin, member, live, dated, leave, changes>>, agenda' = g
  PROVE  AgendaInv'
<1>1. Agenda!TypeOK'
  BY DEF Agenda!TypeOK
<1>2. \A h : Agenda!Reasons(h)' = Agenda!Reasons(h)
  BY DEF Agenda!MyProjects, Agenda!Reasons, Agenda!GetPersonal, Agenda!OfProject,
     Agenda!OfPerson, Agenda!Assigned, Agenda!Items, Agenda!Mine, Agenda!ForUsers
<1>3. Agenda!Reasons(g)' = Agenda!Reasons(g)
  BY <1>2
<1>4. \A u : Agenda!MyProjects(u)' = Agenda!MyProjects(u)
  BY DEF Agenda!MyProjects
<1>5. Honest(g)'
  BY <1>3, <1>4 DEF Honest, Met, Due
<1>6. Honest(agenda)' /\ Queries(agenda)'
  BY <1>5 DEF Honest, Met, Due, Queries
<1> QED
  BY <1>1, <1>6 DEF AgendaInv

LEMMA AgendaStep == AgendaInv /\ [Agenda!Next]_(Agenda!vars) => AgendaInv'
<1> SUFFICES ASSUME AgendaInv, [Agenda!Next]_(Agenda!vars)
             PROVE  AgendaInv'
  OBVIOUS
<1>1. CASE UNCHANGED Agenda!vars
  <2>1. PICK g : g = agenda
    OBVIOUS
  <2>2. UNCHANGED <<admin, member, live, dated, leave, changes>> /\ agenda' = g
    BY <1>1, <2>1 DEF Agenda!vars, Agenda!rows
  <2> QED
    BY <2>1, <2>2, AgendaKeeps DEF AgendaInv, Agenda!TypeOK
<1>2. ASSUME NEW whose \in {"personal", "organisation"}, NEW u \in Reader,
             NEW from \in 0..LastShown, NEW to \in 0..LastShown,
             Agenda!Begin(whose, u, from, to)
      PROVE  AgendaInv'
  <2>1. PICK h : h = [Agenda!NoRequest EXCEPT !.whose = whose, !.user = u, !.from = from, !.to = to,
                        !.pc = IF whose = "personal" THEN "reading" ELSE "begin",
                        !.todo = IF whose = "personal" THEN {"TASK", "absences"}
                                 ELSE Agenda!Kinds \cup {"people"},
                        !.mine = Agenda!MyProjects(u), !.ever = member]
    OBVIOUS
  <2>2. PICK A : A = Agenda!Reasons(h)
    OBVIOUS
  <2>3. PICK g : g = [h EXCEPT !.always = A]
    OBVIOUS
  <2>4. agenda' = g /\ UNCHANGED <<admin, member, live, dated, leave, changes>>
    BY <1>2, <2>1, <2>2, <2>3, Zenon DEF Agenda!Begin, Agenda!rows
  <2>5. /\ g.whose = whose /\ g.user = u /\ g.from = from /\ g.to = to
        /\ g.mine = Agenda!MyProjects(u) /\ g.ever = member /\ g.always = A
        /\ g.projects = {} /\ g.people = {} /\ g.shown = {}
        /\ h.whose = whose /\ h.user = u /\ h.from = from /\ h.to = to
    BY <2>1, <2>3 DEF Agenda!NoRequest
  <2>6. /\ whose = "personal" => g.pc = "reading" /\ g.todo = {"TASK", "absences"}
        /\ whose = "organisation" => g.pc = "begin" /\ g.todo = Agenda!Kinds \cup {"people"}
    BY <2>1, <2>3 DEF Agenda!NoRequest
  <2>7. Agenda!Reasons(g) = A
    BY <2>2, <2>5 DEF Agenda!Reasons
  <2>8. A \subseteq Agenda!Events \X (Shared \cup {Null})
    BY <2>2, ReasonsTyped DEF AgendaInv
  <2>9. g \in Agenda!Asking
    <3>1. h \in Agenda!Asking
      <4>1. {"TASK", "absences"} \subseteq Agenda!Kinds \cup {"people", "absences"}
        BY DEF Agenda!Kinds
      <4>2. Agenda!MyProjects(u) \subseteq Shared /\ member \subseteq Reader \X Shared
        BY DEF Agenda!MyProjects, AgendaInv, Agenda!TypeOK
      <4>3. Agenda!NoRequest \in Agenda!Asking
        BY AgendaAssumption DEF Agenda!NoRequest, Agenda!Asking
      <4> QED
        BY <2>1, <4>1, <4>2, <4>3 DEF Agenda!Asking
    <3> QED
      BY <2>3, <2>8, <3>1 DEF Agenda!Asking
  <2>10. Queries(g)
    BY <2>5, <2>6 DEF Queries, Agenda!Kinds
  <2>11. ASSUME NEW x \in g.always
         PROVE  Due(x, g)
    BY <2>5, <2>6, <2>7, <2>11, AllDue DEF AgendaInv
  <2>12. Honest(g)
    BY <2>5, <2>6, <2>7, <2>11 DEF Honest
  <2> QED
    BY <2>4, <2>9, <2>10, <2>12, AgendaKeeps DEF AgendaInv
<1>3. CASE Agenda!ReadMyProjects
  <2>1. PICK h : h = agenda
    OBVIOUS
  <2>2. PICK g : g = [h EXCEPT !.pc = "reading", !.projects = Agenda!MyProjects(h.user)]
    OBVIOUS
  <2>3. agenda' = g /\ UNCHANGED <<admin, member, live, dated, leave, changes>> /\ h.pc = "begin"
    BY <1>3, <2>1, <2>2 DEF Agenda!ReadMyProjects, Agenda!rows, Agenda!At
  <2>4. h \in Agenda!Asking /\ Queries(h) /\ Honest(h)
    BY <2>1 DEF AgendaInv, Agenda!TypeOK
  <2>5. /\ g.pc = "reading" /\ g.projects = Agenda!MyProjects(h.user) /\ g.todo = h.todo
        /\ g.whose = h.whose /\ g.user = h.user /\ g.from = h.from /\ g.to = h.to
        /\ g.people = h.people /\ g.shown = h.shown /\ g.always = h.always
        /\ g.mine = h.mine /\ g.ever = h.ever
    BY <2>2, <2>4 DEF Agenda!Asking
  <2>6. g \in Agenda!Asking
    BY <2>2, <2>4 DEF Agenda!Asking, Agenda!MyProjects, AgendaInv, Agenda!TypeOK
  <2>7. Queries(g)
    BY <2>3, <2>4, <2>5 DEF Queries
  <2>8. Agenda!Reasons(g) = Agenda!Reasons(h)
    BY <2>5 DEF Agenda!Reasons
  <2>9. ASSUME NEW x \in g.always
        PROVE  (x[2] = Null /\ g.user \in admin) \/ x[2] \in g.projects
    <3>1. x \in Agenda!Reasons(g)
      BY <2>3, <2>4, <2>5, <2>8, <2>9 DEF Honest
    <3>2. g.whose = "organisation"
      BY <2>3, <2>4, <2>5 DEF Queries
    <3> QED
      BY <2>5, <3>1, <3>2, ReasonOfEvent DEF AgendaInv, Agenda!MyProjects
  <2>10. \A v : Met(v, g) <=> Met(v, h)
    BY <2>5 DEF Met
  <2>11. \A x : Due(x, g) <=> Due(x, h)
    BY <2>5 DEF Due
  <2>12. Honest(g)
    BY <2>3, <2>4, <2>5, <2>8, <2>9, <2>10, <2>11 DEF Honest
  <2> QED
    BY <2>3, <2>6, <2>7, <2>12, AgendaKeeps DEF AgendaInv
<1>4. ASSUME NEW query \in Agenda!Kinds \cup {"people", "absences"}, Agenda!Read(query)
      PROVE  AgendaInv'
  <2>1. PICK h : h = agenda
    OBVIOUS
  <2>2. PICK left : left = h.todo \ {query}
    OBVIOUS
  <2>3. PICK todo : todo = IF left = {} /\ h.whose = "organisation" /\ query # "absences"
                           THEN {"absences"} ELSE left
    OBVIOUS
  <2>4. PICK pc : pc = IF todo = {} THEN "answer" ELSE h.pc
    OBVIOUS
  <2>5. PICK rest : rest = [h EXCEPT !.todo = todo, !.pc = pc]
    OBVIOUS
  <2>6. PICK people : people = Agenda!VisibleUsers(h.user, h.projects)
    OBVIOUS
  <2>7. PICK events : events =
          IF query = "absences"
          THEN Agenda!OfPerson(IF h.whose = "organisation"
                               THEN Agenda!ForUsers(h.people, h.from, h.to)
                               ELSE Agenda!Mine(h.user, h.from, h.to))
          ELSE Agenda!OfProject({i \in IF h.whose = "organisation"
                                       THEN Agenda!Items(h.projects, h.from, h.to)
                                       ELSE Agenda!Assigned(h.user, h.from, h.to) :
                                 dated[i].kind = query})
    OBVIOUS
  <2>8. PICK g : g = IF query = "people" THEN [rest EXCEPT !.people = people]
                     ELSE [rest EXCEPT !.shown = @ \cup events]
    OBVIOUS
  <2>9. /\ agenda' = g
        /\ UNCHANGED <<admin, member, live, dated, leave, changes>>
        /\ h.pc = "reading" /\ query \in h.todo
    BY <1>4, <2>1, <2>2, <2>3, <2>4, <2>5, <2>6, <2>7, <2>8, Zenon
       DEF Agenda!Read, Agenda!At, Agenda!rows
  <2>10. h \in Agenda!Asking /\ Queries(h) /\ Honest(h)
    BY <2>1 DEF AgendaInv, Agenda!TypeOK
  <2>11. /\ g.pc = pc /\ g.todo = todo /\ g.projects = h.projects /\ g.always = h.always
         /\ g.whose = h.whose /\ g.user = h.user /\ g.from = h.from /\ g.to = h.to
         /\ g.mine = h.mine /\ g.ever = h.ever
         /\ query = "people" => g.people = people /\ g.shown = h.shown
         /\ query # "people" => g.people = h.people /\ g.shown = h.shown \cup events
    BY <2>5, <2>8, <2>10 DEF Agenda!Asking
  <2>12. people \subseteq Reader /\ events \subseteq Agenda!Events
    <3>1. h.user \in Reader
      BY <2>9, <2>10 DEF Honest
    <3>2. people \subseteq Reader
      BY <2>6, <3>1 DEF Agenda!VisibleUsers
    <3>3. CASE query = "absences"
      <4>1. events \subseteq Leave \X Reader
        BY <2>7, <3>3, EventsTyped DEF AgendaInv
      <4> QED
        BY <3>2, <4>1 DEF Agenda!Events
    <3>4. CASE query # "absences"
      <4>1. \A P : Agenda!OfProject({i \in Agenda!Items(P, h.from, h.to) : dated[i].kind = query})
                     \subseteq Deadline \X Shared
        BY EventsTyped DEF AgendaInv, Agenda!OfProject
      <4>2. Agenda!OfProject({i \in Agenda!Assigned(h.user, h.from, h.to) : dated[i].kind = query})
              \subseteq Deadline \X Shared
        BY EventsTyped DEF AgendaInv, Agenda!OfProject, Agenda!Assigned
      <4>3. events \subseteq Deadline \X Shared
        BY <2>7, <3>4, <4>1, <4>2
      <4> QED
        BY <3>2, <4>3 DEF Agenda!Events
    <3> QED
      BY <3>3, <3>4
  <2>13. /\ todo \subseteq Agenda!Kinds \cup {"people", "absences"}
         /\ pc \in {"reading", "answer"}
    BY <2>2, <2>3, <2>4, <2>9, <2>10 DEF Agenda!Asking
  <2>14. g \in Agenda!Asking
    BY <2>5, <2>8, <2>10, <2>12, <2>13 DEF Agenda!Asking
  <2>15. Queries(g)
    BY <2>2, <2>3, <2>4, <2>9, <2>10, <2>11, <2>13 DEF Queries
  <2>16. Agenda!Reasons(g) = Agenda!Reasons(h) /\ \A v : Met(v, g) <=> Met(v, h)
    BY <2>11 DEF Agenda!Reasons, Met
  <2>17. \A v \in people : Met(v, h)
    <3>1. h.projects \subseteq h.mine /\ member \subseteq h.ever
      BY <2>9, <2>10 DEF Honest
    <3> QED
      BY <2>6, <3>1 DEF Agenda!VisibleUsers, Met
  <2>18. ASSUME query # "people", h.whose = "organisation", NEW e \in events
         PROVE  e[2] \in h.mine \/ Met(e[2], h)
    <3>1. CASE query = "absences"
      <4>1. e \in Agenda!OfPerson(Agenda!ForUsers(h.people, h.from, h.to))
        BY <2>7, <2>18, <3>1
      <4>2. e[2] \in h.people
        BY <4>1 DEF Agenda!OfPerson, Agenda!ForUsers, Agenda!Mine
      <4> QED
        BY <2>9, <2>10, <4>2 DEF Honest
    <3>2. CASE query # "absences"
      <4>1. e \in Agenda!OfProject({i \in Agenda!Items(h.projects, h.from, h.to) :
                                      dated[i].kind = query})
        BY <2>7, <2>18, <3>2
      <4>2. e[2] \in h.projects
        BY <4>1 DEF Agenda!OfProject, Agenda!Items
      <4> QED
        BY <2>9, <2>10, <4>2 DEF Honest
    <3> QED
      BY <3>1, <3>2
  <2>19. ASSUME NEW x \in h.always
         PROVE  x[1] \in g.shown \/ Due(x, g)
    <3>1. x[1] \in h.shown \/ Due(x, h)
      BY <2>9, <2>10, <2>19 DEF Honest
    <3>2. CASE x[1] \in h.shown
      BY <2>11, <3>2
    <3>3. CASE Due(x, h)
      <4>1. x \in Agenda!Reasons(h) /\ Agenda!TypeOK
        BY <2>9, <2>10, <2>19 DEF Honest, AgendaInv
      <4>2. h.whose \in {"personal", "organisation"} /\ query \in h.todo
        BY <2>9, <2>10 DEF Agenda!Asking
      <4>3. h.whose = "organisation" =>
              (x[2] = Null /\ h.user \in admin) \/ x[2] \in h.projects
        BY <2>9, <2>10, <2>19 DEF Honest
      <4>4. CASE x[1][1] \in Deadline
        <5>1. /\ dated[x[1][1]] # Null /\ x[1] = <<x[1][1], dated[x[1][1]].project>>
              /\ dated[x[1][1]].project \in live
              /\ Agenda!InWindow(dated[x[1][1]], h.from, h.to)
              /\ h.whose = "personal" => /\ dated[x[1][1]].kind = "TASK"
                                         /\ h.user \in dated[x[1][1]].assigned
              /\ h.whose # "personal" =>
                   x[2] = dated[x[1][1]].project /\ <<h.user, x[2]>> \in member
          BY <4>1, <4>4, ReasonOfEvent, AgendaAssumption
        <5>2. dated[x[1][1]].kind \in h.todo /\ dated[x[1][1]].kind \in Agenda!Kinds
          BY <3>3, <4>1, <4>4, <5>1, AgendaAssumption
             DEF Due, Agenda!TypeOK, Agenda!ItemRows, Agenda!ItemRow, Agenda!Kinds
        <5>3. CASE dated[x[1][1]].kind = query
          <6>1. query # "absences" /\ query # "people"
            BY <5>2, <5>3 DEF Agenda!Kinds
          <6>2. CASE h.whose = "personal"
            <7>1. x[1][1] \in Agenda!Assigned(h.user, h.from, h.to)
              BY <4>4, <5>1, <6>2 DEF Agenda!Assigned, Agenda!Items
            <7>2. x[1] \in events
              BY <2>7, <5>1, <5>3, <6>1, <6>2, <7>1 DEF Agenda!OfProject
            <7> QED
              BY <2>11, <6>1, <7>2
          <6>3. CASE h.whose = "organisation"
            <7>1. x[2] \in h.projects
              BY <4>1, <4>3, <5>1, <6>3, AgendaAssumption DEF Agenda!TypeOK
            <7>2. x[1][1] \in Agenda!Items(h.projects, h.from, h.to)
              BY <4>4, <5>1, <6>3, <7>1 DEF Agenda!Items
            <7>3. x[1] \in events
              BY <2>7, <5>1, <5>3, <6>1, <6>3, <7>2 DEF Agenda!OfProject
            <7> QED
              BY <2>11, <6>1, <7>3
          <6> QED
            BY <4>2, <6>2, <6>3
        <5>4. CASE dated[x[1][1]].kind # query
          <6>1. dated[x[1][1]].kind \in left
            BY <2>2, <5>2, <5>4
          <6>2. left # {} /\ todo = left
            BY <2>3, <6>1
          <6> QED
            BY <2>11, <4>4, <6>1, <6>2 DEF Due
        <5> QED
          BY <5>3, <5>4
      <4>5. CASE x[1][1] \in Leave
        <5>1. /\ leave[x[1][1]] # Null
              /\ x[1] = <<x[1][1], leave[x[1][1]].user>>
              /\ Agenda!InWindow(leave[x[1][1]], h.from, h.to)
              /\ h.whose = "personal" => x[1][2] = h.user
              /\ h.whose # "personal" => ~leave[x[1][1]].refused
              /\ h.whose # "personal" /\ h.user \in admin => x[2] = Null
              /\ h.whose # "personal" /\ h.user \notin admin =>
                   x[2] \in Agenda!MyProjects(h.user) /\ <<x[1][2], x[2]>> \in member
          BY <4>1, <4>5, ReasonOfEvent, AgendaAssumption
        <5>2. CASE h.whose = "personal"
          <6>1. "absences" \in h.todo
            BY <3>3, <4>5, <5>2, AgendaAssumption DEF Due
          <6>2. CASE query = "absences"
            <7>1. x[1][1] \in Agenda!Mine(h.user, h.from, h.to)
              BY <4>5, <5>1, <5>2 DEF Agenda!Mine
            <7>2. x[1] \in events
              BY <2>7, <5>1, <5>2, <6>2, <7>1 DEF Agenda!OfPerson
            <7> QED
              BY <2>11, <6>2, <7>2
          <6>3. CASE query # "absences"
            <7>1. "absences" \in todo
              BY <2>2, <2>3, <6>1, <6>3
            <7> QED
              BY <2>11, <4>5, <5>2, <7>1 DEF Due
          <6> QED
            BY <6>2, <6>3
        <5>3. CASE h.whose = "organisation"
          <6>1. "people" \in h.todo \/ x[1][2] \in h.people
            BY <3>3, <4>5, <5>3, AgendaAssumption DEF Due
          <6>2. CASE query = "absences"
            <7>1. h.todo = {"absences"}
              BY <2>10, <4>2, <5>3, <6>2 DEF Queries
            <7>2. x[1][2] \in h.people
              BY <6>1, <7>1
            <7>3. x[1][1] \in Agenda!ForUsers(h.people, h.from, h.to)
              BY <4>5, <5>1, <5>3, <7>2 DEF Agenda!ForUsers, Agenda!Mine
            <7>4. x[1] \in events
              BY <2>7, <5>1, <5>3, <6>2, <7>3 DEF Agenda!OfPerson
            <7> QED
              BY <2>11, <6>2, <7>4
          <6>3. CASE query # "absences"
            <7>1. todo # {}
              BY <2>3, <5>3, <6>3
            <7>2. CASE query = "people"
              <8>1. x[1][2] \in people
                <9>1. x[1][2] \in Reader
                  BY <4>1, <4>5, <5>1
                     DEF Agenda!TypeOK, Agenda!AbsenceRows, Agenda!AbsenceRow
                <9>2. CASE h.user \in admin
                  BY <2>6, <9>1, <9>2 DEF Agenda!VisibleUsers
                <9>3. CASE h.user \notin admin
                  BY <2>6, <4>3, <5>1, <5>3, <9>1, <9>3 DEF Agenda!VisibleUsers
                <9> QED
                  BY <9>2, <9>3
              <8> QED
                BY <2>11, <4>5, <5>3, <7>1, <7>2, <8>1 DEF Due
            <7>3. CASE query # "people"
              <8>1. "people" \in todo \/ x[1][2] \in h.people
                BY <2>2, <2>3, <6>1, <7>3
              <8> QED
                BY <2>11, <4>5, <5>3, <7>1, <7>3, <8>1 DEF Due
            <7> QED
              BY <7>2, <7>3
          <6> QED
            BY <6>2, <6>3
        <5> QED
          BY <4>2, <5>2, <5>3
      <4> QED
        BY <4>1, <4>4, <4>5, ReasonOfEvent
    <3> QED
      BY <3>1, <3>2, <3>3
  <2>20. Honest(g)
    <3>1. \A v \in g.people : Met(v, g)
      BY <2>9, <2>10, <2>11, <2>16, <2>17 DEF Honest
    <3>2. \A e \in g.shown : g.whose = "organisation" => e[2] \in g.mine \/ Met(e[2], g)
      BY <2>9, <2>10, <2>11, <2>16, <2>18 DEF Honest
    <3> QED
      BY <2>9, <2>10, <2>11, <2>16, <2>19, <3>1, <3>2 DEF Honest
  <2> QED
    BY <2>9, <2>14, <2>15, <2>20, AgendaKeeps DEF AgendaInv
<1>5. CASE Agenda!Change
  <2>1. PICK h : h = agenda
    OBVIOUS
  <2>2. PICK A, M, E : /\ A = h.always \cap Agenda!Reasons(h)'
                       /\ M = h.mine \cup Agenda!MyProjects(h.user)'
                       /\ E = h.ever \cup member'
    OBVIOUS
  <2>3. PICK g : g = [h EXCEPT !.always = A, !.mine = M, !.ever = E]
    OBVIOUS
  <2>4. agenda' = g /\ h.pc \in {"begin", "reading"} /\ admin' = admin
    BY <1>5, <2>1, <2>2, <2>3, Zenon DEF Agenda!Change
  <2>5. h \in Agenda!Asking /\ Queries(h) /\ Honest(h) /\ Agenda!TypeOK
    BY <2>1 DEF AgendaInv, Agenda!TypeOK
  <2>6. /\ g.pc = h.pc /\ g.todo = h.todo /\ g.projects = h.projects /\ g.always = A
        /\ g.whose = h.whose /\ g.user = h.user /\ g.from = h.from /\ g.to = h.to
        /\ g.people = h.people /\ g.shown = h.shown
        /\ g.mine = M /\ g.ever = E
    BY <2>3, <2>5 DEF Agenda!Asking
  <2>7. /\ member' \subseteq Reader \X Shared /\ live' \subseteq Shared
        /\ dated' \in [Deadline -> Agenda!ItemRows \cup {Null}]
        /\ leave' \in [Leave -> Agenda!AbsenceRows \cup {Null}]
        /\ changes' \in 0..Changes
        /\ \A i \in Deadline : dated[i] # Null /\ dated'[i] # Null => dated'[i].kind = dated[i].kind
    <3>1. changes' \in 0..Changes
      BY <1>5, <2>5, AgendaAssumption DEF Agenda!Change, Agenda!TypeOK
    <3>2. \/ /\ \E y \in Reader \X Shared :
                  member' = IF y \in member THEN member \ {y} ELSE member \cup {y}
             /\ UNCHANGED <<live, dated, leave>>
          \/ /\ \E p \in Shared : live' = IF p \in live THEN live \ {p} ELSE live \cup {p}
             /\ UNCHANGED <<member, dated, leave>>
          \/ /\ \E i \in Deadline, row \in Agenda!ItemRows \cup {Null} :
                  /\ dated[i] # Null /\ row # Null => row.kind = dated[i].kind
                  /\ dated' = [dated EXCEPT ![i] = row]
             /\ UNCHANGED <<member, live, leave>>
          \/ /\ \E a \in Leave, row \in Agenda!AbsenceRows \cup {Null} :
                  leave' = [leave EXCEPT ![a] = row]
             /\ UNCHANGED <<member, live, dated>>
      BY <1>5, Zenon DEF Agenda!Change
    <3>3. member' \subseteq Reader \X Shared /\ live' \subseteq Shared
      BY <2>5, <3>2 DEF Agenda!TypeOK
    <3>4. leave' \in [Leave -> Agenda!AbsenceRows \cup {Null}]
      BY <2>5, <3>2 DEF Agenda!TypeOK
    <3>5. /\ dated' \in [Deadline -> Agenda!ItemRows \cup {Null}]
          /\ \A i \in Deadline : dated[i] # Null /\ dated'[i] # Null => dated'[i].kind = dated[i].kind
      BY <2>5, <3>2 DEF Agenda!TypeOK
    <3> QED
      BY <3>1, <3>3, <3>4, <3>5
  <2>8. Agenda!TypeOK'
    <3>1. A \subseteq h.always
      BY <2>2
    <3>2. M \subseteq Shared /\ E \subseteq Reader \X Shared
      BY <2>2, <2>5, <2>7 DEF Agenda!Asking, Agenda!MyProjects
    <3>3. g \in Agenda!Asking
      BY <2>3, <2>5, <3>1, <3>2 DEF Agenda!Asking
    <3> QED
      BY <2>4, <2>5, <2>7, <3>3 DEF Agenda!TypeOK
  <2>9. Agenda!Reasons(g)' = Agenda!Reasons(h)'
    BY <2>6 DEF Agenda!Reasons
  <2>10. \A v : Met(v, h) => Met(v, g)'
    BY <2>2, <2>4, <2>6 DEF Met
  <2>11. ASSUME NEW x \in A
         PROVE  x[1] \in h.shown \/ Due(x, g)'
    <3>1. x \in h.always /\ x \in Agenda!Reasons(h) /\ x \in Agenda!Reasons(h)'
      BY <2>2, <2>4, <2>5, <2>11 DEF Honest
    <3>2. x[1] \in h.shown \/ Due(x, h)
      BY <2>4, <2>5, <3>1 DEF Honest
    <3>3. x[1][1] \in Deadline => dated'[x[1][1]].kind = dated[x[1][1]].kind
      <4>1. x[1][1] \in Deadline => dated[x[1][1]] # Null
        BY <2>5, <3>1, ReasonOfEvent, AgendaAssumption
      <4>2. x[1][1] \in Deadline => dated'[x[1][1]] # Null
        BY <3>1, StillThere
      <4> QED
        BY <2>7, <4>1, <4>2
    <3> QED
      BY <2>6, <3>2, <3>3 DEF Due
  <2>12. Honest(g)'
    <3>1. /\ M = h.mine \cup Agenda!MyProjects(h.user)' /\ E = h.ever \cup member'
          /\ A \subseteq Agenda!Reasons(h)'
          /\ A \subseteq h.always
      BY <2>2
    <3>2. \A v \in g.people : Met(v, g)'
      BY <2>4, <2>5, <2>6, <2>10 DEF Honest
    <3>3. \A e \in g.shown : g.whose = "organisation" => e[2] \in g.mine \/ Met(e[2], g)'
      BY <2>4, <2>5, <2>6, <2>10, <3>1 DEF Honest
    <3>4. g.pc # "begin" /\ g.whose = "organisation" =>
            \A x \in g.always : (x[2] = Null /\ g.user \in admin') \/ x[2] \in g.projects
      BY <2>4, <2>5, <2>6, <3>1 DEF Honest
    <3>5. Agenda!MyProjects(g.user)' \subseteq g.mine
      BY <2>6, <3>1 DEF Agenda!MyProjects
    <3>6. g.user \in Reader /\ g.projects \subseteq g.mine /\ member' \subseteq g.ever
      BY <2>4, <2>5, <2>6, <3>1 DEF Honest
    <3>7. g.always \subseteq Agenda!Reasons(g)'
      BY <2>6, <2>9, <3>1
    <3>8. \A x \in g.always : x[1] \in g.shown \/ Due(x, g)'
      BY <2>6, <2>11
    <3> QED
      BY <3>2, <3>3, <3>4, <3>5, <3>6, <3>7, <3>8 DEF Honest
  <2> QED
    BY <2>4, <2>5, <2>6, <2>8, <2>12 DEF AgendaInv, Queries, Honest
<1> QED
  BY <1>1, <1>2, <1>3, <1>4, <1>5 DEF Agenda!Next

\* CalendarService.getPersonal and getOrganisation: whatever changes between their reads, an
\* agenda shows what was to be shown all along, and nobody and nothing that was never the
\* user's to see.
THEOREM AgendasAreHonest == Agenda!Spec => []Agenda!AgendaIsHonest
<1>1. AgendaInv => Agenda!AgendaIsHonest
  <2> SUFFICES ASSUME AgendaInv, agenda.pc = "answer"
               PROVE  /\ \A x \in agenda.always : x[1] \in agenda.shown
                      /\ \A e \in agenda.shown :
                           agenda.whose = "organisation" /\ agenda.user \notin admin =>
                             \/ e[2] \in agenda.mine \cup {agenda.user}
                             \/ \E p \in agenda.mine : <<e[2], p>> \in agenda.ever
    BY DEF Agenda!AgendaIsHonest, Agenda!At
  <2>1. agenda.todo = {} /\ Honest(agenda)
    BY DEF AgendaInv, Queries
  <2>2. \A x \in agenda.always : x[1] \in agenda.shown
    <3>1. \A x \in agenda.always : ~Due(x, agenda)
      BY <2>1 DEF Due
    <3> QED
      BY <2>1, <3>1 DEF Honest
  <2> QED
    BY <2>1, <2>2 DEF Honest, Met
<1> QED
  BY <1>1, AgendaBegins, AgendaStep, PTL DEF Agenda!Spec

\* Absences and agendas, whoever calls the two services.
THEOREM CalendarAlwaysHolds == Absences!Spec /\ Agenda!Spec => []CalendarHolds
<1>1. AbsenceInv /\ Absences!OneAbsenceADay /\ Absences!ApprovedAsRead /\ AgendaInv
        /\ Agenda!AgendaIsHonest => CalendarHolds
  BY AgendaWindows DEF AbsenceInv, AgendaInv, CalendarHolds
<1>2. Absences!Spec => []AbsenceInv
  BY AbsenceInit, AbsenceStep, PTL DEF Absences!Spec
<1>3. Agenda!Spec => []AgendaInv
  BY AgendaBegins, AgendaStep, PTL DEF Agenda!Spec
<1> QED
  BY <1>1, <1>2, <1>3, OneAbsence, ApprovalsAsRead, AgendasAreHonest, PTL

-----------------------------------------------------------------------------
\* The fields of a task: dates in a project, days from its start in a template.
Dated(task) ==
  /\ task.start \in Int \cup {Null} /\ task.end \in Int \cup {Null}
  /\ task.blockedBy \subseteq Place
Lasting(task) ==
  /\ task.offset \in Nat /\ task.duration \in Nat /\ task.duration >= 1
  /\ task.blockedBy \subseteq Place

TemplateInv ==
  /\ project.start \in Int
  /\ project = [start |-> project.start, end |-> project.end, tasks |-> project.tasks]
  /\ \A p \in Place : Dated(project.tasks[p])
  /\ origin \in Int \cup {Null}
  /\ template # Null => \A p \in Place : Lasting(template[p])

LEMMA HalfDays ==
  ASSUME NEW n \in Int
  PROVE  /\ Templates!Days(n) \in Int
         /\ Templates!Days(2 * n) = n
         /\ n % 2 = 0 => 2 * Templates!Days(n) = n
BY DEF Templates!Days, Templates!PerDay

LEMMA AtLeast ==
  ASSUME NEW n \in Int, NEW k \in Int
  PROVE  /\ Templates!Max({k, n}) \in {k, n}
         /\ Templates!Max({k, n}) >= k /\ Templates!Max({k, n}) >= n
BY DEF Templates!Max

\* A captured task begins no earlier than its project and lasts.
LEMMA CapturedLasts ==
  ASSUME NEW task, Dated(task), NEW from \in Int
  PROVE  /\ Templates!StartOf(task, from) \in Int /\ Templates!EndOf(task, from) \in Int
         /\ Lasting(Templates!Captured(task, from))
<1>1. Templates!StartOf(task, from) \in Int
  BY DEF Templates!StartOf, Dated
<1>2. Templates!EndOf(task, from) \in Int
  BY <1>1 DEF Templates!EndOf, Dated
<1> DEFINE x == Templates!Days(Templates!StartOf(task, from) - from)
           y == Templates!Days(Templates!EndOf(task, from) - Templates!StartOf(task, from))
<1>3. x \in Int /\ y \in Int
  BY <1>1, <1>2 DEF Templates!Days, Templates!PerDay
<1>4. /\ Templates!Captured(task, from).offset = Templates!Max({0, x})
      /\ Templates!Captured(task, from).duration = Templates!Max({1, y})
  BY DEF Templates!Captured
<1> HIDE DEF x, y
<1>5. \A k \in Int, n \in Int : Templates!Max({k, n}) \in {k, n} /\ Templates!Max({k, n}) >= k
  BY AtLeast
<1>6. /\ Templates!Max({0, x}) \in Int /\ Templates!Max({0, x}) >= 0
      /\ Templates!Max({1, y}) \in Int /\ Templates!Max({1, y}) >= 1
  BY <1>3, <1>5
<1>7. Templates!Captured(task, from).blockedBy \subseteq Place
  BY DEF Templates!Captured, Dated
<1> QED
  BY <1>1, <1>2, <1>4, <1>6, <1>7 DEF Lasting

\* Capturing what a task of a template became gives that task again.
LEMMA TaskRoundTrip ==
  ASSUME NEW t, Lasting(t), NEW blocked, t = [offset |-> t.offset, duration |-> t.duration,
                                              blockedBy |-> blocked],
         NEW start \in Int
  PROVE  Templates!Captured([start |-> Templates!Begun(t, start), end |-> Templates!Ended(t, start),
                             blockedBy |-> t.blockedBy], start) = t
<1> DEFINE row == [start |-> Templates!Begun(t, start), end |-> Templates!Ended(t, start),
                   blockedBy |-> t.blockedBy]
<1>1. /\ Templates!Begun(t, start) = start + 2 * t.offset
      /\ Templates!Ended(t, start) = start + 2 * t.offset + 2 * t.duration
      /\ Templates!Begun(t, start) \in Int /\ Templates!Ended(t, start) \in Int
  BY DEF Templates!Begun, Templates!Ended, Templates!PerDay, Lasting
<1>2. /\ Templates!StartOf(row, start) = start + 2 * t.offset
      /\ Templates!EndOf(row, start) = start + 2 * t.offset + 2 * t.duration
  BY <1>1, NullIsNoDay DEF Templates!StartOf, Templates!EndOf
<1>3. /\ Templates!Days(Templates!StartOf(row, start) - start) = t.offset
      /\ Templates!Days(Templates!EndOf(row, start) - Templates!StartOf(row, start)) = t.duration
  <2>1. /\ Templates!StartOf(row, start) - start = 2 * t.offset
        /\ Templates!EndOf(row, start) - Templates!StartOf(row, start) = 2 * t.duration
    BY <1>2 DEF Lasting
  <2>2. Templates!Days(2 * t.offset) = t.offset /\ Templates!Days(2 * t.duration) = t.duration
    BY HalfDays DEF Lasting
  <2> QED
    BY <2>1, <2>2
<1>4. Templates!Max({0, t.offset}) = t.offset /\ Templates!Max({1, t.duration}) = t.duration
  <2>1. t.offset \in Int /\ t.offset >= 0 /\ t.duration \in Int /\ t.duration >= 1
    BY DEF Lasting
  <2>2. /\ Templates!Max({0, t.offset}) \in {0, t.offset}
        /\ Templates!Max({0, t.offset}) >= t.offset
        /\ Templates!Max({1, t.duration}) \in {1, t.duration}
        /\ Templates!Max({1, t.duration}) >= t.duration
    BY <2>1, AtLeast
  <2> QED
    BY <2>1, <2>2
<1> QED
  BY <1>3, <1>4 DEF Templates!Captured

\* What a template is captured as, and what it becomes, lasts.
LEMMA TemplateStep ==
  ASSUME TemplateInv, Templates!Next
  PROVE  TemplateInv'
<1> USE DEF TemplateInv, Dated
<1>1. CASE Templates!BeginCreateFromProject
  BY <1>1 DEF Templates!BeginCreateFromProject
<1>2. CASE Templates!CreateFromProject
  <2>1. origin \in Int
    BY <1>2, NullIsNoDay DEF Templates!CreateFromProject
  <2>2. \A p \in Place : Lasting(Templates!Captured(project.tasks[p], origin))
    BY <2>1, CapturedLasts
  <2>3. \A p \in Place : template'[p] = Templates!Captured(project.tasks[p], origin)
    BY <1>2 DEF Templates!CreateFromProject, Templates!Capture
  <2>4. \A p \in Place : Lasting(template'[p])
    BY <2>2, <2>3
  <2> QED
    BY <1>2, <2>4 DEF Templates!CreateFromProject
<1>3. CASE Templates!Instantiate
  <2>1. PICK start \in Time : project' = Templates!Instance(template, start)
    BY <1>3 DEF Templates!Instantiate
  <2>2. start \in Int
    BY TimeAssumption
  <2>3. \A p \in Place : Lasting(template[p])
    BY <1>3 DEF Templates!Instantiate
  <2>4. \A p \in Place : /\ Templates!Begun(template[p], start) \in Int
                         /\ Templates!Ended(template[p], start) \in Int
    BY <2>2, <2>3 DEF Templates!Begun, Templates!Ended, Templates!PerDay, Lasting
  <2>5. \A p \in Place : Dated(project.tasks[p])'
    BY <2>1, <2>3, <2>4 DEF Templates!Instance, Lasting
  <2>6. project'.start \in Int
    BY <2>1, <2>2 DEF Templates!Instance
  <2>7. project' = [start |-> project'.start, end |-> project'.end, tasks |-> project'.tasks]
    BY <2>1 DEF Templates!Instance
  <2> QED
    BY <1>3, <2>5, <2>6, <2>7 DEF Templates!Instantiate
<1>4. CASE Templates!MoveProject
  <2>1. PICK start \in Time : project' = [project EXCEPT !.start = start]
    BY <1>4 DEF Templates!MoveProject
  <2>2. start \in Int
    BY TimeAssumption
  <2>3. project' = [start |-> start, end |-> project.end, tasks |-> project.tasks]
    BY <2>1
  <2> QED
    BY <1>4, <2>2, <2>3 DEF Templates!MoveProject
<1>5. CASE Templates!Abort
  BY <1>5 DEF Templates!Abort
<1> QED
  BY <1>1, <1>2, <1>3, <1>4, <1>5 DEF Templates!Next

LEMMA TemplateHolds == Templates!Spec => []TemplateInv
<1>1. Templates!Init => TemplateInv
  BY TimeAssumption DEF Templates!Init, Templates!Project, Templates!TaskRow, TemplateInv, Dated
<1>2. TemplateInv /\ UNCHANGED Templates!vars => TemplateInv'
  BY DEF TemplateInv, Templates!vars, Dated, Lasting
<1> QED
  BY <1>1, <1>2, TemplateStep, PTL DEF Templates!Spec

LEMMA CaptureRoundTrips ==
  ASSUME TemplateInv, Templates!CreateFromProject, NEW start \in Time
  PROVE  Templates!Capture(Templates!Instance(template', start).tasks, start) = template'
<1> DEFINE made == Templates!Instance(template', start).tasks
<1>0. start \in Int
  BY TimeAssumption
<1>1. origin \in Int
  BY NullIsNoDay DEF Templates!CreateFromProject, TemplateInv
<1>2. template' = [p \in Place |-> Templates!Captured(project.tasks[p], origin)]
  BY DEF Templates!CreateFromProject, Templates!Capture
<1>3. ASSUME NEW p \in Place
      PROVE  Templates!Captured(made[p], start) = template'[p]
  <2> DEFINE t == template'[p]
  <2>1. t = Templates!Captured(project.tasks[p], origin)
    BY <1>2
  <2>2. Lasting(t)
    BY <1>1, <2>1, CapturedLasts DEF TemplateInv
  <2>3. t = [offset |-> t.offset, duration |-> t.duration, blockedBy |-> t.blockedBy]
    BY <2>1 DEF Templates!Captured
  <2>4. made[p] = [start |-> Templates!Begun(t, start), end |-> Templates!Ended(t, start),
                   blockedBy |-> t.blockedBy]
    BY DEF Templates!Instance
  <2> HIDE DEF t
  <2>5. Templates!Captured([start |-> Templates!Begun(t, start), end |-> Templates!Ended(t, start),
                            blockedBy |-> t.blockedBy], start) = t
    BY <1>0, <2>2, <2>3, TaskRoundTrip
  <2> QED
    BY <2>4, <2>5 DEF t
<1>4. Templates!Capture(made, start) = [p \in Place |-> template'[p]]
  BY <1>3 DEF Templates!Capture
<1> QED
  BY <1>2, <1>4

\* A task in whole days keeps its distance from the start of its project.
LEMMA DistanceKept ==
  ASSUME NEW task, Dated(task), NEW from \in Int, NEW start \in Int,
         Templates!StartOf(task, from) >= from,
         Templates!EndOf(task, from) > Templates!StartOf(task, from),
         (Templates!StartOf(task, from) - from) % Templates!PerDay = 0,
         (Templates!EndOf(task, from) - Templates!StartOf(task, from)) % Templates!PerDay = 0
  PROVE  LET t == Templates!Captured(task, from) IN
         /\ Templates!Begun(t, start) = start + (Templates!StartOf(task, from) - from)
         /\ Templates!Ended(t, start) = start + (Templates!EndOf(task, from) - from)
<1> DEFINE b == Templates!StartOf(task, from) - from
           l == Templates!EndOf(task, from) - Templates!StartOf(task, from)
           x == Templates!Days(b)
           y == Templates!Days(l)
<1>1. Templates!StartOf(task, from) \in Int /\ Templates!EndOf(task, from) \in Int
  BY CapturedLasts
<1>2. b \in Int /\ l \in Int /\ b >= 0 /\ l > 0 /\ b % 2 = 0 /\ l % 2 = 0
  BY <1>1 DEF Templates!PerDay
<1>3. /\ Templates!Captured(task, from).offset = Templates!Max({0, x})
      /\ Templates!Captured(task, from).duration = Templates!Max({1, y})
  BY DEF Templates!Captured
<1>4. x \in Int /\ y \in Int /\ 2 * x = b /\ 2 * y = l
  <2> HIDE DEF b, l
  <2> QED
    BY <1>2, HalfDays
<1>5. Templates!EndOf(task, from) - from = b + l
  BY <1>1
<1> HIDE DEF b, l, x, y
<1>6. Templates!Max({0, x}) = x /\ Templates!Max({1, y}) = y
  <2>1. x >= 0 /\ y >= 1
    BY <1>2, <1>4
  <2>2. \A k \in Int, n \in Int : Templates!Max({k, n}) \in {k, n} /\ Templates!Max({k, n}) >= n
    BY AtLeast
  <2>3. /\ Templates!Max({0, x}) \in {0, x} /\ Templates!Max({0, x}) >= x
        /\ Templates!Max({1, y}) \in {1, y} /\ Templates!Max({1, y}) >= y
    BY <1>4, <2>2
  <2> QED
    BY <1>4, <2>1, <2>3
<1>7. /\ Templates!Begun(Templates!Captured(task, from), start) = start + b
      /\ Templates!Ended(Templates!Captured(task, from), start) = start + (b + l)
  BY <1>2, <1>3, <1>4, <1>6 DEF Templates!Begun, Templates!Ended, Templates!PerDay
<1> QED
  BY <1>5, <1>7 DEF b

LEMMA OrderKept ==
  ASSUME TemplateInv, Templates!CreateFromProject, NEW start \in Time,
         Templates!WholeDays(project.tasks, origin), Templates!InOrder(project.tasks, origin)
  PROVE  Templates!InOrder(Templates!Instance(template', start).tasks, start)
<1> DEFINE made == Templates!Instance(template', start).tasks
           Captured(p) == Templates!Captured(project.tasks[p], origin)
<1>0. start \in Int /\ origin \in Int
  BY NullIsNoDay, TimeAssumption DEF Templates!CreateFromProject, TemplateInv
<1>1. \A p \in Place : template'[p] = Captured(p)
  BY DEF Templates!CreateFromProject, Templates!Capture
<1>2. \A p \in Place : /\ made[p].start = Templates!Begun(Captured(p), start)
                       /\ made[p].end = Templates!Ended(Captured(p), start)
                       /\ made[p].blockedBy = project.tasks[p].blockedBy
  <2>1. \A p \in Place : Captured(p).blockedBy = project.tasks[p].blockedBy
    BY DEF Templates!Captured
  <2> HIDE DEF Captured
  <2> QED
    BY <1>1, <2>1 DEF Templates!Instance
<1> HIDE DEF made, Captured
<1>3. ASSUME NEW p \in Place
      PROVE  LET begun == Templates!StartOf(project.tasks[p], origin)
                 ended == Templates!EndOf(project.tasks[p], origin) IN
             /\ begun \in Int /\ ended \in Int
             /\ Templates!StartOf(made[p], start) = start + (begun - origin)
             /\ Templates!EndOf(made[p], start) = start + (ended - origin)
  <2>1. Dated(project.tasks[p])
    BY DEF TemplateInv
  <2>2. /\ Templates!StartOf(project.tasks[p], origin) \in Int
        /\ Templates!EndOf(project.tasks[p], origin) \in Int
    BY <1>0, <2>1, CapturedLasts
  <2>3. /\ Templates!Begun(Captured(p), start)
             = start + (Templates!StartOf(project.tasks[p], origin) - origin)
        /\ Templates!Ended(Captured(p), start)
             = start + (Templates!EndOf(project.tasks[p], origin) - origin)
    BY <1>0, <2>1, DistanceKept DEF Templates!WholeDays, Captured
  <2>4. Templates!Begun(Captured(p), start) \in Int /\ Templates!Ended(Captured(p), start) \in Int
    BY <1>0, <2>2, <2>3
  <2>5. /\ made[p].start = Templates!Begun(Captured(p), start)
        /\ made[p].end = Templates!Ended(Captured(p), start)
    BY <1>2
  <2>6. /\ Templates!StartOf(made[p], start) = Templates!Begun(Captured(p), start)
        /\ Templates!EndOf(made[p], start) = Templates!Ended(Captured(p), start)
    BY <2>4, <2>5, NullIsNoDay DEF Templates!StartOf, Templates!EndOf
  <2> QED
    BY <2>2, <2>3, <2>6
<1>4. ASSUME NEW p \in Place, NEW q \in made[p].blockedBy
      PROVE  Templates!EndOf(made[q], start) <= Templates!StartOf(made[p], start)
  <2>1. q \in project.tasks[p].blockedBy
    BY <1>2
  <2>2. q \in Place
    BY <2>1 DEF TemplateInv, Dated
  <2>3. Templates!EndOf(project.tasks[q], origin) <= Templates!StartOf(project.tasks[p], origin)
    BY <2>1 DEF Templates!InOrder
  <2>4. /\ Templates!StartOf(project.tasks[p], origin) \in Int
        /\ Templates!StartOf(made[p], start)
             = start + (Templates!StartOf(project.tasks[p], origin) - origin)
    BY <1>3
  <2>5. /\ Templates!EndOf(project.tasks[q], origin) \in Int
        /\ Templates!EndOf(made[q], start)
             = start + (Templates!EndOf(project.tasks[q], origin) - origin)
    BY <1>3, <2>2
  <2> QED
    BY <1>0, <2>3, <2>4, <2>5
<1> QED
  BY <1>4 DEF Templates!InOrder, made

\* What a template becomes is captured as that template, and keeps the order of its project.
THEOREM TemplatesAreFaithful == Templates!Spec => TemplatesFaithful
<1>1. TemplateInv /\ [Templates!Next]_Templates!vars =>
        [Templates!CreateFromProject =>
           \A start \in Time : Templates!Capture(Templates!Instance(template', start).tasks, start)
                                 = template']_Templates!vars
  BY CaptureRoundTrips
<1>2. TemplateInv /\ [Templates!Next]_Templates!vars =>
        [Templates!CreateFromProject /\ origin = project.start
           /\ Templates!WholeDays(project.tasks, origin) /\ Templates!InOrder(project.tasks, origin)
         => \A start \in Time :
              Templates!InOrder(Templates!Instance(template', start).tasks, start)]_Templates!vars
  BY OrderKept
<1>3. Templates!Spec => Templates!TemplatesRoundTrip
  BY <1>1, TemplateHolds, PTL DEF Templates!Spec, Templates!TemplatesRoundTrip
<1>4. Templates!Spec => Templates!InstancesKeepOrder
  BY <1>2, TemplateHolds, PTL DEF Templates!Spec, Templates!InstancesKeepOrder
<1> QED
  BY <1>3, <1>4 DEF TemplatesFaithful

-----------------------------------------------------------------------------
\* A milestone or an issue, and what an update that is about to stamp it has read of it.
MarkType(row) ==
  /\ row = [met |-> row.met, at |-> row.at, raced |-> row.raced]
  /\ row.met \in BOOLEAN /\ row.at \in Int \cup {Null} /\ row.raced \in BOOLEAN
  /\ ~row.raced => (row.met <=> row.at # Null)
Fields(h) ==
  h = [op |-> h.op, pc |-> h.pc, on |-> h.on, start |-> h.start, end |-> h.end, to |-> h.to,
       read |-> h.read, met |-> h.met, wasMet |-> h.wasMet, stale |-> h.stale]
Stamper(h) ==
  /\ Fields(h)
  /\ h.pc = "stamp" =>
       /\ h.on \in Iterations!Mark /\ h.met \in BOOLEAN \cup {Null}
       /\ h.wasMet \in BOOLEAN /\ h.stale \in BOOLEAN
       /\ ~h.stale => h.wasMet = mark[h.on].met
MarkInv ==
  /\ today \in Int
  /\ mark = [k \in Iterations!Mark |-> mark[k]]
  /\ \A k \in Iterations!Mark : MarkType(mark[k])
  /\ work = [r \in Request |-> work[r]]
  /\ \A r \in Request : Stamper(work[r])

\* The row as an update writes it.
LEMMA StampedRow ==
  ASSUME NEW row, MarkType(row), today \in Int,
         NEW h, h.met \in BOOLEAN \cup {Null}, h.wasMet \in BOOLEAN, h.stale \in BOOLEAN,
         ~h.stale => h.wasMet = row.met
  PROVE  /\ MarkType(Iterations!Written(row, h))
         /\ ~Iterations!Written(row, h).raced /\ row.met /\ Iterations!Written(row, h).met
              => Iterations!Written(row, h).at = row.at
<1>1. PICK late \in BOOLEAN : late = (row.raced \/ (h.stale /\ h.met # Null))
  OBVIOUS
<1>2. CASE h.met = Null
  <2>1. Iterations!Stamped(row, h) = row
    BY <1>2 DEF Iterations!Stamped
  <2>2. late = row.raced
    BY <1>1, <1>2, Zenon DEF MarkType
  <2>3. Iterations!Written(row, h) = [row EXCEPT !.raced = late]
    BY <1>1, <2>1, Zenon DEF Iterations!Written
  <2>4. Iterations!Written(row, h) = row
    BY <2>2, <2>3 DEF MarkType
  <2> QED
    BY <2>4
<1>3. CASE h.met # Null
  <2>0. h.met \in BOOLEAN
    BY <1>3
  <2>1. PICK at \in Int \cup {Null} :
          at = IF h.met = h.wasMet THEN row.at ELSE IF h.met THEN today ELSE Null
    BY DEF MarkType
  <2>2. Iterations!Stamped(row, h) = [row EXCEPT !.met = h.met, !.at = at]
    BY <1>3, <2>1 DEF Iterations!Stamped, MarkType
  <2>3. Iterations!Stamped(row, h) = [met |-> h.met, at |-> at, raced |-> row.raced]
    BY <2>2 DEF MarkType
  <2>4. Iterations!Written(row, h) = [Iterations!Stamped(row, h) EXCEPT !.raced = late]
    <3>1. Iterations!Stamped(row, h).raced = row.raced
      BY <2>3
    <3> QED
      BY <1>1, <3>1, Zenon DEF Iterations!Written
  <2>5. Iterations!Written(row, h) = [met |-> h.met, at |-> at, raced |-> late]
    BY <2>3, <2>4
  <2>6. late = (row.raced \/ h.stale)
    BY <1>1, <1>3
  <2>7. ~late => (h.met <=> at # Null) /\ (row.met /\ h.met => at = row.at)
    BY <2>0, <2>1, <2>6, NullIsNoDay DEF MarkType
  <2> QED
    BY <2>0, <2>5, <2>7 DEF MarkType
<1> QED
  BY <1>2, <1>3

\* A handler begins, moves on or ends, and the rows of milestones and issues stay.
LEMMA MarksStay ==
  ASSUME MarkInv, UNCHANGED mark, today' \in Int,
         NEW r \in Request, NEW h, Stamper(h), work' = [work EXCEPT ![r] = h]
  PROVE  MarkInv'
<1>1. \A q \in Request : work'[q] = IF q = r THEN h ELSE work[q]
  BY DEF MarkInv
<1>2. \A q \in Request : Stamper(work'[q])
  BY <1>1 DEF MarkInv
<1>3. \A q \in Request : Stamper(work[q])'
  BY <1>2 DEF Stamper, Fields
<1>4. work' = [q \in Request |-> work'[q]]
  BY DEF MarkInv
<1>5. \A k \in Iterations!Mark : MarkType(mark[k])'
  BY DEF MarkInv, MarkType
<1>6. mark' = [k \in Iterations!Mark |-> mark'[k]]
  BY DEF MarkInv
<1> QED
  BY <1>3, <1>4, <1>5, <1>6 DEF MarkInv

\* No handler moves either.
LEMMA MarksIdle ==
  ASSUME MarkInv, UNCHANGED <<mark, work>>, today' \in Int
  PROVE  MarkInv'
BY DEF MarkInv, MarkType, Stamper, Fields

LEMMA Restful == Stamper(Iterations!Resting)
BY DEF Stamper, Fields, Iterations!Resting

\* Requests for sprints and phases never stamp a date.
LEMMA PeriodsStamp ==
  ASSUME MarkInv, NEW r \in Request,
         \/ Iterations!BeginUpdateSprint(r) \/ Iterations!BeginUpdatePhase(r)
         \/ Iterations!CheckActive(r) \/ Iterations!WritePeriod(r) \/ Iterations!Abort(r)
  PROVE  MarkInv'
<1>0. UNCHANGED mark /\ today' = today
  BY DEF Iterations!BeginUpdateSprint, Iterations!BeginUpdatePhase, Iterations!BeginUpdate,
         Iterations!CheckActive, Iterations!WritePeriod, Iterations!Abort, Iterations!rows
<1>1. today' \in Int
  BY <1>0 DEF MarkInv
<1>2. CASE Iterations!Finish(r)
  BY <1>0, <1>1, <1>2, MarksStay, Restful DEF Iterations!Finish
<1>3. CASE Iterations!Goto(r, "write")
  <2>1. PICK h : h = [work[r] EXCEPT !.pc = "write"]
    OBVIOUS
  <2>2. work' = [work EXCEPT ![r] = h]
    BY <1>3, <2>1, Zenon DEF Iterations!Goto
  <2>3. Stamper(h)
    BY <2>1 DEF MarkInv, Stamper, Fields
  <2> QED
    BY <1>0, <1>1, <2>2, <2>3, MarksStay
<1>4. ASSUME NEW op, NEW p, NEW to, Iterations!BeginUpdate(r, op, p, to)
      PROVE  MarkInv'
  <2>1. PICK start, end \in Iterations!Asked :
          Iterations!Accept(r, [Iterations!Resting EXCEPT !.op = op, !.on = p, !.to = to,
                                  !.read = period[p], !.start = start, !.end = end,
                                  !.pc = IF to = "ACTIVE" THEN "active" ELSE "write"])
    BY <1>4, Zenon DEF Iterations!BeginUpdate
  <2>2. PICK pc : pc = IF to = "ACTIVE" THEN "active" ELSE "write"
    OBVIOUS
  <2>3. pc # "stamp"
    BY <2>2
  <2>4. PICK h : h = [Iterations!Resting EXCEPT !.op = op, !.on = p, !.to = to,
                        !.read = period[p], !.start = start, !.end = end, !.pc = pc]
    OBVIOUS
  <2>5. work' = [work EXCEPT ![r] = h]
    BY <2>1, <2>2, <2>4, Zenon DEF Iterations!Accept
  <2>6. Stamper(h)
    BY <2>3, <2>4 DEF Stamper, Fields, Iterations!Resting
  <2> QED
    BY <1>0, <1>1, <2>5, <2>6, MarksStay
<1> QED
  BY <1>2, <1>3, <1>4 DEF Iterations!BeginUpdateSprint, Iterations!BeginUpdatePhase,
     Iterations!CheckActive, Iterations!WritePeriod, Iterations!Abort

LEMMA MarksRead ==
  ASSUME MarkInv, NEW r \in Request,
         Iterations!BeginUpdateMilestone(r) \/ Iterations!BeginUpdateIssue(r)
  PROVE  MarkInv'
<1>1. PICK op \in {"updateMilestone", "updateIssue"}, k \in Iterations!Mark :
        Iterations!BeginUpdateMark(r, op, k)
  <2>1. CASE Iterations!BeginUpdateMilestone(r)
    BY <2>1, Zenon DEF Iterations!BeginUpdateMilestone, Iterations!Mark
  <2>2. CASE Iterations!BeginUpdateIssue(r)
    BY <2>2, Zenon DEF Iterations!BeginUpdateIssue, Iterations!Mark
  <2> QED
    BY <2>1, <2>2
<1>2. PICK met \in BOOLEAN \cup {Null} :
        Iterations!Accept(r, [Iterations!Resting EXCEPT !.op = op, !.pc = "stamp", !.on = k,
                                !.met = met, !.wasMet = mark[k].met])
  BY <1>1, Zenon DEF Iterations!BeginUpdateMark
<1>3. PICK h : h = [Iterations!Resting EXCEPT !.op = op, !.pc = "stamp", !.on = k,
                      !.met = met, !.wasMet = mark[k].met]
  OBVIOUS
<1>4. work' = [work EXCEPT ![r] = h]
  BY <1>2, <1>3, Zenon DEF Iterations!Accept
<1>5. Stamper(h)
  BY <1>3 DEF Stamper, Fields, Iterations!Resting, MarkInv, MarkType
<1>6. UNCHANGED mark /\ today' = today
  BY <1>1 DEF Iterations!BeginUpdateMark, Iterations!rows
<1> QED
  BY <1>4, <1>5, <1>6, MarksStay DEF MarkInv

\* One row is written, from what its writer read of it; who else had read it is told.
LEMMA MarkWritten ==
  ASSUME MarkInv, NEW r \in Request, Iterations!WriteMark(r)
  PROVE  /\ MarkInv'
         /\ \A k \in Iterations!Mark : ~mark'[k].raced =>
              /\ mark'[k].met <=> mark'[k].at # Null
              /\ mark[k].met /\ mark'[k].met => mark'[k].at = mark[k].at
<1> DEFINE h == work[r]
           k == h.on
<1>1. h.pc = "stamp" /\ today' = today
  BY DEF Iterations!WriteMark, Iterations!At
<1>2. /\ k \in Iterations!Mark /\ h.met \in BOOLEAN \cup {Null}
      /\ h.wasMet \in BOOLEAN /\ h.stale \in BOOLEAN
      /\ ~h.stale => h.wasMet = mark[k].met
  BY <1>1 DEF MarkInv, Stamper
<1>3. PICK row : row = Iterations!Written(mark[k], h)
  OBVIOUS
<1>4. /\ MarkType(row)
      /\ ~row.raced /\ mark[k].met /\ row.met => row.at = mark[k].at
  BY <1>2, <1>3, StampedRow DEF MarkInv
<1>5. mark' = [mark EXCEPT ![k] = row]
  BY <1>3, Zenon DEF Iterations!WriteMark
<1>6. \A j \in Iterations!Mark : mark'[j] = IF j = k THEN row ELSE mark[j]
  BY <1>5 DEF MarkInv
<1>7. mark' = [j \in Iterations!Mark |-> mark'[j]]
  BY <1>5 DEF MarkInv
<1>8. \A j \in Iterations!Mark : MarkType(mark'[j])
  BY <1>4, <1>6 DEF MarkInv
<1>9. ASSUME NEW q \in Request
      PROVE  Stamper(work[q])'
  <2>1. CASE q = r
    <3>1. work'[q] = Iterations!Resting
      BY <2>1 DEF Iterations!WriteMark
    <3> QED
      BY <3>1 DEF Stamper, Fields, Iterations!Resting
  <2>2. CASE q # r
    <3>1. PICK late \in BOOLEAN : late = (work[q].stale \/ (work[q].on = k /\ mark' # mark))
      OBVIOUS
    <3>2. PICK g : g = [work[q] EXCEPT !.stale = late]
      OBVIOUS
    <3>3. work'[q] = g
      BY <2>2, <3>1, <3>2, Zenon DEF Iterations!WriteMark
    <3>4. Stamper(work[q])
      BY DEF MarkInv
    <3>5. /\ Fields(g) /\ g.pc = work[q].pc /\ g.on = work[q].on /\ g.met = work[q].met
          /\ g.wasMet = work[q].wasMet /\ g.stale = late
      BY <3>2, <3>4 DEF Stamper, Fields
    <3>6. ~late /\ g.on \in Iterations!Mark => mark'[g.on] = mark[g.on] /\ ~work[q].stale
      BY <1>6, <3>1, <3>5
    <3> HIDE DEF h, k
    <3>7. /\ Fields(work'[q])
          /\ work'[q].pc = "stamp" =>
               /\ work'[q].on \in Iterations!Mark /\ work'[q].met \in BOOLEAN \cup {Null}
               /\ work'[q].wasMet \in BOOLEAN /\ work'[q].stale \in BOOLEAN
               /\ ~work'[q].stale => work'[q].wasMet = mark'[work'[q].on].met
      BY <3>3, <3>4, <3>5, <3>6 DEF Stamper
    <3> QED
      BY <3>7 DEF Stamper, Fields
  <2> QED
    BY <2>1, <2>2
<1>10. work' = [q \in Request |-> work'[q]]
  BY DEF Iterations!WriteMark
<1>11. MarkInv'
  <2>1. \A j \in Iterations!Mark : MarkType(mark[j])'
    BY <1>8 DEF MarkType
  <2>2. today' \in Int
    BY <1>1 DEF MarkInv
  <2> QED
    BY <1>7, <1>9, <1>10, <2>1, <2>2 DEF MarkInv
<1>12. \A j \in Iterations!Mark : ~mark'[j].raced =>
         /\ mark'[j].met <=> mark'[j].at # Null
         /\ mark[j].met /\ mark'[j].met => mark'[j].at = mark[j].at
  <2> HIDE DEF h, k
  <2> QED
    BY <1>4, <1>6, <1>8 DEF MarkType
<1> QED
  BY <1>11, <1>12

LEMMA MarkStep ==
  ASSUME MarkInv, Iterations!Next
  PROVE  /\ MarkInv'
         /\ \A k \in Iterations!Mark : ~mark'[k].raced =>
              /\ mark'[k].met <=> mark'[k].at # Null
              /\ mark[k].met /\ mark'[k].met => mark'[k].at = mark[k].at
<1>1. ASSUME MarkInv', UNCHANGED mark
      PROVE  \A k \in Iterations!Mark : ~mark'[k].raced =>
               /\ mark'[k].met <=> mark'[k].at # Null
               /\ mark[k].met /\ mark'[k].met => mark'[k].at = mark[k].at
  BY <1>1 DEF MarkInv, MarkType
<1>2. CASE \E r \in Request : Iterations!WriteMark(r)
  BY <1>2, MarkWritten
<1>3. ASSUME NEW r \in Request,
             \/ Iterations!BeginUpdateSprint(r) \/ Iterations!BeginUpdatePhase(r)
             \/ Iterations!CheckActive(r) \/ Iterations!WritePeriod(r) \/ Iterations!Abort(r)
      PROVE  MarkInv' /\ UNCHANGED mark
  BY <1>3, PeriodsStamp
     DEF Iterations!BeginUpdateSprint, Iterations!BeginUpdatePhase, Iterations!BeginUpdate,
         Iterations!CheckActive, Iterations!WritePeriod, Iterations!Abort, Iterations!rows
<1>4. ASSUME NEW r \in Request,
             Iterations!BeginUpdateMilestone(r) \/ Iterations!BeginUpdateIssue(r)
      PROVE  MarkInv' /\ UNCHANGED mark
  BY <1>4, MarksRead
     DEF Iterations!BeginUpdateMilestone, Iterations!BeginUpdateIssue,
         Iterations!BeginUpdateMark, Iterations!rows
<1>5. CASE \/ Iterations!CreateSprint \/ Iterations!CreatePhase \/ Iterations!RemoveSprint
           \/ Iterations!RemovePhase \/ Iterations!AssignTasks \/ Iterations!CompleteTask
           \/ Iterations!ReopenTask \/ Iterations!NextDay
  <2>1. UNCHANGED <<mark, work>>
    BY <1>5 DEF Iterations!CreateSprint, Iterations!CreatePhase, Iterations!Create,
         Iterations!RemoveSprint, Iterations!RemovePhase, Iterations!Remove,
         Iterations!AssignTasks, Iterations!CompleteTask, Iterations!ReopenTask,
         Iterations!NextDay
  <2>2. today' = today \/ today' = today + 1
    BY <1>5 DEF Iterations!CreateSprint, Iterations!CreatePhase, Iterations!Create,
         Iterations!RemoveSprint, Iterations!RemovePhase, Iterations!Remove,
         Iterations!AssignTasks, Iterations!CompleteTask, Iterations!ReopenTask,
         Iterations!NextDay
  <2>3. today' \in Int
    BY <2>2 DEF MarkInv
  <2>4. MarkInv'
    BY <2>1, <2>3, MarksIdle
  <2> QED
    BY <1>1, <2>1, <2>4
<1> QED
  BY <1>1, <1>2, <1>3, <1>4, <1>5 DEF Iterations!Next

\* The date of a milestone or an issue follows its status.
LEMMA MarksFollow == Iterations!Spec => Iterations!DatesOfMarksHold
<1>1. Iterations!Init => MarkInv
  <2> SUFFICES ASSUME Iterations!Init PROVE MarkInv
    OBVIOUS
  <2>1. \A k \in Iterations!Mark : MarkType(mark[k])
    BY DEF Iterations!Init, Iterations!InitRows, MarkType
  <2>2. \A r \in Request : Stamper(work[r])
    BY Restful DEF Iterations!Init, Iterations!InitRows
  <2>3. today = 0
    BY DEF Iterations!Init, Iterations!InitRows
  <2>4. /\ mark = [k \in Iterations!Mark |-> mark[k]]
        /\ work = [r \in Request |-> work[r]]
    BY DEF Iterations!Init, Iterations!InitRows
  <2> QED
    BY <2>1, <2>2, <2>3, <2>4 DEF MarkInv
<1>2. MarkInv /\ [Iterations!Next]_Iterations!vars => MarkInv'
  <2>1. ASSUME MarkInv, UNCHANGED Iterations!vars PROVE MarkInv'
    <3>1. UNCHANGED <<mark, work>> /\ today' = today
      BY <2>1 DEF Iterations!vars
    <3> QED
      BY <2>1, <3>1, MarksIdle DEF MarkInv
  <2> QED
    BY <2>1, MarkStep
<1>3. MarkInv /\ [Iterations!Next]_Iterations!vars =>
        [\A k \in Iterations!Mark : ~mark'[k].raced =>
           /\ mark'[k].met <=> mark'[k].at # Null
           /\ mark[k].met /\ mark'[k].met => mark'[k].at = mark[k].at]_Iterations!vars
  BY MarkStep
<1> QED
  BY <1>1, <1>2, <1>3, PTL DEF Iterations!Spec, Iterations!DatesOfMarksHold

\* Dates that follow others do: templates and their instances, milestones and issues, for
\* any number of them, any dates and any number of requests at once.
THEOREM DatesAlwaysFollow == Templates!Spec /\ Iterations!Spec => DatesFollow
BY TemplatesAreFaithful, MarksFollow DEF DatesFollow

-----------------------------------------------------------------------------
(***************************************************************************)
(* A loop over a list, as a fold: what it computes, turn by turn.            *)
(***************************************************************************)
LEMMA GreatestOf ==
  ASSUME NEW S \in SUBSET Int, IsFiniteSet(S), S # {}
  PROVE  Max(S) \in S /\ \A y \in S : y <= Max(S)
<1> DEFINE Good == {T \in SUBSET S : T # {} => \E m \in T : \A y \in T : m >= y}
<1>1. {} \in Good
  OBVIOUS
<1>2. ASSUME NEW T \in SUBSET S, NEW x \in S \ T, T \in Good
      PROVE  T \cup {x} \in Good
  <2>1. CASE T = {}
    BY <2>1
  <2>2. CASE T # {}
    <3>1. PICK m \in T : \A y \in T : m >= y
      BY <1>2, <2>2
    <3>2. x \in Int /\ m \in Int /\ T \subseteq Int
      OBVIOUS
    <3>3. \A y \in T \cup {x} : (IF x >= m THEN x ELSE m) >= y
      BY <3>1, <3>2
    <3> QED BY <3>2, <3>3
  <2> QED BY <2>1, <2>2
<1> HIDE DEF Good
<1>3. S \in Good
  BY <1>1, <1>2, EverySubset
<1>4. \E m \in S : \A y \in S : m >= y
  BY <1>3 DEF Good
<1>5. Max(S) \in S /\ \A y \in S : Max(S) >= y
  BY <1>4 DEF Max
<1> QED BY <1>5

\* Its negatives have a greatest: a finite set of whole numbers has a smallest.
LEMMA SmallestInt ==
  ASSUME NEW S \in SUBSET Int, IsFiniteSet(S), S # {}
  PROVE  Min(S) \in S /\ \A y \in S : Min(S) <= y
<1>1. \E m \in S : \A y \in S : m <= y
  BY LeastOf
<1> QED BY <1>1 DEF Min

\* The greatest of the first n numbers is n.
LEMMA LastIndex ==
  ASSUME NEW n \in Nat, NEW s \in SUBSET (1..n), s # {}
  PROVE  Max(s) \in s /\ \A y \in s : y <= Max(s)
<1>1. IsFiniteSet(1..n) /\ s \in SUBSET Int
  BY FS_Interval
<1>2. IsFiniteSet(s)
  BY <1>1, FS_Subset
<1> QED BY <1>1, <1>2, GreatestOf

\* A fold goes over the indices of the list, the last one outermost.
Runs(h, base, step, n) ==
  /\ h[{}] = base
  /\ \A s \in SUBSET (1..n) : s # {} => h[s] = step[<<h[s \ {Max(s)}], Max(s)>>]

\* What a fold computes is such a run.
LEMMA FoldRuns ==
  ASSUME NEW n \in Nat, NEW A, NEW base \in A, NEW step \in [A \X (1..n) -> A]
  PROVE  \E h \in [SUBSET (1..n) -> A] : Runs(h, base, step, n)
<1> DEFINE Has(k) == \E h \in [SUBSET (1..k) -> A] : Runs(h, base, step, k)
           Good == {k \in Nat : k <= n => Has(k)}
<1>1. Has(0)
  <2> DEFINE h == [s \in SUBSET (1..0) |-> base]
  <2>1. h \in [SUBSET (1..0) -> A] /\ Runs(h, base, step, 0)
    <3>1. 1..0 = {}
      OBVIOUS
    <3> QED BY <3>1 DEF Runs
  <2> HIDE DEF h
  <2> QED BY <2>1
<1>2. ASSUME NEW k \in Nat, k + 1 <= n, Has(k) PROVE Has(k + 1)
  <2>1. PICK g \in [SUBSET (1..k) -> A] : Runs(g, base, step, k)
    BY <1>2
  <2> DEFINE h == [s \in SUBSET (1..k + 1) |->
                     IF s = {} THEN base ELSE step[<<g[s \ {Max(s)}], Max(s)>>]]
  <2>2. ASSUME NEW s \in SUBSET (1..k + 1), s # {}
        PROVE  s \ {Max(s)} \in SUBSET (1..k) /\ Max(s) \in 1..n
    <3>0. k + 1 \in Nat
      OBVIOUS
    <3>1. Max(s) \in s /\ \A y \in s : y <= Max(s)
      BY <2>2, <3>0, LastIndex
    <3>2. ASSUME NEW y \in s \ {Max(s)} PROVE y \in 1..k
      <4>1. y \in 1..k + 1 /\ Max(s) \in 1..k + 1 /\ y <= Max(s) /\ y # Max(s)
        BY <3>1
      <4> QED BY <4>1
    <3>3. Max(s) \in 1..n
      <4>1. Max(s) \in 1..k + 1
        BY <3>1
      <4> QED BY <1>2, <4>1
    <3> QED BY <3>2, <3>3
  <2>3. h \in [SUBSET (1..k + 1) -> A]
    <3> SUFFICES ASSUME NEW s \in SUBSET (1..k + 1), s # {}
                 PROVE  step[<<g[s \ {Max(s)}], Max(s)>>] \in A
      OBVIOUS
    <3> QED BY <2>2
  <2>4. \A s \in SUBSET (1..k) : h[s] = g[s]
    <3> SUFFICES ASSUME NEW s \in SUBSET (1..k) PROVE h[s] = g[s]
      OBVIOUS
    <3>1. s \in SUBSET (1..k + 1)
      OBVIOUS
    <3> QED BY <2>1, <3>1 DEF Runs
  <2>5. Runs(h, base, step, k + 1)
    <3>1. ASSUME NEW s \in SUBSET (1..k + 1), s # {}
          PROVE  h[s] = step[<<h[s \ {Max(s)}], Max(s)>>]
      <4>1. h[s \ {Max(s)}] = g[s \ {Max(s)}]
        BY <2>2, <2>4, <3>1
      <4>2. h[s] = step[<<g[s \ {Max(s)}], Max(s)>>]
        BY <3>1
      <4> HIDE DEF h
      <4> QED BY <4>1, <4>2
    <3>2. h[{}] = base
      OBVIOUS
    <3> HIDE DEF h
    <3> QED BY <3>1, <3>2 DEF Runs
  <2> HIDE DEF h
  <2> QED BY <2>3, <2>5
<1> HIDE DEF Has
<1>3. 0 \in Good /\ \A k \in Nat : k \in Good => k + 1 \in Good
  BY <1>1, <1>2
<1> HIDE DEF Good
<1>4. n \in Good /\ n <= n
  BY <1>3, EveryNumber
<1> QED BY <1>4 DEF Good, Has

\* Such a run exists, with what is needed to see a fold in it.
Folded(h, base, step, A, n) ==
  /\ h = [s \in SUBSET (1..n) |-> h[s]]
  /\ h[{}] = base
  /\ \A s \in SUBSET (1..n) : s # {} => /\ <<h[s \ {Max(s)}], Max(s)>> \in A \X (1..n)
                                       /\ h[s] = step[<<h[s \ {Max(s)}], Max(s)>>]

LEMMA FoldExists ==
  ASSUME NEW n \in Nat, NEW A, NEW base \in A, NEW step \in [A \X (1..n) -> A]
  PROVE  \E h : Folded(h, base, step, A, n)
<1>1. PICK h \in [SUBSET (1..n) -> A] : Runs(h, base, step, n)
  BY FoldRuns
<1>2. ASSUME NEW s \in SUBSET (1..n), s # {}
      PROVE  <<h[s \ {Max(s)}], Max(s)>> \in A \X (1..n)
  <2>1. Max(s) \in 1..n /\ s \ {Max(s)} \in SUBSET (1..n)
    BY <1>2, LastIndex
  <2> QED BY <2>1
<1> QED BY <1>1, <1>2 DEF Runs, Folded

\* What a fold computes is such a run.
Follows(h, base, step, A, n) ==
  /\ h[{}] = base
  /\ \A s \in SUBSET (1..n) : s # {} /\ Max(s) \in 1..n /\ h[s \ {Max(s)}] \in A
                                => h[s] = step[<<h[s \ {Max(s)}], Max(s)>>]

\* What it has after i turns.
Stages(g, base, step, A, n) ==
  /\ g \in [0..n -> A] /\ g[0] = base
  /\ \A i \in 1..n : g[i] = step[<<g[i - 1], i>>]

Yields(last, base, step, A, n) == \E g : Stages(g, base, step, A, n) /\ last = g[n]

\* The run over 1, 1..2, 1..3, ... are the turns of the loop.
LEMMA FoldStages ==
  ASSUME NEW n \in Nat, NEW A, NEW base \in A, NEW step \in [A \X (1..n) -> A],
         NEW h, Follows(h, base, step, A, n)
  PROVE  Yields(h[1..n], base, step, A, n)
<1> DEFINE g == [i \in 0..n |-> h[1..i]]
           Good == {i \in Nat : i <= n => h[1..i] \in A}
<1>1. ASSUME NEW i \in 1..n, h[1..i - 1] \in A
      PROVE  h[1..i] = step[<<h[1..i - 1], i>>]
  <2>1. 1..i \in SUBSET (1..n) /\ 1..i # {} /\ i \in 1..i
    OBVIOUS
  <2>2. Max(1..i) \in 1..i /\ \A y \in 1..i : y <= Max(1..i)
    BY <2>1, LastIndex
  <2>3. Max(1..i) = i /\ i \in 1..n
    BY <2>1, <2>2
  <2>4. (1..i) \ {i} = 1..i - 1
    OBVIOUS
  <2> QED BY <1>1, <2>1, <2>3, <2>4 DEF Follows
<1>2. 0 \in Good
  <2>1. 1..0 = {}
    OBVIOUS
  <2> QED BY <2>1 DEF Follows
<1>3. ASSUME NEW i \in Nat, i \in Good PROVE i + 1 \in Good
  <2> SUFFICES ASSUME i + 1 <= n PROVE h[1..i + 1] \in A
    OBVIOUS
  <2>1. i + 1 \in 1..n /\ (i + 1) - 1 = i /\ h[1..i] \in A
    BY <1>3
  <2>2. h[1..i + 1] = step[<<h[1..i], i + 1>>]
    BY <1>1, <2>1
  <2> QED BY <2>1, <2>2
<1> HIDE DEF Good
<1>4. Nat \subseteq Good
  BY <1>2, <1>3, EveryNumber
<1>5. \A i \in 0..n : h[1..i] \in A
  BY <1>4 DEF Good
<1>6. 1..0 = {}
  OBVIOUS
<1>7. \A i \in 1..n : g[i] = step[<<g[i - 1], i>>]
  BY <1>1, <1>5
<1>8. g \in [0..n -> A] /\ g[0] = base /\ g[n] = h[1..n]
  BY <1>5, <1>6 DEF Follows
<1> HIDE DEF g
<1> QED BY <1>7, <1>8 DEF Stages, Yields

-----------------------------------------------------------------------------
BestStep(list, length, t) ==
  [x \in ({Null} \cup Before(t)) \X (1..Len(list)) |->
     IF /\ list[x[2]] \in Before(t)
        /\ length[list[x[2]]] > (IF x[1] = Null THEN 0 ELSE length[x[1]])
     THEN list[x[2]] ELSE x[1]]

\* The turns of the loop over the predecessors of a task.
LEMMA BestStages ==
  ASSUME NEW list \in Seq(top), NEW length, NEW t
  PROVE  Yields(Best(list, length, t), Null, BestStep(list, length, t),
                {Null} \cup Before(t), Len(list))
<1> DEFINE n == Len(list)
           A == {Null} \cup Before(t)
           step == BestStep(list, length, t)
           Turn(x, i) == IF /\ list[i] \in Before(t)
                            /\ length[list[i]] > (IF x = Null THEN 0 ELSE length[x])
                         THEN list[i] ELSE x
           Step(h) == [s \in SUBSET (1..n) |->
                         IF s = {} THEN Null ELSE Turn(h[s \ {Max(s)}], Max(s))]
           iter == CHOOSE h : h = Step(h)
<1>1. n \in Nat /\ DOMAIN list = 1..n
  OBVIOUS
<1>2. Best(list, length, t) = iter[1..n]
  BY <1>1 DEF Best, FoldLeft, MapThenFoldSet
<1>3. step \in [A \X (1..n) -> A] /\ Null \in A
  BY DEF BestStep
<1>4. \A x \in A, i \in 1..n : step[<<x, i>>] = Turn(x, i)
  BY DEF BestStep
<1> HIDE DEF Turn, A, step
<1>5. \E h : h = Step(h)
  <2>1. PICK h : Folded(h, Null, step, A, n)
    BY <1>1, <1>3, FoldExists
  <2>2. \A s \in SUBSET (1..n) : s # {} => h[s] = Turn(h[s \ {Max(s)}], Max(s))
    BY <1>4, <2>1 DEF Folded
  <2> QED BY <2>1, <2>2 DEF Folded
<1>6. iter = Step(iter)
  BY <1>5
<1> HIDE DEF iter
<1>7. Follows(iter, Null, step, A, n)
  BY <1>4, <1>6 DEF Follows
<1> HIDE DEF n
<1>8. Yields(iter[1..n], Null, step, A, n)
  BY <1>1, <1>3, <1>7, FoldStages
<1> QED BY <1>2, <1>8 DEF step, A, n

-----------------------------------------------------------------------------
(***************************************************************************)
(* PertService: the passes over the tasks.                                  *)
(***************************************************************************)
Zeros == [t \in top |-> 0]
AllAt(end) == [t \in top |-> end]
Paths == [length : [top -> Nat], prev : [top -> top \cup {Null}]]

Ahead(a, x, days, S) == {a} \cup {x[b] + days[b] : b \in S}
Behind(a, x, days, S) == {a} \cup {x[n] - days[n] : n \in S}

\* What a relaxation takes the greatest, or the smallest, of.
LEMMA ReachOf ==
  ASSUME NEW S \in SUBSET top, IsFiniteSet(top), NEW x \in [top -> Int], NEW days \in [top -> Int],
         NEW a \in Int
  PROVE  /\ Ahead(a, x, days, S) \in SUBSET Int /\ IsFiniteSet(Ahead(a, x, days, S))
         /\ Behind(a, x, days, S) \in SUBSET Int /\ IsFiniteSet(Behind(a, x, days, S))
<1> DEFINE f == [b \in S |-> x[b] + days[b]]
           g == [b \in S |-> x[b] - days[b]]
<1>1. IsFiniteSet(S)
  BY FS_Subset
<1>2. IsFiniteSet({f[b] : b \in S}) /\ IsFiniteSet({g[b] : b \in S})
  <2> HIDE DEF f, g
  <2> QED BY <1>1, ImageFinite
<1>3. Ahead(a, x, days, S) = {a} \cup {f[b] : b \in S} /\ Behind(a, x, days, S) = {a} \cup {g[b] : b \in S}
  BY DEF Ahead, Behind
<1>4. IsFiniteSet({a} \cup {f[b] : b \in S}) /\ IsFiniteSet({a} \cup {g[b] : b \in S})
  <2> HIDE DEF f, g
  <2>1. IsFiniteSet({a})
    BY FS_Singleton
  <2> QED BY <1>2, <2>1, FS_Union
<1>5. \A b \in S : x[b] + days[b] \in Int /\ x[b] - days[b] \in Int
  OBVIOUS
<1>6. Ahead(a, x, days, S) \in SUBSET Int /\ Behind(a, x, days, S) \in SUBSET Int
  BY <1>5 DEF Ahead, Behind
<1> HIDE DEF f, g
<1> QED BY <1>3, <1>4, <1>6

\* A task relaxed forward starts no earlier than before, or than those before it end.
LEMMA EarlierIs ==
  ASSUME IsFiniteSet(top), NEW es \in [top -> Nat], NEW days \in [top -> Nat], NEW t \in top
  PROVE  /\ Earlier(es, t, days) \in [top -> Nat]
         /\ \A u \in top \ {t} : Earlier(es, t, days)[u] = es[u]
         /\ Earlier(es, t, days)[t] >= es[t]
         /\ \A b \in Before(t) : Earlier(es, t, days)[t] >= es[b] + days[b]
         /\ \/ Earlier(es, t, days)[t] = es[t]
            \/ \E b \in Before(t) : Earlier(es, t, days)[t] = es[b] + days[b]
<1> DEFINE S == Ahead(es[t], es, days, Before(t))
<1>1. Before(t) \in SUBSET top /\ es \in [top -> Int] /\ days \in [top -> Int] /\ es[t] \in Int
  BY DEF Before
<1>2. S \in SUBSET Int /\ IsFiniteSet(S)
  BY <1>1, ReachOf
<1>3. S # {}
  BY DEF Ahead
<1>4. Max(S) \in S /\ \A y \in S : y <= Max(S)
  <2> HIDE DEF S
  <2> QED BY <1>2, <1>3, GreatestOf
<1>5. S \subseteq Nat
  BY <1>1 DEF Ahead
<1>6. Earlier(es, t, days) = [es EXCEPT ![t] = Max(S)]
  BY DEF Earlier, Ahead
<1>7. Earlier(es, t, days)[t] = Max(S)
  BY <1>6
<1>8. Max(S) = es[t] \/ \E b \in Before(t) : Max(S) = es[b] + days[b]
  BY <1>4 DEF Ahead
<1>9. es[t] <= Max(S) /\ \A b \in Before(t) : es[b] + days[b] <= Max(S)
  BY <1>4 DEF Ahead
<1>10. Max(S) \in Nat
  BY <1>4, <1>5
<1> HIDE DEF S
<1>11. /\ Earlier(es, t, days) \in [top -> Nat]
       /\ \A u \in top \ {t} : Earlier(es, t, days)[u] = es[u]
  BY <1>6, <1>10
<1>12. Max(S) >= es[t]
  BY <1>9, <1>10
<1>13. \A b \in Before(t) : Max(S) >= es[b] + days[b]
  BY <1>1, <1>9, <1>10
<1> QED BY <1>7, <1>8, <1>11, <1>12, <1>13

\* A task relaxed backward ends no later than before, or than those after it allow.
LEMMA LaterIs ==
  ASSUME IsFiniteSet(top), NEW lf \in [top -> Int], NEW days \in [top -> Nat], NEW t \in top
  PROVE  /\ Later(lf, t, days) \in [top -> Int]
         /\ \A u \in top \ {t} : Later(lf, t, days)[u] = lf[u]
         /\ Later(lf, t, days)[t] <= lf[t]
         /\ \A n \in After(t) : Later(lf, t, days)[t] <= lf[n] - days[n]
         /\ \/ Later(lf, t, days)[t] = lf[t]
            \/ \E n \in After(t) : Later(lf, t, days)[t] = lf[n] - days[n]
<1> DEFINE S == Behind(lf[t], lf, days, After(t))
<1>1. After(t) \in SUBSET top /\ days \in [top -> Int] /\ lf[t] \in Int
  BY DEF After
<1>2. S \in SUBSET Int /\ IsFiniteSet(S)
  BY <1>1, ReachOf
<1>3. S # {}
  BY DEF Behind
<1>4. Min(S) \in S /\ \A y \in S : Min(S) <= y
  <2> HIDE DEF S
  <2> QED BY <1>2, <1>3, SmallestInt
<1>6. Later(lf, t, days) = [lf EXCEPT ![t] = Min(S)]
  BY DEF Later, Behind
<1>7. Later(lf, t, days)[t] = Min(S)
  BY <1>6
<1>8. Min(S) = lf[t] \/ \E n \in After(t) : Min(S) = lf[n] - days[n]
  BY <1>4 DEF Behind
<1>9. Min(S) <= lf[t] /\ \A n \in After(t) : Min(S) <= lf[n] - days[n]
  BY <1>4 DEF Behind
<1>10. Min(S) \in Int
  BY <1>2, <1>4
<1> HIDE DEF S
<1>11. /\ Later(lf, t, days) \in [top -> Int]
       /\ \A u \in top \ {t} : Later(lf, t, days)[u] = lf[u]
  BY <1>6, <1>10
<1> QED BY <1>7, <1>8, <1>9, <1>11

ForwardStep(list, days) ==
  [x \in [top -> Nat] \X (1..Len(list)) |-> Earlier(x[1], list[x[2]], days)]

\* The turns of a pass forward.
LEMMA ForwardPassStages ==
  ASSUME IsFiniteSet(top), NEW list \in Seq(top), NEW days \in [top -> Nat],
         NEW es \in [top -> Nat]
  PROVE  Yields(ForwardPass(es, list, days), es, ForwardStep(list, days),
                [top -> Nat], Len(list))
<1> DEFINE n == Len(list)
           A == [top -> Nat]
           step == ForwardStep(list, days)
           Turn(x, i) == Earlier(x, list[i], days)
           Step(h) == [s \in SUBSET (1..n) |->
                         IF s = {} THEN es ELSE Turn(h[s \ {Max(s)}], Max(s))]
           iter == CHOOSE h : h = Step(h)
<1>1. n \in Nat /\ DOMAIN list = 1..n
  OBVIOUS
<1>2. ForwardPass(es, list, days) = iter[1..n]
  BY <1>1 DEF ForwardPass, FoldLeft, MapThenFoldSet
<1>3. step \in [A \X (1..n) -> A] /\ es \in A
  <2>1. ASSUME NEW x \in A, NEW i \in 1..n PROVE Turn(x, i) \in A
    <3>1. list[i] \in top
      OBVIOUS
    <3> QED BY <3>1, EarlierIs
  <2> QED BY <2>1 DEF ForwardStep
<1>4. \A x \in A, i \in 1..n : step[<<x, i>>] = Turn(x, i)
  BY DEF ForwardStep
<1> HIDE DEF Turn, A, step
<1>5. \E h : h = Step(h)
  <2>1. PICK h : Folded(h, es, step, A, n)
    BY <1>1, <1>3, FoldExists
  <2>2. \A s \in SUBSET (1..n) : s # {} => h[s] = Turn(h[s \ {Max(s)}], Max(s))
    BY <1>4, <2>1 DEF Folded
  <2> QED BY <2>1, <2>2 DEF Folded
<1>6. iter = Step(iter)
  BY <1>5
<1> HIDE DEF iter
<1>7. Follows(iter, es, step, A, n)
  BY <1>4, <1>6 DEF Follows
<1> HIDE DEF n
<1>8. Yields(iter[1..n], es, step, A, n)
  BY <1>1, <1>3, <1>7, FoldStages
<1> QED BY <1>2, <1>8 DEF step, A, n

\* A pass forward keeps starts natural.
LEMMA ForwardPassNat ==
  ASSUME IsFiniteSet(top), NEW list \in Seq(top), NEW days \in [top -> Nat],
         NEW es \in [top -> Nat]
  PROVE  ForwardPass(es, list, days) \in [top -> Nat]
<1>1. PICK g : /\ Stages(g, es, ForwardStep(list, days), [top -> Nat], Len(list))
               /\ ForwardPass(es, list, days) = g[Len(list)]
  BY ForwardPassStages DEF Yields
<1> QED BY <1>1 DEF Stages

ForwardTurn(list, days) ==
  [x \in [top -> Nat] \X (1..Len(list)) |-> ForwardPass(x[1], list, days)]

\* The passes forward.
LEMMA EarliestStartStages ==
  ASSUME IsFiniteSet(top), NEW list \in Seq(top), NEW days \in [top -> Nat]
  PROVE  Yields(EarliestStart(list, days), Zeros, ForwardTurn(list, days),
                [top -> Nat], Len(list))
<1> DEFINE n == Len(list)
           A == [top -> Nat]
           step == ForwardTurn(list, days)
           Turn(x, i) == ForwardPass(x, Turns(list)[i], days)
           Step(h) == [s \in SUBSET (1..n) |->
                         IF s = {} THEN Zeros ELSE Turn(h[s \ {Max(s)}], Max(s))]
           iter == CHOOSE h : h = Step(h)
<1>1. n \in Nat /\ DOMAIN Turns(list) = 1..n
  BY DEF Turns
<1>2. EarliestStart(list, days) = iter[1..n]
  BY <1>1 DEF EarliestStart, Zeros, FoldLeft, MapThenFoldSet
<1>3. step \in [A \X (1..n) -> A] /\ Zeros \in A
  <2>1. ASSUME NEW x \in A, NEW i \in 1..n PROVE ForwardPass(x, list, days) \in A
    BY <1>1, ForwardPassNat
  <2> QED BY <2>1 DEF ForwardTurn, Zeros
<1>4. \A x \in A, i \in 1..n : step[<<x, i>>] = Turn(x, i)
  BY DEF ForwardTurn, Turns
<1> HIDE DEF Turn, A, step
<1>5. \E h : h = Step(h)
  <2>1. PICK h : Folded(h, Zeros, step, A, n)
    BY <1>1, <1>3, FoldExists
  <2>2. \A s \in SUBSET (1..n) : s # {} => h[s] = Turn(h[s \ {Max(s)}], Max(s))
    BY <1>4, <2>1 DEF Folded
  <2> QED BY <2>1, <2>2 DEF Folded
<1>6. iter = Step(iter)
  BY <1>5
<1> HIDE DEF iter
<1>7. Follows(iter, Zeros, step, A, n)
  BY <1>4, <1>6 DEF Follows
<1> HIDE DEF n
<1>8. Yields(iter[1..n], Zeros, step, A, n)
  BY <1>1, <1>3, <1>7, FoldStages
<1> QED BY <1>2, <1>8 DEF step, A, n

BackwardStep(list, days) ==
  [x \in [top -> Int] \X (1..Len(list)) |-> Later(x[1], list[x[2]], days)]

\* The turns of a pass backward.
LEMMA BackwardPassStages ==
  ASSUME IsFiniteSet(top), NEW list \in Seq(top), NEW days \in [top -> Nat],
         NEW lf \in [top -> Int]
  PROVE  Yields(BackwardPass(lf, list, days), lf, BackwardStep(list, days),
                [top -> Int], Len(list))
<1> DEFINE n == Len(list)
           A == [top -> Int]
           step == BackwardStep(list, days)
           Turn(x, i) == Later(x, list[i], days)
           Step(h) == [s \in SUBSET (1..n) |->
                         IF s = {} THEN lf ELSE Turn(h[s \ {Max(s)}], Max(s))]
           iter == CHOOSE h : h = Step(h)
<1>1. n \in Nat /\ DOMAIN list = 1..n
  OBVIOUS
<1>2. BackwardPass(lf, list, days) = iter[1..n]
  BY <1>1 DEF BackwardPass, FoldLeft, MapThenFoldSet
<1>3. step \in [A \X (1..n) -> A] /\ lf \in A
  <2>1. ASSUME NEW x \in A, NEW i \in 1..n PROVE Turn(x, i) \in A
    <3>1. list[i] \in top
      OBVIOUS
    <3> QED BY <3>1, LaterIs
  <2> QED BY <2>1 DEF BackwardStep
<1>4. \A x \in A, i \in 1..n : step[<<x, i>>] = Turn(x, i)
  BY DEF BackwardStep
<1> HIDE DEF Turn, A, step
<1>5. \E h : h = Step(h)
  <2>1. PICK h : Folded(h, lf, step, A, n)
    BY <1>1, <1>3, FoldExists
  <2>2. \A s \in SUBSET (1..n) : s # {} => h[s] = Turn(h[s \ {Max(s)}], Max(s))
    BY <1>4, <2>1 DEF Folded
  <2> QED BY <2>1, <2>2 DEF Folded
<1>6. iter = Step(iter)
  BY <1>5
<1> HIDE DEF iter
<1>7. Follows(iter, lf, step, A, n)
  BY <1>4, <1>6 DEF Follows
<1> HIDE DEF n
<1>8. Yields(iter[1..n], lf, step, A, n)
  BY <1>1, <1>3, <1>7, FoldStages
<1> QED BY <1>2, <1>8 DEF step, A, n

\* A pass backward keeps finishes whole.
LEMMA BackwardPassInt ==
  ASSUME IsFiniteSet(top), NEW list \in Seq(top), NEW days \in [top -> Nat],
         NEW lf \in [top -> Int]
  PROVE  BackwardPass(lf, list, days) \in [top -> Int]
<1>1. PICK g : /\ Stages(g, lf, BackwardStep(list, days), [top -> Int], Len(list))
               /\ BackwardPass(lf, list, days) = g[Len(list)]
  BY BackwardPassStages DEF Yields
<1> QED BY <1>1 DEF Stages

BackwardTurn(list, days) ==
  [x \in [top -> Int] \X (1..Len(list)) |-> BackwardPass(x[1], list, days)]

\* The passes backward.
LEMMA LatestFinishStages ==
  ASSUME IsFiniteSet(top), NEW list \in Seq(top), NEW days \in [top -> Nat], NEW end \in Int
  PROVE  Yields(LatestFinish(list, days, end), AllAt(end), BackwardTurn(list, days),
                [top -> Int], Len(list))
<1> DEFINE n == Len(list)
           A == [top -> Int]
           step == BackwardTurn(list, days)
           Turn(x, i) == BackwardPass(x, Turns(list)[i], days)
           Step(h) == [s \in SUBSET (1..n) |->
                         IF s = {} THEN AllAt(end) ELSE Turn(h[s \ {Max(s)}], Max(s))]
           iter == CHOOSE h : h = Step(h)
<1>1. n \in Nat /\ DOMAIN Turns(list) = 1..n
  BY DEF Turns
<1>2. LatestFinish(list, days, end) = iter[1..n]
  BY <1>1 DEF LatestFinish, AllAt, FoldLeft, MapThenFoldSet
<1>3. step \in [A \X (1..n) -> A] /\ AllAt(end) \in A
  <2>1. ASSUME NEW x \in A, NEW i \in 1..n PROVE BackwardPass(x, list, days) \in A
    BY <1>1, BackwardPassInt
  <2> QED BY <2>1 DEF BackwardTurn, AllAt
<1>4. \A x \in A, i \in 1..n : step[<<x, i>>] = Turn(x, i)
  BY DEF BackwardTurn, Turns
<1> HIDE DEF Turn, A, step
<1>5. \E h : h = Step(h)
  <2>1. PICK h : Folded(h, AllAt(end), step, A, n)
    BY <1>1, <1>3, FoldExists
  <2>2. \A s \in SUBSET (1..n) : s # {} => h[s] = Turn(h[s \ {Max(s)}], Max(s))
    BY <1>4, <2>1 DEF Folded
  <2> QED BY <2>1, <2>2 DEF Folded
<1>6. iter = Step(iter)
  BY <1>5
<1> HIDE DEF iter
<1>7. Follows(iter, AllAt(end), step, A, n)
  BY <1>4, <1>6 DEF Follows
<1> HIDE DEF n
<1>8. Yields(iter[1..n], AllAt(end), step, A, n)
  BY <1>1, <1>3, <1>7, FoldStages
<1> QED BY <1>2, <1>8 DEF step, A, n

\* A task whose path is lengthened; the others stay.
LEMMA LengthenIs ==
  ASSUME NEW x \in Paths, NEW days \in [top -> Nat], NEW t \in top, NEW p \in {Null} \cup Before(t)
  PROVE  Lengthen(x, t, p, days) \in Paths
<1>1. p \in top \cup {Null} /\ x.length \in [top -> Nat] /\ x.prev \in [top -> top \cup {Null}]
  BY DEF Before, Paths
<1>2. ASSUME p # Null PROVE x.length[p] \in Nat
  BY <1>1, <1>2
<1>3. days[t] + (IF p = Null THEN 0 ELSE x.length[p]) \in Nat
  BY <1>2
<1>4. PICK k \in Nat : k = days[t] + IF p = Null THEN 0 ELSE x.length[p]
  BY <1>3
<1>5. [x.length EXCEPT ![t] = k] \in [top -> Nat] /\ [x.prev EXCEPT ![t] = p] \in [top -> top \cup {Null}]
  BY <1>1
<1>6. Lengthen(x, t, p, days) = [length |-> [x.length EXCEPT ![t] = k], prev |-> [x.prev EXCEPT ![t] = p]]
  BY <1>4 DEF Lengthen
<1> QED BY <1>5, <1>6 DEF Paths

\* The best predecessor is one of the tasks, or none.
LEMMA BestBefore ==
  ASSUME NEW list \in Seq(top), NEW length, NEW t
  PROVE  Best(list, length, t) \in {Null} \cup Before(t)
<1>1. PICK g : /\ Stages(g, Null, BestStep(list, length, t), {Null} \cup Before(t), Len(list))
               /\ Best(list, length, t) = g[Len(list)]
  BY BestStages DEF Yields
<1> QED BY <1>1 DEF Stages

\* The dependencies of each task as the database lists them.
Orders(order) == \A t \in top : order[t] \in Seq(top) /\ ToSet(order[t]) = top

PathsStep(list, order, days) ==
  [x \in Paths \X (1..Len(list)) |->
     Lengthen(x[1], list[x[2]], Best(order[list[x[2]]], x[1].length, list[x[2]]), days)]

\* The turns of a pass over the paths.
LEMMA PathsPassStages ==
  ASSUME IsFiniteSet(top), NEW list \in Seq(top), NEW order, Orders(order),
         NEW days \in [top -> Nat], NEW paths \in Paths
  PROVE  Yields(PathsPass(paths, list, order, days), paths, PathsStep(list, order, days),
                Paths, Len(list))
<1> DEFINE n == Len(list)
           A == Paths
           step == PathsStep(list, order, days)
           Turn(x, i) == Lengthen(x, list[i], Best(order[list[i]], x.length, list[i]), days)
           Step(h) == [s \in SUBSET (1..n) |->
                         IF s = {} THEN paths ELSE Turn(h[s \ {Max(s)}], Max(s))]
           iter == CHOOSE h : h = Step(h)
<1>1. n \in Nat /\ DOMAIN list = 1..n
  OBVIOUS
<1>2. PathsPass(paths, list, order, days) = iter[1..n]
  BY <1>1 DEF PathsPass, FoldLeft, MapThenFoldSet
<1>3. step \in [A \X (1..n) -> A] /\ paths \in A
  <2>1. ASSUME NEW x \in A, NEW i \in 1..n PROVE Turn(x, i) \in A
    <3>1. list[i] \in top
      OBVIOUS
    <3>2. order[list[i]] \in Seq(top)
      BY <3>1 DEF Orders
    <3> QED BY <3>1, <3>2, LengthenIs, BestBefore
  <2> QED BY <2>1 DEF PathsStep
<1>4. \A x \in A, i \in 1..n : step[<<x, i>>] = Turn(x, i)
  BY DEF PathsStep
<1> HIDE DEF Turn, A, step
<1>5. \E h : h = Step(h)
  <2>1. PICK h : Folded(h, paths, step, A, n)
    BY <1>1, <1>3, FoldExists
  <2>2. \A s \in SUBSET (1..n) : s # {} => h[s] = Turn(h[s \ {Max(s)}], Max(s))
    BY <1>4, <2>1 DEF Folded
  <2> QED BY <2>1, <2>2 DEF Folded
<1>6. iter = Step(iter)
  BY <1>5
<1> HIDE DEF iter
<1>7. Follows(iter, paths, step, A, n)
  BY <1>4, <1>6 DEF Follows
<1> HIDE DEF n
<1>8. Yields(iter[1..n], paths, step, A, n)
  BY <1>1, <1>3, <1>7, FoldStages
<1> QED BY <1>2, <1>8 DEF step, A, n

\* Such a pass keeps lengths natural and predecessors tasks.
LEMMA PathsPassTyped ==
  ASSUME IsFiniteSet(top), NEW list \in Seq(top), NEW order, Orders(order),
         NEW days \in [top -> Nat], NEW paths \in Paths
  PROVE  PathsPass(paths, list, order, days) \in Paths
<1>1. PICK g : /\ Stages(g, paths, PathsStep(list, order, days), Paths, Len(list))
               /\ PathsPass(paths, list, order, days) = g[Len(list)]
  BY PathsPassStages DEF Yields
<1> QED BY <1>1 DEF Stages

NoPaths == [length |-> [t \in top |-> 0], prev |-> [t \in top |-> Null]]

PathsTurn(list, order, days) ==
  [x \in Paths \X (1..Len(list)) |-> PathsPass(x[1], list, order, days)]

\* The passes over the paths.
LEMMA LongestPathsStages ==
  ASSUME IsFiniteSet(top), NEW list \in Seq(top), NEW order, Orders(order),
         NEW days \in [top -> Nat]
  PROVE  Yields(LongestPaths(list, order, days), NoPaths, PathsTurn(list, order, days),
                Paths, Len(list))
<1> DEFINE n == Len(list)
           A == Paths
           step == PathsTurn(list, order, days)
           Turn(x, i) == PathsPass(x, Turns(list)[i], order, days)
           Step(h) == [s \in SUBSET (1..n) |->
                         IF s = {} THEN NoPaths ELSE Turn(h[s \ {Max(s)}], Max(s))]
           iter == CHOOSE h : h = Step(h)
<1>1. n \in Nat /\ DOMAIN Turns(list) = 1..n
  BY DEF Turns
<1>2. LongestPaths(list, order, days) = iter[1..n]
  BY <1>1 DEF LongestPaths, NoPaths, FoldLeft, MapThenFoldSet
<1>3. step \in [A \X (1..n) -> A] /\ NoPaths \in A
  <2>1. ASSUME NEW x \in A, NEW i \in 1..n PROVE PathsPass(x, list, order, days) \in A
    BY <1>1, PathsPassTyped
  <2> QED BY <2>1 DEF PathsTurn, Paths, NoPaths
<1>4. \A x \in A, i \in 1..n : step[<<x, i>>] = Turn(x, i)
  BY DEF PathsTurn, Turns
<1> HIDE DEF Turn, A, step
<1>5. \E h : h = Step(h)
  <2>1. PICK h : Folded(h, NoPaths, step, A, n)
    BY <1>1, <1>3, FoldExists
  <2>2. \A s \in SUBSET (1..n) : s # {} => h[s] = Turn(h[s \ {Max(s)}], Max(s))
    BY <1>4, <2>1 DEF Folded
  <2> QED BY <2>1, <2>2 DEF Folded
<1>6. iter = Step(iter)
  BY <1>5
<1> HIDE DEF iter
<1>7. Follows(iter, NoPaths, step, A, n)
  BY <1>4, <1>6 DEF Follows
<1> HIDE DEF n
<1>8. Yields(iter[1..n], NoPaths, step, A, n)
  BY <1>1, <1>3, <1>7, FoldStages
<1> QED BY <1>2, <1>8 DEF step, A, n

-----------------------------------------------------------------------------
(***************************************************************************)
(* PertService: as many passes as there are tasks settle every task of a    *)
(* graph without a cycle, in whatever order the database lists them.        *)
(***************************************************************************)
LEMMA HasLast ==
  ASSUME Acyclic, NEW S \in SUBSET Task, S # {}
  PROVE  \E x \in S : \A y \in S : <<x, y>> \notin Edges
BY DEF Acyclic

\* Among the tasks of any set, one depends on none of them.
LEMMA HasFirst ==
  ASSUME Acyclic, NEW S \in SUBSET Task, S # {}
  PROVE  \E x \in S : \A y \in S : <<y, x>> \notin Edges
<1> DEFINE Heads(T) == \E x \in T : \A y \in T : <<y, x>> \notin Edges
           Good == {n \in Nat : \A T \in SUBSET Task : Cardinality(T) = n /\ T # {} => Heads(T)}
<1>1. \A T \in SUBSET Task : IsFiniteSet(T) /\ Cardinality(T) \in Nat
  BY TaskAssumption, FS_Subset, FS_CardinalityType
<1>2. 0 \in Good
  BY <1>1, FS_EmptySet
<1>3. ASSUME NEW n \in Nat, n \in Good PROVE n + 1 \in Good
  <2> SUFFICES ASSUME NEW T \in SUBSET Task, Cardinality(T) = n + 1, T # {} PROVE Heads(T)
    OBVIOUS
  <2>1. PICK x \in T : \A y \in T : <<x, y>> \notin Edges
    BY HasLast
  <2>2. CASE T \ {x} = {}
    <3>1. \A y \in T : y = x
      BY <2>2
    <3> QED BY <2>1, <3>1
  <2>3. CASE T \ {x} # {}
    <3>1. IsFiniteSet(T) /\ x \in T
      BY <1>1
    <3>2. Cardinality(T \ {x}) = Cardinality(T) - 1
      BY <3>1, FS_RemoveElement
    <3> HIDE DEF Heads
    <3>5. Cardinality(T \ {x}) = n
      BY <3>2
    <3>3. Heads(T \ {x})
      BY <1>3, <2>3, <3>5
    <3>4. PICK z \in T \ {x} : \A y \in T \ {x} : <<y, z>> \notin Edges
      BY <3>3 DEF Heads
    <3>6. \A y \in T : <<y, z>> \notin Edges
      BY <2>1, <3>4
    <3> QED BY <3>6 DEF Heads
  <2> QED BY <2>2, <2>3
<1> HIDE DEF Good
<1>4. Nat \subseteq Good
  BY <1>2, <1>3, EveryNumber
<1>5. Cardinality(S) \in Good
  BY <1>1, <1>4
<1> QED BY <1>5 DEF Good

\* What each turn of a fold keeps, the fold keeps.
Keeps(step, A, n, Good) == \A x \in A \cap Good, i \in 1..n : step[<<x, i>>] \in Good

LEMMA StagesKeep ==
  ASSUME NEW n \in Nat, NEW A, NEW base, NEW step, NEW g, Stages(g, base, step, A, n), NEW Good,
         base \in Good, Keeps(step, A, n, Good)
  PROVE  \A i \in 0..n : g[i] \in A \cap Good
<1> DEFINE Kept == {i \in Nat : i <= n => g[i] \in A \cap Good}
<1>1. 0 \in Kept
  BY DEF Stages
<1>2. ASSUME NEW i \in Nat, i \in Kept PROVE i + 1 \in Kept
  <2> SUFFICES ASSUME i + 1 <= n PROVE g[i + 1] \in A \cap Good
    OBVIOUS
  <2>1. i + 1 \in 1..n /\ (i + 1) - 1 = i /\ g[i] \in A \cap Good /\ g[i + 1] \in A
    BY <1>2 DEF Stages
  <2>2. g[i + 1] = step[<<g[i], i + 1>>]
    BY <2>1 DEF Stages
  <2> QED BY <2>1, <2>2 DEF Keeps
<1> HIDE DEF Kept
<1>3. Nat \subseteq Kept
  BY <1>1, <1>2, EveryNumber
<1> QED BY <1>3 DEF Kept

\* Fine holds the pairs of a state and a task whose value follows from those it depends on.
Closed(S, pred) == \A t \in S : pred[t] \subseteq S
AllFine(S, x, Fine) == \A t \in S : <<x, t>> \in Fine
\* Tasks that are fine, with all that they depend on, stay so; and so becomes the task whose turn
\* it is, if it depends on such tasks only.
Steady(step, A, list, pred, Fine) ==
  \A x \in A, i \in 1..Len(list), S \in SUBSET top :
    Closed(S, pred) /\ AllFine(S, x, Fine) =>
      /\ AllFine(S, step[<<x, i>>], Fine)
      /\ pred[list[i]] \subseteq S => <<step[<<x, i>>], list[i]>> \in Fine
\* One pass adds any such task.
Advances(turn, A, n, pred, Fine) ==
  \A x \in A, i \in 1..n, S \in SUBSET top, t \in top :
    Closed(S, pred) /\ AllFine(S, x, Fine) /\ pred[t] \subseteq S =>
      AllFine(S \cup {t}, turn[<<x, i>>], Fine)
Rooted(pred) == \A S \in SUBSET top : S # {} => \E t \in S : pred[t] \cap S = {}

LEMMA PassAdvances ==
  ASSUME NEW list \in Seq(top), ToSet(list) = top, NEW A, NEW base \in A, NEW step, NEW g,
         Stages(g, base, step, A, Len(list)), NEW pred, NEW Fine, Steady(step, A, list, pred, Fine),
         NEW S \in SUBSET top, Closed(S, pred), AllFine(S, base, Fine),
         NEW t \in top, pred[t] \subseteq S
  PROVE  AllFine(S \cup {t}, g[Len(list)], Fine)
<1> DEFINE n == Len(list)
           T == S \cup {t}
           Kept == {i \in Nat : i <= n => AllFine(S, g[i], Fine)}
<1>1. n \in Nat /\ DOMAIN list = 1..n
  OBVIOUS
<1>2. \A i \in 1..n : g[i - 1] \in A /\ g[i] = step[<<g[i - 1], i>>]
  BY <1>1 DEF Stages
<1>3. 0 \in Kept
  BY DEF Stages
<1>4. ASSUME NEW i \in Nat, i \in Kept PROVE i + 1 \in Kept
  <2> SUFFICES ASSUME i + 1 <= n PROVE AllFine(S, g[i + 1], Fine)
    OBVIOUS
  <2>1. i + 1 \in 1..n /\ (i + 1) - 1 = i /\ AllFine(S, g[i], Fine)
    BY <1>1, <1>4
  <2>2. g[i] \in A /\ g[i + 1] = step[<<g[i], i + 1>>]
    BY <1>2, <2>1
  <2> QED BY <2>1, <2>2 DEF Steady
<1> HIDE DEF Kept
<1>5. \A i \in 0..n : AllFine(S, g[i], Fine)
  <2>1. Nat \subseteq Kept
    BY <1>3, <1>4, EveryNumber
  <2> QED BY <1>1, <2>1 DEF Kept
<1>6. PICK j \in 1..n : list[j] = t
  BY <1>1 DEF ToSet
<1>7. T \in SUBSET top /\ Closed(T, pred)
  BY DEF Closed
<1> DEFINE Onward == {i \in Nat : j + i <= n => AllFine(T, g[j + i], Fine)}
<1>8. 0 \in Onward
  <2>1. j - 1 \in 0..n /\ j \in 0..n /\ j + 0 = j
    BY <1>1
  <2>2. <<g[j], t>> \in Fine
    BY <1>2, <1>5, <1>6, <2>1 DEF Steady
  <2>3. AllFine(T, g[j], Fine)
    BY <1>5, <2>1, <2>2 DEF AllFine
  <2> QED BY <2>1, <2>3
<1>9. ASSUME NEW i \in Nat, i \in Onward PROVE i + 1 \in Onward
  <2> SUFFICES ASSUME j + (i + 1) <= n PROVE AllFine(T, g[j + (i + 1)], Fine)
    OBVIOUS
  <2>1. j + (i + 1) \in 1..n /\ (j + (i + 1)) - 1 = j + i /\ AllFine(T, g[j + i], Fine)
    BY <1>1, <1>9
  <2>2. g[j + i] \in A /\ g[j + (i + 1)] = step[<<g[j + i], j + (i + 1)>>]
    BY <1>2, <2>1
  <2> QED BY <1>7, <2>1, <2>2 DEF Steady
<1> HIDE DEF Onward
<1>10. n - j \in Onward
  BY <1>1, <1>8, <1>9, EveryNumber
<1>11. j + (n - j) = n
  BY <1>1
<1> QED BY <1>1, <1>10, <1>11 DEF Onward

\* As many passes as there are tasks make all of them fine.
LEMMA PassesSettle ==
  ASSUME IsFiniteSet(top), NEW pred \in [top -> SUBSET top], Rooted(pred),
         NEW A, NEW base \in A, NEW turn, NEW g,
         Stages(g, base, turn, A, Cardinality(top)), NEW Fine,
         Advances(turn, A, Cardinality(top), pred, Fine)
  PROVE  AllFine(top, g[Cardinality(top)], Fine)
<1> DEFINE n == Cardinality(top)
           Settled(k) == \E S \in SUBSET top : Closed(S, pred) /\ AllFine(S, g[k], Fine)
                                               /\ Cardinality(S) >= k
           Good == {k \in Nat : k <= n => Settled(k)}
<1>1. n \in Nat /\ \A S \in SUBSET top : IsFiniteSet(S) /\ Cardinality(S) \in Nat
  BY FS_Subset, FS_CardinalityType
<1>2. Settled(0)
  <2>1. Closed({}, pred) /\ AllFine({}, g[0], Fine) /\ Cardinality({}) = 0
    BY FS_EmptySet DEF Closed, AllFine
  <2> QED BY <2>1
<1>3. ASSUME NEW k \in Nat, k + 1 <= n, Settled(k) PROVE Settled(k + 1)
  <2>1. PICK S \in SUBSET top : Closed(S, pred) /\ AllFine(S, g[k], Fine) /\ Cardinality(S) >= k
    BY <1>3
  <2>2. PICK t \in top : /\ pred[t] \subseteq S
                         /\ S # top => t \notin S
    <3>1. CASE S = top
      <4>1. top # {}
        BY <1>1, <1>3, FS_EmptySet
      <4> QED BY <3>1, <4>1
    <3>2. CASE S # top
      <4>1. top \ S \in SUBSET top /\ top \ S # {}
        BY <3>2
      <4>2. PICK t \in top \ S : pred[t] \cap (top \ S) = {}
        BY <4>1 DEF Rooted
      <4> QED BY <4>2
    <3> QED BY <3>1, <3>2
  <2> DEFINE T == S \cup {t}
  <2>3. k + 1 \in 1..n /\ (k + 1) - 1 = k
    BY <1>1, <1>3
  <2>4. g[k] \in A /\ g[k + 1] = turn[<<g[k], k + 1>>]
    BY <1>1, <2>3 DEF Stages
  <2>5. AllFine(T, g[k + 1], Fine)
    BY <2>1, <2>2, <2>3, <2>4 DEF Advances
  <2>6. T \in SUBSET top /\ Closed(T, pred)
    BY <2>1, <2>2 DEF Closed
  <2>7. Cardinality(T) >= k + 1
    <3>1. CASE S = top
      <4>1. T = top
        BY <3>1
      <4> QED BY <1>3, <4>1
    <3>2. CASE S # top
      <4>1. IsFiniteSet(S) /\ t \notin S
        BY <1>1, <2>2, <3>2
      <4>2. Cardinality(T) = Cardinality(S) + 1
        BY <4>1, FS_AddElement
      <4> QED BY <1>1, <2>1, <4>2
    <3> QED BY <3>1, <3>2
  <2> HIDE DEF T
  <2> QED BY <2>5, <2>6, <2>7
<1> HIDE DEF Settled
<1>4. 0 \in Good /\ \A k \in Nat : k \in Good => k + 1 \in Good
  BY <1>1, <1>2, <1>3
<1> HIDE DEF Good
<1>5. n \in Good
  BY <1>1, <1>4, EveryNumber
<1>6. Settled(n)
  BY <1>1, <1>5 DEF Good
<1>7. PICK S \in SUBSET top : AllFine(S, g[n], Fine) /\ Cardinality(S) >= n
  BY <1>6 DEF Settled
<1>8. S = top
  BY <1>1, <1>7, FS_Subset
<1> QED BY <1>7, <1>8

-----------------------------------------------------------------------------
Preds == [t \in top |-> Before(t)]
Succs == [t \in top |-> After(t)]
\* Every task of the graph once.
Lists(list) == list \in Seq(top) /\ ToSet(list) = top /\ Len(list) = Cardinality(top)

\* A graph without a cycle is settled from its first tasks on, and from its last.
LEMMA GraphRooted ==
  ASSUME Acyclic, top \subseteq Task
  PROVE  /\ IsFiniteSet(top) /\ Preds \in [top -> SUBSET top] /\ Succs \in [top -> SUBSET top]
         /\ Rooted(Preds) /\ Rooted(Succs)
<1>1. IsFiniteSet(top)
  BY TaskAssumption, FS_Subset
<1>2. ASSUME NEW S \in SUBSET top, S # {}
      PROVE  \E t \in S : Preds[t] \cap S = {}
  BY <1>2, HasFirst DEF Preds, Before
<1>3. ASSUME NEW S \in SUBSET top, S # {}
      PROVE  \E t \in S : Succs[t] \cap S = {}
  BY <1>3, HasLast DEF Succs, After
<1> QED BY <1>1, <1>2, <1>3 DEF Rooted, Preds, Succs, Before, After

\* A task starts no earlier than those before it end; and at once, or when one of them ends.
FineStart(days) ==
  {p \in [top -> Nat] \X top : \A b \in Before(p[2]) : p[1][p[2]] >= p[1][b] + days[b]}
Grounded(days) ==
  {e \in [top -> Nat] : \A t \in top : e[t] = 0 \/ \E b \in Before(t) : e[t] <= e[b] + days[b]}
Tight(e, days) ==
  /\ e \in [top -> Nat]
  /\ \A t \in top : \A b \in Before(t) : e[t] >= e[b] + days[b]
  /\ \A t \in top : e[t] = 0 \/ \E b \in Before(t) : e[t] = e[b] + days[b]

\* Relaxing a task forward disturbs no task that is settled, and settles one that depends on
\* such tasks.
LEMMA EarlierSettles ==
  ASSUME IsFiniteSet(top), NEW x \in [top -> Nat], NEW days \in [top -> Nat], NEW t \in top,
         NEW S \in SUBSET top, Closed(S, Preds), AllFine(S, x, FineStart(days))
  PROVE  /\ AllFine(S, Earlier(x, t, days), FineStart(days))
         /\ Preds[t] \subseteq S => <<Earlier(x, t, days), t>> \in FineStart(days)
<1> DEFINE y == Earlier(x, t, days)
<1>1. /\ y \in [top -> Nat]
      /\ \A u \in top \ {t} : y[u] = x[u]
      /\ y[t] >= x[t]
      /\ \A b \in Before(t) : y[t] >= x[b] + days[b]
      /\ y[t] = x[t] \/ \E b \in Before(t) : y[t] = x[b] + days[b]
  BY EarlierIs
<1> HIDE DEF y
<1>2. \A u \in S : \A b \in Before(u) : b \in S /\ b \in top /\ x[u] >= x[b] + days[b]
  BY DEF AllFine, FineStart, Closed, Preds, Before
<1>3. t \in S => y[t] = x[t]
  <2> SUFFICES ASSUME t \in S, NEW b \in Before(t), y[t] = x[b] + days[b] PROVE y[t] = x[t]
    BY <1>1
  <2>1. x[t] >= x[b] + days[b] /\ x[t] \in Nat /\ y[t] \in Nat /\ y[t] >= x[t]
    BY <1>1, <1>2
  <2>2. x[b] + days[b] \in Nat
    BY <1>2
  <2> QED BY <2>1, <2>2
<1>4. \A u \in S : y[u] = x[u]
  BY <1>1, <1>3
<1>5. \A u \in S : \A b \in Before(u) : y[u] >= y[b] + days[b]
  BY <1>2, <1>4
<1>6. AllFine(S, y, FineStart(days))
  BY <1>1, <1>5 DEF AllFine, FineStart
<1>7. ASSUME Preds[t] \subseteq S PROVE <<y, t>> \in FineStart(days)
  <2>1. \A b \in Before(t) : y[t] >= y[b] + days[b]
    BY <1>1, <1>4, <1>7 DEF Preds
  <2> QED BY <1>1, <2>1 DEF FineStart
<1> QED BY <1>6, <1>7 DEF y

\* A start is never beyond what some chain of tasks before it asks.
LEMMA EarlierGrounded ==
  ASSUME IsFiniteSet(top), NEW x \in [top -> Nat], NEW days \in [top -> Nat], NEW t \in top,
         x \in Grounded(days)
  PROVE  Earlier(x, t, days) \in Grounded(days)
<1> DEFINE y == Earlier(x, t, days)
<1>1. /\ y \in [top -> Nat]
      /\ \A u \in top \ {t} : y[u] = x[u]
      /\ y[t] >= x[t]
      /\ y[t] = x[t] \/ \E b \in Before(t) : y[t] = x[b] + days[b]
  BY EarlierIs
<1> HIDE DEF y
<1>2. \A u \in top : y[u] >= x[u] /\ x[u] \in Nat /\ y[u] \in Nat /\ days[u] \in Nat
  BY <1>1
<1>3. \A u \in top : x[u] = 0 \/ \E b \in Before(u) : x[u] <= x[b] + days[b]
  BY DEF Grounded
<1>4. \A u \in top : Before(u) \subseteq top
  BY DEF Before
<1>5. ASSUME NEW u \in top, y[u] = x[u]
      PROVE  y[u] = 0 \/ \E b \in Before(u) : y[u] <= y[b] + days[b]
  BY <1>2, <1>3, <1>4, <1>5
<1>6. ASSUME y[t] # x[t] PROVE \E b \in Before(t) : y[t] <= y[b] + days[b]
  BY <1>1, <1>2, <1>4, <1>6
<1>7. \A u \in top : y[u] = 0 \/ \E b \in Before(u) : y[u] <= y[b] + days[b]
  BY <1>1, <1>5, <1>6
<1> QED BY <1>1, <1>7 DEF Grounded, y

\* A pass forward settles one more layer of tasks.
LEMMA ForwardPassIs ==
  ASSUME IsFiniteSet(top), NEW list, Lists(list), NEW days \in [top -> Nat], NEW x \in [top -> Nat]
  PROVE  /\ x \in Grounded(days) => ForwardPass(x, list, days) \in Grounded(days)
         /\ \A S \in SUBSET top, t \in top :
              Closed(S, Preds) /\ AllFine(S, x, FineStart(days)) /\ Preds[t] \subseteq S =>
                AllFine(S \cup {t}, ForwardPass(x, list, days), FineStart(days))
<1> DEFINE n == Len(list)
           A == [top -> Nat]
           step == ForwardStep(list, days)
<1>1. list \in Seq(top) /\ ToSet(list) = top /\ n \in Nat /\ \A i \in 1..n : list[i] \in top
  BY DEF Lists
<1>2. PICK g : Stages(g, x, step, A, n) /\ ForwardPass(x, list, days) = g[n]
  BY <1>1, ForwardPassStages DEF Yields
<1>3. \A y \in A, i \in 1..n : step[<<y, i>>] = Earlier(y, list[i], days)
  BY DEF ForwardStep
<1> HIDE DEF step
<1>4. Steady(step, A, list, Preds, FineStart(days))
  <2> SUFFICES ASSUME NEW y \in A, NEW i \in 1..n, NEW S \in SUBSET top,
                      Closed(S, Preds), AllFine(S, y, FineStart(days))
               PROVE  /\ AllFine(S, step[<<y, i>>], FineStart(days))
                      /\ Preds[list[i]] \subseteq S => <<step[<<y, i>>], list[i]>> \in FineStart(days)
    BY DEF Steady
  <2>1. step[<<y, i>>] = Earlier(y, list[i], days) /\ list[i] \in top
    BY <1>1, <1>3
  <2> QED BY <2>1, EarlierSettles
<1>5. ASSUME x \in Grounded(days) PROVE g[n] \in Grounded(days)
  <2>1. Keeps(step, A, n, Grounded(days))
    <3> SUFFICES ASSUME NEW y \in A \cap Grounded(days), NEW i \in 1..n
                 PROVE  step[<<y, i>>] \in Grounded(days)
      BY DEF Keeps
    <3>1. y \in A /\ y \in Grounded(days) /\ list[i] \in top
      BY <1>1
    <3>2. Earlier(y, list[i], days) \in Grounded(days)
      BY <1>1, <3>1, EarlierGrounded
    <3> QED BY <1>3, <3>1, <3>2
  <2>2. \A i \in 0..n : g[i] \in A \cap Grounded(days)
    BY <1>1, <1>2, <1>5, <2>1, StagesKeep
  <2> QED BY <1>1, <2>2
<1>6. ASSUME NEW S \in SUBSET top, NEW t \in top,
             Closed(S, Preds), AllFine(S, x, FineStart(days)), Preds[t] \subseteq S
      PROVE  AllFine(S \cup {t}, g[n], FineStart(days))
  BY <1>1, <1>2, <1>4, <1>6, PassAdvances
<1> QED BY <1>2, <1>5, <1>6

\* computeFloats: the earliest starts are those of the schedule.
LEMMA StartsAreTight ==
  ASSUME Acyclic, top \subseteq Task, NEW list, Lists(list), NEW days \in [top -> Nat]
  PROVE  Tight(EarliestStart(list, days), days)
<1> DEFINE n == Cardinality(top)
           A == [top -> Nat]
           turn == ForwardTurn(list, days)
           e == EarliestStart(list, days)
<1>1. /\ IsFiniteSet(top) /\ Preds \in [top -> SUBSET top] /\ Rooted(Preds)
      /\ list \in Seq(top) /\ Len(list) = n /\ n \in Nat
  BY GraphRooted DEF Lists
<1>2. PICK g : Stages(g, Zeros, turn, A, n) /\ e = g[n]
  BY <1>1, EarliestStartStages DEF Yields
<1>3. \A x \in A, i \in 1..n : turn[<<x, i>>] = ForwardPass(x, list, days)
  BY <1>1 DEF ForwardTurn
<1>4. Zeros \in A /\ Zeros \in Grounded(days)
  BY DEF Zeros, Grounded
<1> HIDE DEF turn, e
<1>5. Advances(turn, A, n, Preds, FineStart(days))
  <2> SUFFICES ASSUME NEW x \in A, NEW i \in 1..n, NEW S \in SUBSET top, NEW t \in top,
                      Closed(S, Preds), AllFine(S, x, FineStart(days)), Preds[t] \subseteq S
               PROVE  AllFine(S \cup {t}, turn[<<x, i>>], FineStart(days))
    BY DEF Advances
  <2>1. AllFine(S \cup {t}, ForwardPass(x, list, days), FineStart(days))
    BY <1>1, ForwardPassIs
  <2> QED BY <1>3, <2>1
<1>6. AllFine(top, g[n], FineStart(days))
  <2> HIDE DEF A
  <2> QED BY <1>1, <1>2, <1>4, <1>5, PassesSettle
<1>7. Keeps(turn, A, n, Grounded(days))
  <2> SUFFICES ASSUME NEW x \in A \cap Grounded(days), NEW i \in 1..n
               PROVE  turn[<<x, i>>] \in Grounded(days)
    BY DEF Keeps
  <2>1. x \in A /\ x \in Grounded(days)
    OBVIOUS
  <2>2. ForwardPass(x, list, days) \in Grounded(days)
    BY <1>1, <2>1, ForwardPassIs
  <2> QED BY <1>3, <2>1, <2>2
<1>8. g[n] \in A /\ g[n] \in Grounded(days)
  <2>1. \A i \in 0..n : g[i] \in A \cap Grounded(days)
    <3> HIDE DEF A
    <3> QED BY <1>1, <1>2, <1>4, <1>7, StagesKeep
  <2> QED BY <1>1, <2>1
<1>9. \A t \in top : \A b \in Before(t) : e[t] >= e[b] + days[b]
  BY <1>2, <1>6 DEF AllFine, FineStart
<1>10. \A t \in top : e[t] = 0 \/ \E b \in Before(t) : e[t] <= e[b] + days[b]
  BY <1>2, <1>8 DEF Grounded
<1>11. ASSUME NEW t \in top, e[t] # 0 PROVE \E b \in Before(t) : e[t] = e[b] + days[b]
  <2>1. PICK b \in Before(t) : e[t] <= e[b] + days[b]
    BY <1>10, <1>11
  <2>2. b \in top /\ e[t] \in Nat /\ e[b] \in Nat /\ days[b] \in Nat
    BY <1>2, <1>8 DEF Before
  <2>3. e[t] >= e[b] + days[b]
    BY <1>9
  <2>4. e[t] = e[b] + days[b]
    BY <2>1, <2>2, <2>3
  <2> QED BY <2>4
<1>12. e \in [top -> Nat]
  BY <1>2, <1>8
<1> QED BY <1>9, <1>11, <1>12 DEF Tight, e

\* The way back: a task ends no later than those after it must start; and with the
\* project, or just before one of them.
FineFinish(days) ==
  {p \in [top -> Int] \X top : \A n \in After(p[2]) : p[1][p[2]] <= p[1][n] - days[n]}
Bound(days, end) ==
  {l \in [top -> Int] : \A t \in top : l[t] = end \/ \E n \in After(t) : l[t] >= l[n] - days[n]}
Hung(l, days, end) ==
  /\ l \in [top -> Int]
  /\ \A t \in top : \A n \in After(t) : l[t] <= l[n] - days[n]
  /\ \A t \in top : l[t] = end \/ \E n \in After(t) : l[t] = l[n] - days[n]

\* Relaxing a task backward, likewise.
LEMMA LaterSettles ==
  ASSUME IsFiniteSet(top), NEW x \in [top -> Int], NEW days \in [top -> Nat], NEW t \in top,
         NEW S \in SUBSET top, Closed(S, Succs), AllFine(S, x, FineFinish(days))
  PROVE  /\ AllFine(S, Later(x, t, days), FineFinish(days))
         /\ Succs[t] \subseteq S => <<Later(x, t, days), t>> \in FineFinish(days)
<1> DEFINE y == Later(x, t, days)
<1>1. /\ y \in [top -> Int]
      /\ \A u \in top \ {t} : y[u] = x[u]
      /\ y[t] <= x[t]
      /\ \A m \in After(t) : y[t] <= x[m] - days[m]
      /\ y[t] = x[t] \/ \E m \in After(t) : y[t] = x[m] - days[m]
  BY LaterIs
<1> HIDE DEF y
<1>2. \A u \in S : \A m \in After(u) : m \in S /\ m \in top /\ x[u] <= x[m] - days[m]
  BY DEF AllFine, FineFinish, Closed, Succs, After
<1>3. t \in S => y[t] = x[t]
  <2> SUFFICES ASSUME t \in S, NEW m \in After(t), y[t] = x[m] - days[m] PROVE y[t] = x[t]
    BY <1>1
  <2>1. x[t] <= x[m] - days[m] /\ x[t] \in Int /\ y[t] \in Int /\ y[t] <= x[t]
    BY <1>1, <1>2
  <2>2. x[m] - days[m] \in Int
    BY <1>2
  <2> QED BY <2>1, <2>2
<1>4. \A u \in S : y[u] = x[u]
  BY <1>1, <1>3
<1>5. \A u \in S : \A m \in After(u) : y[u] <= y[m] - days[m]
  BY <1>2, <1>4
<1>6. AllFine(S, y, FineFinish(days))
  BY <1>1, <1>5 DEF AllFine, FineFinish
<1>7. ASSUME Succs[t] \subseteq S PROVE <<y, t>> \in FineFinish(days)
  <2>1. \A m \in After(t) : y[t] <= y[m] - days[m]
    BY <1>1, <1>4, <1>7 DEF Succs
  <2> QED BY <1>1, <2>1 DEF FineFinish
<1> QED BY <1>6, <1>7 DEF y

\* A finish is never before what some chain of tasks after it asks.
LEMMA LaterBound ==
  ASSUME IsFiniteSet(top), NEW x \in [top -> Int], NEW days \in [top -> Nat], NEW t \in top,
         NEW end, x \in Bound(days, end)
  PROVE  Later(x, t, days) \in Bound(days, end)
<1> DEFINE y == Later(x, t, days)
<1>1. /\ y \in [top -> Int]
      /\ \A u \in top \ {t} : y[u] = x[u]
      /\ y[t] <= x[t]
      /\ y[t] = x[t] \/ \E m \in After(t) : y[t] = x[m] - days[m]
  BY LaterIs
<1> HIDE DEF y
<1>2. \A u \in top : y[u] <= x[u] /\ x[u] \in Int /\ y[u] \in Int /\ days[u] \in Nat
  BY <1>1
<1>3. \A u \in top : x[u] = end \/ \E m \in After(u) : x[u] >= x[m] - days[m]
  BY DEF Bound
<1>4. \A u \in top : After(u) \subseteq top
  BY DEF After
<1>5. ASSUME NEW u \in top, y[u] = x[u]
      PROVE  y[u] = end \/ \E m \in After(u) : y[u] >= y[m] - days[m]
  BY <1>2, <1>3, <1>4, <1>5
<1>6. ASSUME y[t] # x[t] PROVE \E m \in After(t) : y[t] >= y[m] - days[m]
  BY <1>1, <1>2, <1>4, <1>6
<1>7. \A u \in top : y[u] = end \/ \E m \in After(u) : y[u] >= y[m] - days[m]
  BY <1>1, <1>5, <1>6
<1> QED BY <1>1, <1>7 DEF Bound, y

\* A pass backward settles one more layer of tasks.
LEMMA BackwardPassIs ==
  ASSUME NEW end, IsFiniteSet(top), NEW list, Lists(list), NEW days \in [top -> Nat], NEW x \in [top -> Int]
  PROVE  /\ x \in Bound(days, end) => BackwardPass(x, list, days) \in Bound(days, end)
         /\ \A S \in SUBSET top, t \in top :
              Closed(S, Succs) /\ AllFine(S, x, FineFinish(days)) /\ Succs[t] \subseteq S =>
                AllFine(S \cup {t}, BackwardPass(x, list, days), FineFinish(days))
<1> DEFINE n == Len(list)
           A == [top -> Int]
           step == BackwardStep(list, days)
<1>1. list \in Seq(top) /\ ToSet(list) = top /\ n \in Nat /\ \A i \in 1..n : list[i] \in top
  BY DEF Lists
<1>2. PICK g : Stages(g, x, step, A, n) /\ BackwardPass(x, list, days) = g[n]
  BY <1>1, BackwardPassStages DEF Yields
<1>3. \A y \in A, i \in 1..n : step[<<y, i>>] = Later(y, list[i], days)
  BY DEF BackwardStep
<1> HIDE DEF step
<1>4. Steady(step, A, list, Succs, FineFinish(days))
  <2> SUFFICES ASSUME NEW y \in A, NEW i \in 1..n, NEW S \in SUBSET top,
                      Closed(S, Succs), AllFine(S, y, FineFinish(days))
               PROVE  /\ AllFine(S, step[<<y, i>>], FineFinish(days))
                      /\ Succs[list[i]] \subseteq S => <<step[<<y, i>>], list[i]>> \in FineFinish(days)
    BY DEF Steady
  <2>1. step[<<y, i>>] = Later(y, list[i], days) /\ list[i] \in top
    BY <1>1, <1>3
  <2> QED BY <2>1, LaterSettles
<1>5. ASSUME x \in Bound(days, end) PROVE g[n] \in Bound(days, end)
  <2>1. Keeps(step, A, n, Bound(days, end))
    <3> SUFFICES ASSUME NEW y \in A \cap Bound(days, end), NEW i \in 1..n
                 PROVE  step[<<y, i>>] \in Bound(days, end)
      BY DEF Keeps
    <3>1. y \in A /\ y \in Bound(days, end) /\ list[i] \in top
      BY <1>1
    <3>2. Later(y, list[i], days) \in Bound(days, end)
      BY <1>1, <3>1, LaterBound
    <3> QED BY <1>3, <3>1, <3>2
  <2>2. \A i \in 0..n : g[i] \in A \cap Bound(days, end)
    BY <1>1, <1>2, <1>5, <2>1, StagesKeep
  <2> QED BY <1>1, <2>2
<1>6. ASSUME NEW S \in SUBSET top, NEW t \in top,
             Closed(S, Succs), AllFine(S, x, FineFinish(days)), Succs[t] \subseteq S
      PROVE  AllFine(S \cup {t}, g[n], FineFinish(days))
  BY <1>1, <1>2, <1>4, <1>6, PassAdvances
<1> QED BY <1>2, <1>5, <1>6

\* computeFloats: the latest finishes are those of the schedule.
LEMMA FinishesAreHung ==
  ASSUME Acyclic, top \subseteq Task, NEW list, Lists(list), NEW days \in [top -> Nat],
         NEW end \in Int
  PROVE  Hung(LatestFinish(list, days, end), days, end)
<1> DEFINE n == Cardinality(top)
           A == [top -> Int]
           turn == BackwardTurn(list, days)
           e == LatestFinish(list, days, end)
<1>1. /\ IsFiniteSet(top) /\ Succs \in [top -> SUBSET top] /\ Rooted(Succs)
      /\ list \in Seq(top) /\ Len(list) = n /\ n \in Nat
  BY GraphRooted DEF Lists
<1>2. PICK g : Stages(g, AllAt(end), turn, A, n) /\ e = g[n]
  BY <1>1, LatestFinishStages DEF Yields
<1>3. \A x \in A, i \in 1..n : turn[<<x, i>>] = BackwardPass(x, list, days)
  BY <1>1 DEF BackwardTurn
<1>4. AllAt(end) \in A /\ AllAt(end) \in Bound(days, end)
  BY DEF AllAt, Bound
<1> HIDE DEF turn, e
<1>5. Advances(turn, A, n, Succs, FineFinish(days))
  <2> SUFFICES ASSUME NEW x \in A, NEW i \in 1..n, NEW S \in SUBSET top, NEW t \in top,
                      Closed(S, Succs), AllFine(S, x, FineFinish(days)), Succs[t] \subseteq S
               PROVE  AllFine(S \cup {t}, turn[<<x, i>>], FineFinish(days))
    BY DEF Advances
  <2>1. AllFine(S \cup {t}, BackwardPass(x, list, days), FineFinish(days))
    BY <1>1, BackwardPassIs
  <2> QED BY <1>3, <2>1
<1>6. AllFine(top, g[n], FineFinish(days))
  <2> HIDE DEF A
  <2> QED BY <1>1, <1>2, <1>4, <1>5, PassesSettle
<1>7. Keeps(turn, A, n, Bound(days, end))
  <2> SUFFICES ASSUME NEW x \in A \cap Bound(days, end), NEW i \in 1..n
               PROVE  turn[<<x, i>>] \in Bound(days, end)
    BY DEF Keeps
  <2>1. x \in A /\ x \in Bound(days, end)
    OBVIOUS
  <2>2. BackwardPass(x, list, days) \in Bound(days, end)
    BY <1>1, <2>1, BackwardPassIs
  <2> QED BY <1>3, <2>1, <2>2
<1>8. g[n] \in A /\ g[n] \in Bound(days, end)
  <2>1. \A i \in 0..n : g[i] \in A \cap Bound(days, end)
    <3> HIDE DEF A
    <3> QED BY <1>1, <1>2, <1>4, <1>7, StagesKeep
  <2> QED BY <1>1, <2>1
<1>9. \A t \in top : \A m \in After(t) : e[t] <= e[m] - days[m]
  BY <1>2, <1>6 DEF AllFine, FineFinish
<1>10. \A t \in top : e[t] = end \/ \E m \in After(t) : e[t] >= e[m] - days[m]
  BY <1>2, <1>8 DEF Bound
<1>11. ASSUME NEW t \in top, e[t] # end PROVE \E m \in After(t) : e[t] = e[m] - days[m]
  <2>1. PICK m \in After(t) : e[t] >= e[m] - days[m]
    BY <1>10, <1>11
  <2>2. m \in top /\ e[t] \in Int /\ e[m] \in Int /\ days[m] \in Nat
    BY <1>2, <1>8 DEF After
  <2>3. e[t] <= e[m] - days[m]
    BY <1>9
  <2>4. e[t] = e[m] - days[m]
    BY <2>1, <2>2, <2>3
  <2> QED BY <2>4
<1>12. e \in [top -> Int]
  BY <1>2, <1>8
<1> QED BY <1>9, <1>11, <1>12 DEF Hung, e

-----------------------------------------------------------------------------
(***************************************************************************)
(* PertService.computeFloats: the slack of a task is what it may be late.   *)
(***************************************************************************)
\* Any set of tasks has one with none of its predecessors in it, and one with none of its
\* successors.
LEMMA GraphEnds ==
  ASSUME Acyclic, top \subseteq Task, NEW S \in SUBSET top, S # {}
  PROVE  /\ \E u \in S : \A b \in Before(u) : b \in top /\ b \notin S
         /\ \E u \in S : \A m \in After(u) : m \in top /\ m \notin S
<1>1. PICK u \in S : \A y \in S : <<y, u>> \notin Edges
  BY HasFirst
<1>2. PICK v \in S : \A y \in S : <<v, y>> \notin Edges
  BY HasLast
<1> QED BY <1>1, <1>2 DEF Before, After

\* The end of the project is when the last task can end.
LEMMA EndIs ==
  ASSUME IsFiniteSet(top), NEW e \in [top -> Nat], NEW days \in [top -> Nat]
  PROVE  /\ EndOf(e, days) \in Nat
         /\ \A t \in top : e[t] + days[t] <= EndOf(e, days)
         /\ EndOf(e, days) = 0 \/ \E t \in top : EndOf(e, days) = e[t] + days[t]
<1> DEFINE S == Ahead(0, e, days, top)
<1>1. e \in [top -> Int] /\ days \in [top -> Int] /\ top \in SUBSET top
  OBVIOUS
<1>2. S \in SUBSET Int /\ IsFiniteSet(S)
  BY <1>1, ReachOf
<1>3. S # {} /\ EndOf(e, days) = Max(S)
  BY DEF Ahead, EndOf
<1>4. Max(S) \in S /\ \A y \in S : y <= Max(S)
  <2> HIDE DEF S
  <2> QED BY <1>2, <1>3, GreatestOf
<1>5. Max(S) = 0 \/ \E t \in top : Max(S) = e[t] + days[t]
  BY <1>4 DEF Ahead
<1>6. \A t \in top : e[t] + days[t] <= Max(S)
  BY <1>4 DEF Ahead
<1>7. Max(S) \in Nat
  BY <1>5
<1> QED BY <1>3, <1>5, <1>6, <1>7

\* No task has to end before it can, nor may end after the project.
LEMMA WindowsOpen ==
  ASSUME Acyclic, top \subseteq Task, NEW days \in [top -> Nat], NEW e, Tight(e, days),
         NEW end \in Int, \A t \in top : e[t] + days[t] <= end, NEW l, Hung(l, days, end)
  PROVE  \A t \in top : e[t] + days[t] <= l[t] /\ l[t] <= end
<1>1. \A t \in top : e[t] \in Nat /\ days[t] \in Nat /\ l[t] \in Int
  BY DEF Tight, Hung
<1>2. ASSUME NEW t \in top, NEW m \in After(t)
      PROVE  m \in top /\ e[m] >= e[t] + days[t] /\ l[t] <= l[m] - days[m]
  BY <1>2 DEF Tight, Hung, Before, After
<1>3. \A t \in top : l[t] = end \/ \E m \in After(t) : l[t] = l[m] - days[m]
  BY DEF Hung
<1> DEFINE V == {t \in top : ~(e[t] + days[t] <= l[t] /\ l[t] <= end)}
<1>4. ASSUME V # {} PROVE FALSE
  <2>1. PICK u \in V : \A m \in After(u) : m \in top /\ m \notin V
    BY <1>4, GraphEnds
  <2>2. CASE l[u] = end
    BY <1>1, <2>2
  <2>3. CASE l[u] # end
    <3>1. PICK m \in After(u) : l[u] = l[m] - days[m]
      BY <1>3, <2>3
    <3>2. m \in top /\ e[m] + days[m] <= l[m] /\ l[m] <= end /\ e[m] >= e[u] + days[u]
      BY <1>2, <2>1, <3>1
    <3> QED BY <1>1, <3>1, <3>2
  <2> QED BY <2>2, <2>3
<1> QED BY <1>4

\* Longer tasks make none start earlier.
LEMMA LongerStartsLater ==
  ASSUME Acyclic, top \subseteq Task, NEW days \in [top -> Nat], NEW longer \in [top -> Nat],
         \A t \in top : days[t] <= longer[t],
         NEW e, Tight(e, days), NEW f, Tight(f, longer)
  PROVE  \A t \in top : e[t] <= f[t]
<1>1. \A t \in top : e[t] \in Nat /\ f[t] \in Nat /\ days[t] \in Nat /\ longer[t] \in Nat
  BY DEF Tight
<1> DEFINE V == {t \in top : ~(e[t] <= f[t])}
<1>2. ASSUME V # {} PROVE FALSE
  <2>1. PICK u \in V : \A b \in Before(u) : b \in top /\ b \notin V
    BY <1>2, GraphEnds
  <2>2. PICK b \in Before(u) : e[u] = e[b] + days[b]
    BY <1>1 DEF Tight
  <2>3. b \in top /\ e[b] <= f[b] /\ f[u] >= f[b] + longer[b]
    BY <2>1 DEF Tight
  <2> QED BY <1>1, <2>2, <2>3
<1> QED BY <1>2

\* What depends on a task: t itself does not, in a graph without a cycle.
Downstream(t) ==
  {u \in top : \A C \in SUBSET top : After(t) \subseteq C /\ Closed(C, Succs) => u \in C}

LEMMA BehindIs ==
  ASSUME Acyclic, top \subseteq Task, NEW t \in top
  PROVE  /\ Downstream(t) \in SUBSET top /\ After(t) \subseteq Downstream(t)
         /\ Closed(Downstream(t), Succs) /\ t \notin Downstream(t)
<1> DEFINE D == Downstream(t)
<1>1. D \in SUBSET top /\ After(t) \subseteq D
  BY DEF Downstream, After
<1>2. Closed(D, Succs)
  <2> SUFFICES ASSUME NEW u \in D, NEW m \in Succs[u] PROVE m \in D
    BY DEF Closed
  <2>1. m \in top
    BY <1>1 DEF Succs, After
  <2>2. ASSUME NEW C \in SUBSET top, After(t) \subseteq C, Closed(C, Succs) PROVE m \in C
    BY <2>2 DEF Downstream, Closed
  <2> QED BY <2>1, <2>2 DEF Downstream
<1>3. ASSUME NEW u \in D PROVE u \in After(t) \/ \E b \in Before(u) : b \in D
  <2> SUFFICES ASSUME u \notin After(t), \A b \in Before(u) : b \notin D PROVE FALSE
    OBVIOUS
  <2> DEFINE C == D \ {u}
  <2>1. C \in SUBSET top /\ After(t) \subseteq C
    BY <1>1
  <2>2. ASSUME NEW v \in C PROVE Succs[v] \subseteq C
    <3>1. v \in top /\ Succs[v] \subseteq D /\ Succs[v] = After(v)
      BY <1>1, <1>2 DEF Closed, Succs
    <3>2. u \notin After(v)
      BY <1>1 DEF Before, After
    <3> QED BY <3>1, <3>2
  <2>3. Closed(C, Succs)
    BY <2>2 DEF Closed
  <2>4. u \in C
    BY <2>1, <2>3 DEF Downstream
  <2> QED BY <2>4
<1>4. ASSUME t \in D PROVE FALSE
  <2>1. PICK u \in D : \A b \in Before(u) : b \notin D
    BY <1>1, <1>4, GraphEnds
  <2>2. u \in After(t)
    BY <1>3, <2>1
  <2>3. t \in Before(u)
    BY <2>2 DEF Before, After
  <2> QED BY <1>4, <2>1, <2>3
<1> QED BY <1>1, <1>2, <1>4

\* A task that takes longer starts no later itself.
LEMMA LongerStartsSame ==
  ASSUME Acyclic, top \subseteq Task, NEW days \in [top -> Nat], NEW longer \in [top -> Nat],
         NEW t \in top, \A u \in top \ {t} : days[u] = longer[u],
         NEW e, Tight(e, days), NEW f, Tight(f, longer)
  PROVE  f[t] <= e[t]
<1>1. \A u \in top : e[u] \in Nat /\ f[u] \in Nat /\ days[u] \in Nat /\ longer[u] \in Nat
  BY DEF Tight
<1> DEFINE V == {u \in top \ Downstream(t) : ~(f[u] <= e[u])}
<1>2. ASSUME V # {} PROVE FALSE
  <2>1. PICK u \in V : \A b \in Before(u) : b \in top /\ b \notin V
    BY <1>2, GraphEnds
  <2>2. PICK b \in Before(u) : f[u] = f[b] + longer[b]
    BY <1>1 DEF Tight
  <2>3. b \in top /\ e[u] >= e[b] + days[b] /\ u \in After(b)
    BY <2>1, <2>2 DEF Tight, Before, After
  <2>4. b # t
    BY <2>3, BehindIs
  <2>5. b \notin Downstream(t)
    BY <2>3, BehindIs DEF Closed, Succs
  <2>6. f[b] <= e[b] /\ longer[b] = days[b]
    BY <2>1, <2>3, <2>4, <2>5
  <2> QED BY <1>1, <2>2, <2>3, <2>6
<1>3. t \notin V /\ t \notin Downstream(t)
  BY <1>2, BehindIs
<1> QED BY <1>3

\* A task that is late by no more than its slack delays nothing at the end.
LEMMA LateInTime ==
  ASSUME Acyclic, top \subseteq Task, NEW days \in [top -> Nat], NEW longer \in [top -> Nat],
         NEW t \in top, \A u \in top \ {t} : days[u] = longer[u], days[t] <= longer[t],
         NEW e, Tight(e, days), NEW f, Tight(f, longer),
         NEW end \in Int, \A u \in top : e[u] + days[u] <= end, NEW l, Hung(l, days, end),
         e[t] + longer[t] <= l[t]
  PROVE  \A u \in top : f[u] + longer[u] <= end
<1>1. \A u \in top : /\ e[u] \in Nat /\ f[u] \in Nat /\ days[u] \in Nat /\ longer[u] \in Nat
                     /\ l[u] \in Int
  BY DEF Tight, Hung
<1>2. \A u \in top : e[u] + days[u] <= l[u] /\ l[u] <= end
  BY WindowsOpen
<1> DEFINE V == {u \in top : ~(f[u] + longer[u] <= l[u])}
<1>3. ASSUME V # {} PROVE FALSE
  <2>1. PICK u \in V : \A b \in Before(u) : b \in top /\ b \notin V
    BY <1>3, GraphEnds
  <2>2. CASE u = t
    <3>1. f[t] <= e[t]
      BY LongerStartsSame
    <3> QED BY <1>1, <2>2, <3>1
  <2>3. CASE u # t /\ f[u] = 0
    BY <1>1, <1>2, <2>3
  <2>4. CASE u # t /\ f[u] # 0
    <3>1. PICK b \in Before(u) : f[u] = f[b] + longer[b]
      BY <2>4 DEF Tight
    <3>2. b \in top /\ f[b] + longer[b] <= l[b] /\ u \in After(b)
      BY <2>1, <3>1 DEF Before, After
    <3>3. l[b] <= l[u] - days[u]
      BY <3>2 DEF Hung
    <3> QED BY <1>1, <2>4, <3>1, <3>2, <3>3
  <2> QED BY <2>2, <2>3, <2>4
<1>4. \A u \in top : f[u] + longer[u] <= l[u]
  BY <1>3
<1> QED BY <1>1, <1>2, <1>4

\* One that is late by more does.
LEMMA LateAtTheEnd ==
  ASSUME Acyclic, top \subseteq Task, NEW days \in [top -> Nat], NEW longer \in [top -> Nat],
         \A u \in top : days[u] <= longer[u],
         NEW f, Tight(f, longer), NEW end \in Int, NEW l, Hung(l, days, end),
         NEW t \in top, f[t] + longer[t] > l[t]
  PROVE  \E u \in top : f[u] + longer[u] > end
<1>1. \A u \in top : f[u] \in Nat /\ days[u] \in Nat /\ longer[u] \in Nat /\ l[u] \in Int
  BY DEF Tight, Hung
<1> DEFINE V == {u \in top : f[u] + longer[u] > l[u]}
<1>2. PICK u \in V : \A m \in After(u) : m \in top /\ m \notin V
  BY GraphEnds
<1>3. CASE l[u] = end
  BY <1>3
<1>4. CASE l[u] # end
  <2>1. PICK m \in After(u) : l[u] = l[m] - days[m]
    BY <1>4 DEF Hung
  <2>2. m \in top /\ ~(f[m] + longer[m] > l[m]) /\ u \in Before(m)
    BY <1>2, <2>1 DEF Before, After
  <2>3. f[m] >= f[u] + longer[u]
    BY <2>2 DEF Tight
  <2> QED BY <1>1, <2>1, <2>2, <2>3
<1> QED BY <1>3, <1>4

\* The slack is the room between the windows, never cut off at 0.
LEMMA SlackIs ==
  ASSUME Acyclic, top \subseteq Task, NEW list, Lists(list), NEW days \in [top -> Nat], NEW t \in top
  PROVE  /\ Slack(list, days)[t] \in Nat
         /\ Slack(list, days)[t] =
              LatestFinish(list, days, End(list, days))[t] - days[t] - EarliestStart(list, days)[t]
<1> DEFINE e == EarliestStart(list, days)
           l == LatestFinish(list, days, End(list, days))
<1>1. IsFiniteSet(top) /\ Tight(e, days) /\ e \in [top -> Nat]
  BY GraphRooted, StartsAreTight DEF Tight
<1>2. End(list, days) \in Nat /\ \A u \in top : e[u] + days[u] <= End(list, days)
  BY <1>1, EndIs DEF End
<1>3. Hung(l, days, End(list, days)) /\ l \in [top -> Int]
  BY <1>2, FinishesAreHung DEF Hung
<1> HIDE DEF e, l
<1>4. e[t] + days[t] <= l[t]
  BY <1>1, <1>2, <1>3, WindowsOpen
<1>5. PICK s \in Nat : s = l[t] - days[t] - e[t]
  <2>1. e[t] \in Nat /\ days[t] \in Nat /\ l[t] \in Int
    BY <1>1, <1>3
  <2> QED BY <1>4, <2>1
<1>6. Max({0, s}) = s
  <2>0. IsFiniteSet({0}) /\ IsFiniteSet({s})
    BY FS_Singleton
  <2>1. IsFiniteSet({0} \cup {s})
    BY <2>0, FS_Union
  <2>2. {0} \cup {s} = {0, s} /\ {0, s} \in SUBSET Int /\ {0, s} # {}
    OBVIOUS
  <2>3. Max({0, s}) \in {0, s} /\ \A y \in {0, s} : y <= Max({0, s})
    BY <2>1, <2>2, GreatestOf
  <2> QED BY <2>3
<1>7. Slack(list, days)[t] = Max({0, s})
  BY <1>5 DEF Slack, End, e, l
<1> QED BY <1>5, <1>6, <1>7 DEF e, l

\* A task may take its slack longer without moving the end, and not a day more.
LEMMA SlackExact ==
  ASSUME Acyclic, top \subseteq Task, NEW list, Lists(list), NEW days \in [top -> Nat], NEW t \in top
  PROVE  LET s == Slack(list, days)[t]
         IN  /\ End(list, [days EXCEPT ![t] = @ + s]) = End(list, days)
             /\ End(list, [days EXCEPT ![t] = @ + (s + 1)]) > End(list, days)
<1> DEFINE s == Slack(list, days)[t]
           e == EarliestStart(list, days)
           l == LatestFinish(list, days, End(list, days))
<1>1. IsFiniteSet(top) /\ Tight(e, days) /\ e \in [top -> Nat]
  BY GraphRooted, StartsAreTight DEF Tight
<1>2. /\ End(list, days) \in Nat /\ \A u \in top : e[u] + days[u] <= End(list, days)
      /\ End(list, days) = 0 \/ \E u \in top : End(list, days) = e[u] + days[u]
  BY <1>1, EndIs DEF End
<1>0. End(list, days) \in Int
  BY <1>2
<1>3. Hung(l, days, End(list, days)) /\ l \in [top -> Int]
  BY <1>0, FinishesAreHung DEF Hung
<1>4. s \in Nat /\ s = l[t] - days[t] - e[t]
  BY SlackIs
<1> HIDE DEF e, l, s
<1>5. e[t] \in Nat /\ days[t] \in Nat /\ l[t] \in Int
  BY <1>1, <1>3
<1>6. ASSUME NEW k \in Nat
      PROVE  LET longer == [days EXCEPT ![t] = @ + k]
             IN  /\ longer \in [top -> Nat] /\ longer[t] = days[t] + k
                 /\ \A u \in top \ {t} : days[u] = longer[u]
                 /\ \A u \in top : days[u] <= longer[u]
                 /\ Tight(EarliestStart(list, longer), longer)
                 /\ EarliestStart(list, longer) \in [top -> Nat]
                 /\ End(list, longer) \in Nat
                 /\ \A u \in top : EarliestStart(list, longer)[u] + longer[u] <= End(list, longer)
                 /\ \/ End(list, longer) = 0
                    \/ \E u \in top : End(list, longer) = EarliestStart(list, longer)[u] + longer[u]
  <2> DEFINE longer == [days EXCEPT ![t] = @ + k]
  <2>1. longer \in [top -> Nat] /\ longer[t] = days[t] + k /\ \A u \in top \ {t} : days[u] = longer[u]
    OBVIOUS
  <2>2. \A u \in top : days[u] <= longer[u]
    BY <2>1
  <2> HIDE DEF longer
  <2>3. Tight(EarliestStart(list, longer), longer)
    BY <2>1, StartsAreTight
  <2>4. EarliestStart(list, longer) \in [top -> Nat]
    BY <2>3 DEF Tight
  <2>5. /\ End(list, longer) \in Nat
        /\ \A u \in top : EarliestStart(list, longer)[u] + longer[u] <= End(list, longer)
        /\ \/ End(list, longer) = 0
           \/ \E u \in top : End(list, longer) = EarliestStart(list, longer)[u] + longer[u]
    BY <1>1, <2>1, <2>4, EndIs DEF End
  <2>6. /\ longer \in [top -> Nat] /\ longer[t] = days[t] + k
        /\ \A u \in top \ {t} : days[u] = longer[u] /\ \A v \in top : days[v] <= longer[v]
    BY <2>1, <2>2
  <2> QED BY <2>1, <2>2, <2>3, <2>4, <2>5 DEF longer
<1>7. End(list, [days EXCEPT ![t] = @ + s]) = End(list, days)
  <2> DEFINE longer == [days EXCEPT ![t] = @ + s]
             f == EarliestStart(list, longer)
  <2>1. /\ longer \in [top -> Nat] /\ longer[t] = days[t] + s
        /\ \A u \in top \ {t} : days[u] = longer[u]
        /\ \A u \in top : days[u] <= longer[u]
        /\ Tight(f, longer) /\ f \in [top -> Nat]
        /\ End(list, longer) \in Nat
        /\ \A u \in top : f[u] + longer[u] <= End(list, longer)
        /\ End(list, longer) = 0 \/ \E u \in top : End(list, longer) = f[u] + longer[u]
    BY <1>4, <1>6
  <2> HIDE DEF longer, f
  <2>2. e[t] + longer[t] <= l[t] /\ days[t] <= longer[t]
    BY <1>4, <1>5, <2>1
  <2>3. \A u \in top : f[u] + longer[u] <= End(list, days)
    <3>1. \A u \in top : e[u] + days[u] <= End(list, days)
      BY <1>2
    <3>2. \A u \in top \ {t} : days[u] = longer[u]
      BY <2>1
    <3>3. longer \in [top -> Nat] /\ Tight(f, longer) /\ Tight(e, days)
      BY <1>1, <2>1
    <3>4. Hung(l, days, End(list, days))
      BY <1>3
    <3> QED BY <1>0, <2>2, <3>1, <3>2, <3>3, <3>4, LateInTime
  <2>4. \A u \in top : e[u] <= f[u]
    BY <1>1, <2>1, LongerStartsLater
  <2>5. End(list, longer) <= End(list, days)
    BY <1>2, <2>1, <2>3
  <2>6. End(list, days) <= End(list, longer)
    <3>1. ASSUME NEW u \in top, End(list, days) = e[u] + days[u]
          PROVE  End(list, days) <= End(list, longer)
      <4>1. /\ e[u] \in Nat /\ f[u] \in Nat /\ days[u] \in Nat /\ longer[u] \in Nat
            /\ e[u] <= f[u] /\ days[u] <= longer[u] /\ f[u] + longer[u] <= End(list, longer)
        BY <1>1, <2>1, <2>4
      <4> QED BY <2>1, <3>1, <4>1
    <3> QED BY <1>2, <2>1, <3>1
  <2> QED BY <1>2, <2>1, <2>5, <2>6 DEF longer
<1>8. End(list, [days EXCEPT ![t] = @ + (s + 1)]) > End(list, days)
  <2> DEFINE longer == [days EXCEPT ![t] = @ + (s + 1)]
             f == EarliestStart(list, longer)
  <2>1. s + 1 \in Nat
    BY <1>4
  <2>2. /\ longer \in [top -> Nat] /\ longer[t] = days[t] + (s + 1)
        /\ \A u \in top : days[u] <= longer[u]
        /\ Tight(f, longer) /\ f \in [top -> Nat]
        /\ End(list, longer) \in Nat
        /\ \A u \in top : f[u] + longer[u] <= End(list, longer)
    BY <1>6, <2>1
  <2> HIDE DEF longer, f
  <2>3. e[t] <= f[t]
    BY <1>1, <2>2, LongerStartsLater
  <2>4. f[t] + longer[t] > l[t]
    BY <1>4, <1>5, <2>2, <2>3
  <2>5. PICK u \in top : f[u] + longer[u] > End(list, days)
    BY <1>2, <1>3, <2>2, <2>4, LateAtTheEnd
  <2>6. f[u] + longer[u] \in Nat /\ f[u] + longer[u] <= End(list, longer)
    BY <2>2
  <2>7. End(list, longer) > End(list, days)
    BY <1>2, <2>2, <2>5, <2>6
  <2> QED BY <2>7 DEF longer
<1> QED BY <1>7, <1>8 DEF s

LastStep(list, length) ==
  [x \in top \X (1..Len(list)) |-> IF length[list[x[2]]] > length[x[1]] THEN list[x[2]] ELSE x[1]]

\* The turns of the loop that looks for the last task of the path.
LEMMA LastTaskStages ==
  ASSUME NEW list \in Seq(top), list # <<>>, NEW length
  PROVE  Yields(LastTask(list, length), list[1], LastStep(list, length),
                top, Len(list))
<1> DEFINE n == Len(list)
           A == top
           step == LastStep(list, length)
           Turn(x, i) == IF length[list[i]] > length[x] THEN list[i] ELSE x
           Step(h) == [s \in SUBSET (1..n) |->
                         IF s = {} THEN list[1] ELSE Turn(h[s \ {Max(s)}], Max(s))]
           iter == CHOOSE h : h = Step(h)
<1>1. n \in Nat /\ DOMAIN list = 1..n
  OBVIOUS
<1>2. LastTask(list, length) = iter[1..n]
  BY <1>1 DEF LastTask, FoldLeft, MapThenFoldSet
<1>3. step \in [A \X (1..n) -> A] /\ list[1] \in A
  BY DEF LastStep
<1>4. \A x \in A, i \in 1..n : step[<<x, i>>] = Turn(x, i)
  BY DEF LastStep
<1> HIDE DEF Turn, A, step
<1>5. \E h : h = Step(h)
  <2>1. PICK h : Folded(h, list[1], step, A, n)
    BY <1>1, <1>3, FoldExists
  <2>2. \A s \in SUBSET (1..n) : s # {} => h[s] = Turn(h[s \ {Max(s)}], Max(s))
    BY <1>4, <2>1 DEF Folded
  <2> QED BY <2>1, <2>2 DEF Folded
<1>6. iter = Step(iter)
  BY <1>5
<1> HIDE DEF iter
<1>7. Follows(iter, list[1], step, A, n)
  BY <1>4, <1>6 DEF Follows
<1> HIDE DEF n
<1>8. Yields(iter[1..n], list[1], step, A, n)
  BY <1>1, <1>3, <1>7, FoldStages
<1> QED BY <1>2, <1>8 DEF step, A, n

-----------------------------------------------------------------------------
\* What a task adds to.
Carried(length, p) == IF p = Null THEN 0 ELSE length[p]

\* The best predecessor has the longest path, or none has any length.
LEMMA BestIs ==
  ASSUME NEW list \in Seq(top), ToSet(list) = top, top \subseteq Task, NEW length \in [top -> Nat],
         NEW t \in top
  PROVE  /\ Best(list, length, t) = Null \/ Best(list, length, t) \in Before(t)
         /\ \A b \in Before(t) : length[b] <= Carried(length, Best(list, length, t))
<1> DEFINE n == Len(list)
           A == {Null} \cup Before(t)
           step == BestStep(list, length, t)
           Seen(i, p) == \A j \in 1..i : list[j] \in Before(t) => length[list[j]] <= Carried(length, p)
<1>1. n \in Nat /\ DOMAIN list = 1..n /\ \A i \in 1..n : list[i] \in top
  OBVIOUS
<1>2. PICK g : Stages(g, Null, step, A, n) /\ Best(list, length, t) = g[n]
  BY BestStages DEF Yields
<1>3. \A p \in A : Carried(length, p) \in Nat
  BY DEF Carried, Before
<1>4. ASSUME NEW p \in A, NEW i \in 1..n
      PROVE  LET q == step[<<p, i>>]
             IN  /\ q \in A /\ Carried(length, p) <= Carried(length, q)
                 /\ list[i] \in Before(t) => length[list[i]] <= Carried(length, q)
  <2> DEFINE v == list[i]
  <2>1. v \in top /\ v # Null /\ length[v] \in Nat
    BY <1>1, NullIsNoTask
  <2>2. step[<<p, i>>] = IF v \in Before(t) /\ length[v] > Carried(length, p) THEN v ELSE p
    BY DEF BestStep, Carried
  <2>3. Carried(length, v) = length[v]
    BY <2>1 DEF Carried
  <2> HIDE DEF v, step
  <2>4. Carried(length, p) \in Nat
    BY <1>3
  <2>5. CASE v \in Before(t) /\ length[v] > Carried(length, p)
    <3>1. step[<<p, i>>] = v
      BY <2>2, <2>5
    <3>2. length[v] <= Carried(length, v) /\ Carried(length, p) <= Carried(length, v)
      BY <2>1, <2>3, <2>4, <2>5
    <3> QED BY <2>5, <3>1, <3>2 DEF v
  <2>6. CASE ~(v \in Before(t) /\ length[v] > Carried(length, p))
    <3>1. step[<<p, i>>] = p
      BY <2>2, <2>6
    <3>2. /\ v \in Before(t) => length[v] <= Carried(length, p)
          /\ Carried(length, p) <= Carried(length, p)
      BY <2>1, <2>4, <2>6
    <3> QED BY <3>1, <3>2 DEF v
  <2> QED BY <2>5, <2>6
<1> HIDE DEF step, A
<1>5. \A i \in 1..n : g[i - 1] \in A /\ g[i] = step[<<g[i - 1], i>>]
  <2> SUFFICES ASSUME NEW i \in 1..n PROVE g[i - 1] \in A /\ g[i] = step[<<g[i - 1], i>>]
    OBVIOUS
  <2>1. i - 1 \in 0..n
    BY <1>1
  <2> HIDE DEF n
  <2> QED BY <1>2, <2>1 DEF Stages
<1> DEFINE Kept == {i \in Nat : i <= n => Seen(i, g[i])}
<1>6. 0 \in Kept
  OBVIOUS
<1>7. ASSUME NEW i \in Nat, i \in Kept PROVE i + 1 \in Kept
  <2> SUFFICES ASSUME i + 1 <= n PROVE Seen(i + 1, g[i + 1])
    OBVIOUS
  <2>1. i + 1 \in 1..n /\ (i + 1) - 1 = i /\ Seen(i, g[i])
    BY <1>1, <1>7
  <2>2. g[i] \in A /\ g[i + 1] = step[<<g[i], i + 1>>]
    BY <1>5, <2>1
  <2>3. /\ g[i + 1] \in A /\ Carried(length, g[i]) <= Carried(length, g[i + 1])
        /\ list[i + 1] \in Before(t) => length[list[i + 1]] <= Carried(length, g[i + 1])
    BY <1>4, <2>1, <2>2
  <2>4. Carried(length, g[i]) \in Nat /\ Carried(length, g[i + 1]) \in Nat
    BY <1>3, <2>2, <2>3
  <2> SUFFICES ASSUME NEW j \in 1..i + 1, list[j] \in Before(t)
               PROVE  length[list[j]] <= Carried(length, g[i + 1])
    OBVIOUS
  <2>5. CASE j = i + 1
    BY <2>3, <2>5
  <2>6. CASE j # i + 1
    <3>1. j \in 1..i /\ j \in 1..n
      BY <2>1, <2>6
    <3>2. length[list[j]] <= Carried(length, g[i]) /\ length[list[j]] \in Nat
      BY <1>1, <2>1, <3>1
    <3> QED BY <2>3, <2>4, <3>2
  <2> QED BY <2>5, <2>6
<1> HIDE DEF Kept
<1>8. n \in Kept
  BY <1>1, <1>6, <1>7, EveryNumber
<1>9. Seen(n, g[n])
  BY <1>1, <1>8 DEF Kept
<1>10. g[n] \in A
  BY <1>1, <1>2 DEF Stages
<1>11. ASSUME NEW b \in Before(t) PROVE length[b] <= Carried(length, g[n])
  <2>1. PICK j \in 1..n : list[j] = b
    BY <1>1 DEF ToSet, Before
  <2> QED BY <1>9, <2>1
<1> QED BY <1>2, <1>10, <1>11 DEF A

\* A task on its longest path.
FinePath(days) ==
  {x \in Paths \X top :
     LET p == x[1].prev[x[2]] IN
     /\ p = Null \/ p \in Before(x[2])
     /\ x[1].length[x[2]] = days[x[2]] + Carried(x[1].length, p)
     /\ \A b \in Before(x[2]) : x[1].length[b] <= Carried(x[1].length, p)}

\* Lengthening the path of a task disturbs no task that is settled, and settles one whose
\* predecessors are.
LEMMA LengthenSettles ==
  ASSUME top \subseteq Task, NEW listed \in Seq(top), ToSet(listed) = top,
         NEW x \in Paths, NEW days \in [top -> Nat], NEW t \in top,
         NEW S \in SUBSET top, Closed(S, Preds), AllFine(S, x, FinePath(days)),
         NEW y, y = Lengthen(x, t, Best(listed, x.length, t), days)
  PROVE  /\ AllFine(S, y, FinePath(days))
         /\ Preds[t] \subseteq S => <<y, t>> \in FinePath(days)
<1> DEFINE L == x.length
           p == Best(listed, L, t)
<1>1. L \in [top -> Nat] /\ x.prev \in [top -> top \cup {Null}]
  BY DEF Paths
<1>2. (p = Null \/ p \in Before(t)) /\ \A b \in Before(t) : L[b] <= Carried(L, p)
  BY <1>1, BestIs
<1>3. y \in Paths
  BY <1>1, <1>2, LengthenIs
<1> HIDE DEF p
<1>4. /\ y.length = [L EXCEPT ![t] = days[t] + Carried(L, p)]
      /\ y.prev = [x.prev EXCEPT ![t] = p]
  BY DEF Lengthen, Carried, p
<1> HIDE DEF L
<1>5. /\ y.length[t] = days[t] + Carried(L, p) /\ y.prev[t] = p
      /\ \A u \in top \ {t} : y.length[u] = L[u] /\ y.prev[u] = x.prev[u]
  BY <1>1, <1>4
<1>6. ASSUME NEW u \in S
      PROVE  /\ x.prev[u] = Null \/ x.prev[u] \in Before(u)
             /\ L[u] = days[u] + Carried(L, x.prev[u])
             /\ \A b \in Before(u) : L[b] <= Carried(L, x.prev[u])
             /\ Before(u) \subseteq S
  BY <1>6 DEF AllFine, FinePath, Closed, Preds, L
<1>7. \A b \in Before(t) : b \in top /\ L[b] \in Nat
  BY <1>1 DEF Before
<1>8. ASSUME t \in S PROVE y.length[t] = L[t]
  <2> DEFINE q == x.prev[t]
  <2>1. /\ q = Null \/ q \in Before(t)
        /\ L[t] = days[t] + Carried(L, q)
        /\ \A b \in Before(t) : L[b] <= Carried(L, q)
    BY <1>6, <1>8
  <2> HIDE DEF q
  <2>2. Carried(L, p) \in Nat /\ Carried(L, q) \in Nat
    BY <1>2, <1>7, <2>1 DEF Carried
  <2>3. Carried(L, p) <= Carried(L, q)
    BY <1>2, <1>7, <2>1, <2>2 DEF Carried
  <2>4. Carried(L, q) <= Carried(L, p)
    BY <1>2, <1>7, <2>1, <2>2 DEF Carried
  <2> QED BY <1>5, <2>1, <2>2, <2>3, <2>4
<1>9. \A u \in S : y.length[u] = L[u]
  BY <1>5, <1>8
<1>10. ASSUME NEW q, NEW u \in top, q = Null \/ q \in Before(u), Before(u) \subseteq S
       PROVE  /\ Carried(y.length, q) = Carried(L, q)
              /\ \A b \in Before(u) : y.length[b] = L[b]
  BY <1>9, <1>10 DEF Carried
<1>11. ASSUME Preds[t] \subseteq S PROVE <<y, t>> \in FinePath(days)
  <2>1. Before(t) \subseteq S
    BY <1>11 DEF Preds
  <2>2. Carried(y.length, p) = Carried(L, p) /\ \A b \in Before(t) : y.length[b] = L[b]
    BY <1>2, <1>10, <2>1
  <2>3. /\ y.length[t] = days[t] + Carried(y.length, y.prev[t])
        /\ \A b \in Before(t) : y.length[b] <= Carried(y.length, y.prev[t])
    BY <1>2, <1>5, <2>2
  <2> QED BY <1>2, <1>3, <1>5, <2>3 DEF FinePath
<1>12. ASSUME NEW u \in S, u # t PROVE <<y, u>> \in FinePath(days)
  <2>1. Carried(y.length, x.prev[u]) = Carried(L, x.prev[u]) /\ \A b \in Before(u) : y.length[b] = L[b]
    BY <1>6, <1>10
  <2>2. y.prev[u] = x.prev[u] /\ y.length[u] = L[u]
    BY <1>5, <1>12
  <2>3. /\ y.length[u] = days[u] + Carried(y.length, y.prev[u])
        /\ \A b \in Before(u) : y.length[b] <= Carried(y.length, y.prev[u])
    BY <1>6, <2>1, <2>2
  <2> QED BY <1>3, <1>6, <2>2, <2>3 DEF FinePath
<1>13. t \in S => Preds[t] \subseteq S
  BY DEF Closed
<1> QED BY <1>11, <1>12, <1>13 DEF AllFine

\* A pass over the paths settles one more layer of tasks.
LEMMA PathsPassIs ==
  ASSUME IsFiniteSet(top), top \subseteq Task, NEW list, Lists(list), NEW order, Orders(order),
         NEW days \in [top -> Nat], NEW x \in Paths
  PROVE  \A S \in SUBSET top, t \in top :
           Closed(S, Preds) /\ AllFine(S, x, FinePath(days)) /\ Preds[t] \subseteq S =>
             AllFine(S \cup {t}, PathsPass(x, list, order, days), FinePath(days))
<1> DEFINE n == Len(list)
           step == PathsStep(list, order, days)
<1>1. list \in Seq(top) /\ ToSet(list) = top /\ n \in Nat /\ \A i \in 1..n : list[i] \in top
  BY DEF Lists
<1>2. PICK g : Stages(g, x, step, Paths, n) /\ PathsPass(x, list, order, days) = g[n]
  BY <1>1, PathsPassStages DEF Yields
<1>3. \A y \in Paths, i \in 1..n :
        step[<<y, i>>] = Lengthen(y, list[i], Best(order[list[i]], y.length, list[i]), days)
  BY DEF PathsStep
<1> HIDE DEF step
<1>4. Steady(step, Paths, list, Preds, FinePath(days))
  <2> SUFFICES ASSUME NEW y \in Paths, NEW i \in 1..n, NEW S \in SUBSET top,
                      Closed(S, Preds), AllFine(S, y, FinePath(days))
               PROVE  /\ AllFine(S, step[<<y, i>>], FinePath(days))
                      /\ Preds[list[i]] \subseteq S => <<step[<<y, i>>], list[i]>> \in FinePath(days)
    BY DEF Steady
  <2>1. step[<<y, i>>] = Lengthen(y, list[i], Best(order[list[i]], y.length, list[i]), days) /\ list[i] \in top
    BY <1>1, <1>3
  <2>2. order[list[i]] \in Seq(top) /\ ToSet(order[list[i]]) = top
    BY <2>1 DEF Orders
  <2> QED BY <2>1, <2>2, LengthenSettles
<1>5. ASSUME NEW S \in SUBSET top, NEW t \in top,
             Closed(S, Preds), AllFine(S, x, FinePath(days)), Preds[t] \subseteq S
      PROVE  AllFine(S \cup {t}, g[n], FinePath(days))
  BY <1>1, <1>2, <1>4, <1>5, PassAdvances
<1> QED BY <1>2, <1>5

\* computeCriticalPath: each length is that of the task behind its longest predecessor.
LEMMA PathsAreLongest ==
  ASSUME Acyclic, top \subseteq Task, NEW list, Lists(list), NEW order, Orders(order),
         NEW days \in [top -> Nat]
  PROVE  /\ LongestPaths(list, order, days) \in Paths
         /\ AllFine(top, LongestPaths(list, order, days), FinePath(days))
<1> DEFINE n == Cardinality(top)
           turn == PathsTurn(list, order, days)
<1>1. /\ IsFiniteSet(top) /\ Preds \in [top -> SUBSET top] /\ Rooted(Preds)
      /\ list \in Seq(top) /\ Len(list) = n /\ n \in Nat
  BY GraphRooted DEF Lists
<1>2. PICK g : Stages(g, NoPaths, turn, Paths, n) /\ LongestPaths(list, order, days) = g[n]
  BY <1>1, LongestPathsStages DEF Yields
<1>3. \A x \in Paths, i \in 1..n : turn[<<x, i>>] = PathsPass(x, list, order, days)
  BY <1>1 DEF PathsTurn
<1>4. NoPaths \in Paths
  BY DEF NoPaths, Paths
<1> HIDE DEF turn
<1>5. Advances(turn, Paths, n, Preds, FinePath(days))
  <2> SUFFICES ASSUME NEW x \in Paths, NEW i \in 1..n, NEW S \in SUBSET top, NEW t \in top,
                      Closed(S, Preds), AllFine(S, x, FinePath(days)), Preds[t] \subseteq S
               PROVE  AllFine(S \cup {t}, turn[<<x, i>>], FinePath(days))
    BY DEF Advances
  <2>1. AllFine(S \cup {t}, PathsPass(x, list, order, days), FinePath(days))
    BY <1>1, PathsPassIs
  <2> QED BY <1>3, <2>1
<1>6. AllFine(top, g[n], FinePath(days))
  BY <1>1, <1>2, <1>4, <1>5, PassesSettle
<1>7. g[n] \in Paths
  BY <1>1, <1>2 DEF Stages
<1> QED BY <1>2, <1>6, <1>7

-----------------------------------------------------------------------------
(***************************************************************************)
(* PertService.computeCriticalPath: the walk back from the last task.       *)
(***************************************************************************)
\* With a cycle too, lengths are natural and predecessors tasks.
LEMMA LongestTyped ==
  ASSUME IsFiniteSet(top), NEW list \in Seq(top), NEW order, Orders(order),
         NEW days \in [top -> Nat]
  PROVE  LongestPaths(list, order, days) \in Paths
<1>1. PICK g : /\ Stages(g, NoPaths, PathsTurn(list, order, days), Paths, Len(list))
               /\ LongestPaths(list, order, days) = g[Len(list)]
  BY LongestPathsStages DEF Yields
<1>2. Len(list) \in Nat
  OBVIOUS
<1> QED BY <1>1, <1>2 DEF Stages

\* The walk starts at a task of the greatest length.
LEMMA LastTaskIs ==
  ASSUME NEW list \in Seq(top), list # <<>>, NEW length \in [top -> Nat]
  PROVE  /\ LastTask(list, length) \in top
         /\ \A u \in ToSet(list) : length[u] <= length[LastTask(list, length)]
<1> DEFINE n == Len(list)
           step == LastStep(list, length)
           Seen(i, p) == \A j \in 1..i : length[list[j]] <= length[p]
<1>1. n \in Nat /\ DOMAIN list = 1..n /\ \A i \in 1..n : list[i] \in top
  OBVIOUS
<1>2. PICK g : Stages(g, list[1], step, top, n) /\ LastTask(list, length) = g[n]
  BY LastTaskStages DEF Yields
<1>3. ASSUME NEW p \in top, NEW i \in 1..n
      PROVE  LET q == step[<<p, i>>]
             IN  q \in top /\ length[p] <= length[q] /\ length[list[i]] <= length[q]
  <2>1. list[i] \in top /\ length[list[i]] \in Nat /\ length[p] \in Nat
    BY <1>1
  <2>2. step[<<p, i>>] = IF length[list[i]] > length[p] THEN list[i] ELSE p
    BY DEF LastStep
  <2> HIDE DEF step
  <2> QED BY <2>1, <2>2
<1> HIDE DEF step
<1>4. \A i \in 1..n : g[i - 1] \in top /\ g[i] = step[<<g[i - 1], i>>]
  <2> SUFFICES ASSUME NEW i \in 1..n PROVE g[i - 1] \in top /\ g[i] = step[<<g[i - 1], i>>]
    OBVIOUS
  <2>1. i - 1 \in 0..n
    BY <1>1
  <2> HIDE DEF n
  <2> QED BY <1>2, <2>1 DEF Stages
<1> DEFINE Kept == {i \in Nat : i <= n => Seen(i, g[i])}
<1>5. 0 \in Kept
  OBVIOUS
<1>6. ASSUME NEW i \in Nat, i \in Kept PROVE i + 1 \in Kept
  <2> SUFFICES ASSUME i + 1 <= n PROVE Seen(i + 1, g[i + 1])
    OBVIOUS
  <2>1. i + 1 \in 1..n /\ (i + 1) - 1 = i /\ Seen(i, g[i])
    BY <1>1, <1>6
  <2>2. g[i] \in top /\ g[i + 1] = step[<<g[i], i + 1>>]
    BY <1>4, <2>1
  <2>3. g[i + 1] \in top /\ length[g[i]] <= length[g[i + 1]] /\ length[list[i + 1]] <= length[g[i + 1]]
    BY <1>3, <2>1, <2>2
  <2> SUFFICES ASSUME NEW j \in 1..i + 1 PROVE length[list[j]] <= length[g[i + 1]]
    OBVIOUS
  <2>4. CASE j = i + 1
    BY <2>3, <2>4
  <2>5. CASE j # i + 1
    <3>1. j \in 1..i /\ j \in 1..n
      BY <2>1, <2>5
    <3>2. length[list[j]] <= length[g[i]] /\ length[list[j]] \in Nat
      BY <1>1, <2>1, <3>1
    <3>3. length[g[i]] \in Nat /\ length[g[i + 1]] \in Nat
      BY <2>2, <2>3
    <3> QED BY <2>3, <3>2, <3>3
  <2> QED BY <2>4, <2>5
<1> HIDE DEF Kept
<1>7. n \in Kept
  BY <1>1, <1>5, <1>6, EveryNumber
<1>8. Seen(n, g[n])
  BY <1>1, <1>7 DEF Kept
<1>9. g[n] \in top
  BY <1>1, <1>2 DEF Stages
<1>10. \A u \in ToSet(list) : \E j \in 1..n : list[j] = u
  BY <1>1 DEF ToSet
<1> QED BY <1>2, <1>8, <1>9, <1>10

\* The length of the longest path to a task is when it can end.
LEMMA LengthsAreEnds ==
  ASSUME Acyclic, top \subseteq Task, NEW days \in [top -> Nat], NEW e, Tight(e, days),
         NEW x \in Paths, AllFine(top, x, FinePath(days))
  PROVE  \A t \in top : x.length[t] = e[t] + days[t]
<1> DEFINE L == x.length
           V == {t \in top : L[t] # e[t] + days[t]}
<1>1. L \in [top -> Nat]
  BY DEF Paths
<1>3. \A t \in top : /\ x.prev[t] = Null \/ x.prev[t] \in Before(t)
                     /\ L[t] = days[t] + Carried(L, x.prev[t])
                     /\ \A b \in Before(t) : L[b] <= Carried(L, x.prev[t])
  BY DEF AllFine, FinePath
<1> HIDE DEF L
<1>4. \A t \in top : L[t] \in Nat /\ e[t] \in Nat /\ days[t] \in Nat
  BY <1>1 DEF Tight
<1>5. ASSUME V # {} PROVE FALSE
  <2>1. PICK u \in V : \A b \in Before(u) : b \in top /\ b \notin V
    BY <1>5, GraphEnds
  <2> DEFINE p == x.prev[u]
  <2>2. /\ p = Null \/ p \in Before(u)
        /\ L[u] = days[u] + Carried(L, p)
        /\ \A b \in Before(u) : L[b] <= Carried(L, p)
    BY <1>3
  <2> HIDE DEF p
  <2>3. \A b \in Before(u) : b \in top /\ L[b] = e[b] + days[b] /\ e[u] >= L[b]
    BY <2>1 DEF Tight
  <2>4. e[u] = 0 \/ \E b \in Before(u) : e[u] = L[b]
    BY <2>3 DEF Tight
  <2>5. Carried(L, p) \in Nat /\ Carried(L, p) <= e[u]
    BY <1>4, <2>2, <2>3 DEF Carried
  <2>6. e[u] <= Carried(L, p)
    BY <1>4, <2>2, <2>3, <2>4, <2>5
  <2>7. L[u] = days[u] + e[u]
    BY <1>4, <2>2, <2>5, <2>6
  <2> QED BY <1>4, <2>7
<1> QED BY <1>5 DEF L

\* There is one way to end as late as possible.
LEMMA FinishesAreOne ==
  ASSUME Acyclic, top \subseteq Task, NEW days \in [top -> Nat], NEW end \in Int,
         NEW l, Hung(l, days, end), \A t \in top : l[t] <= end,
         NEW m, Hung(m, days, end), \A t \in top : m[t] <= end
  PROVE  \A t \in top : l[t] = m[t]
<1>1. \A t \in top : l[t] \in Int /\ m[t] \in Int /\ days[t] \in Nat
  BY DEF Hung
<1> DEFINE V == {t \in top : l[t] # m[t]}
<1>2. ASSUME V # {} PROVE FALSE
  <2>1. PICK u \in V : \A n \in After(u) : n \in top /\ n \notin V
    BY <1>2, GraphEnds
  <2>2. \A n \in After(u) : n \in top /\ l[n] = m[n]
    BY <2>1
  <2>3. u \in top /\ l[u] # m[u]
    OBVIOUS
  <2>4. \A n \in After(u) : l[u] <= m[n] - days[n] /\ m[u] <= l[n] - days[n]
    BY <2>2, <2>3 DEF Hung
  <2>5. l[u] = end \/ \E n \in After(u) : l[u] = l[n] - days[n]
    BY <2>3 DEF Hung
  <2>6. m[u] = end \/ \E n \in After(u) : m[u] = m[n] - days[n]
    BY <2>3 DEF Hung
  <2> HIDE DEF V
  <2>7. m[u] <= l[u]
    <3>1. CASE l[u] = end
      BY <2>3, <3>1
    <3>2. CASE l[u] # end
      <4>1. PICK n \in After(u) : l[u] = l[n] - days[n]
        BY <2>5, <3>2
      <4> QED BY <2>4, <4>1
    <3> QED BY <3>1, <3>2
  <2>8. l[u] <= m[u]
    <3>1. CASE m[u] = end
      BY <2>3, <3>1
    <3>2. CASE m[u] # end
      <4>1. PICK n \in After(u) : m[u] = m[n] - days[n]
        BY <2>6, <3>2
      <4> QED BY <2>4, <4>1
    <3> QED BY <3>1, <3>2
  <2> QED BY <1>1, <2>3, <2>7, <2>8
<1> QED BY <1>2

\* The end of the project, from the lengths of the paths.
Spans(x, fin) ==
  /\ fin \in Nat /\ \A t \in top : x.length[t] <= fin
  /\ fin = 0 \/ \E t \in top : x.length[t] = fin

\* The end of the project is the greatest length.
LEMMA EndIsLongest ==
  ASSUME Acyclic, top \subseteq Task, NEW list, Lists(list), NEW days \in [top -> Nat],
         NEW x \in Paths, AllFine(top, x, FinePath(days))
  PROVE  \A fin : Spans(x, fin) <=> fin = End(list, days)
<1> DEFINE e == EarliestStart(list, days)
           L == x.length
<1>1. IsFiniteSet(top) /\ Tight(e, days) /\ e \in [top -> Nat]
  BY GraphRooted, StartsAreTight DEF Tight
<1>2. /\ End(list, days) \in Nat /\ \A t \in top : e[t] + days[t] <= End(list, days)
      /\ End(list, days) = 0 \/ \E t \in top : End(list, days) = e[t] + days[t]
  BY <1>1, EndIs DEF End
<1>3. \A t \in top : L[t] = e[t] + days[t] /\ L[t] \in Nat
  <2> HIDE DEF e
  <2> QED BY <1>1, LengthsAreEnds DEF Paths
<1> HIDE DEF e, L
<1>4. Spans(x, End(list, days))
  BY <1>2, <1>3 DEF Spans, L
<1>5. ASSUME NEW fin, Spans(x, fin) PROVE fin = End(list, days)
  <2>1. fin \in Nat /\ (\A t \in top : L[t] <= fin) /\ (fin = 0 \/ \E t \in top : L[t] = fin)
    BY <1>5 DEF Spans, L
  <2>2. /\ End(list, days) \in Nat /\ \A t \in top : L[t] <= End(list, days)
        /\ End(list, days) = 0 \/ \E t \in top : L[t] = End(list, days)
    BY <1>2, <1>3
  <2>3. fin <= End(list, days)
    BY <2>1, <2>2
  <2>4. End(list, days) <= fin
    BY <2>1, <2>2
  <2> QED BY <2>1, <2>2, <2>3, <2>4
<1> QED BY <1>4, <1>5

\* No path is longer than its last task may end late.
LEMMA PathsFit ==
  ASSUME Acyclic, top \subseteq Task, NEW days \in [top -> Nat], NEW x \in Paths,
         AllFine(top, x, FinePath(days)), NEW fin, Spans(x, fin), NEW l, Hung(l, days, fin)
  PROVE  \A t \in top : x.length[t] <= l[t] /\ l[t] <= fin /\ l[t] \in Int /\ x.length[t] \in Nat
<1> DEFINE L == x.length
           e == [t \in top |-> Carried(L, x.prev[t])]
<1>1. \A t \in top : /\ x.prev[t] = Null \/ x.prev[t] \in Before(t)
                     /\ L[t] = days[t] + Carried(L, x.prev[t])
                     /\ \A b \in Before(t) : L[b] <= Carried(L, x.prev[t])
  BY DEF AllFine, FinePath
<1>2. L \in [top -> Nat] /\ \A t \in top : Before(t) \subseteq top
  BY DEF Paths, Before
<1>3. \A t \in top : Carried(L, x.prev[t]) \in Nat
  BY <1>1, <1>2 DEF Carried
<1>4. \A t \in top : e[t] = Carried(L, x.prev[t]) /\ e[t] \in Nat
  BY <1>3
<1>5. e \in [top -> Nat]
  BY <1>4
<1>6. \A t \in top : L[t] \in Nat /\ L[t] <= fin
  BY <1>2 DEF Spans
<1> HIDE DEF e, L
<1>7. \A t \in top : L[t] = e[t] + days[t]
  BY <1>1, <1>4
<1>8. \A t \in top : \A b \in Before(t) : e[t] >= e[b] + days[b]
  <2> SUFFICES ASSUME NEW t \in top, NEW b \in Before(t) PROVE e[t] >= e[b] + days[b]
    OBVIOUS
  <2>1. b \in top /\ L[b] = e[b] + days[b] /\ L[b] <= e[t] /\ L[b] \in Nat /\ e[t] \in Nat
    BY <1>1, <1>2, <1>4, <1>6, <1>7
  <2> QED BY <2>1
<1>9. \A t \in top : e[t] = 0 \/ \E b \in Before(t) : e[t] = e[b] + days[b]
  <2> SUFFICES ASSUME NEW t \in top, e[t] # 0 PROVE \E b \in Before(t) : e[t] = e[b] + days[b]
    OBVIOUS
  <2>1. x.prev[t] # Null /\ e[t] = L[x.prev[t]]
    BY <1>4 DEF Carried
  <2> QED BY <1>1, <1>2, <1>7, <2>1
<1>10. Tight(e, days)
  BY <1>5, <1>8, <1>9 DEF Tight
<1>11. fin \in Int /\ \A t \in top : e[t] + days[t] <= fin
  BY <1>6, <1>7 DEF Spans
<1>12. \A t \in top : e[t] + days[t] <= l[t] /\ l[t] <= fin
  BY <1>10, <1>11, WindowsOpen
<1>13. \A t \in top : l[t] \in Int
  BY DEF Hung
<1> QED BY <1>6, <1>7, <1>12, <1>13 DEF L

\* Before a task that cannot be late comes one that cannot.
LEMMA PathBefore ==
  ASSUME Acyclic, top \subseteq Task, NEW days \in [top -> Nat], NEW x \in Paths,
         AllFine(top, x, FinePath(days)), NEW fin, Spans(x, fin), NEW l, Hung(l, days, fin),
         NEW t \in top, l[t] = x.length[t]
  PROVE  /\ x.length[t] = days[t] + Carried(x.length, x.prev[t])
         /\ x.prev[t] # Null => /\ x.prev[t] \in top /\ <<x.prev[t], t>> \in Edges
                                /\ l[x.prev[t]] = x.length[x.prev[t]]
<1> DEFINE L == x.length
           p == x.prev[t]
<1>1. (p = Null \/ p \in Before(t)) /\ L[t] = days[t] + Carried(L, p)
  BY DEF AllFine, FinePath
<1>2. \A u \in top : L[u] <= l[u] /\ l[u] \in Int /\ L[u] \in Nat
  BY PathsFit
<1> HIDE DEF L, p
<1>3. CASE p = Null
  BY <1>1, <1>3 DEF p, L
<1>4. CASE p # Null
  <2>1. p \in top /\ <<p, t>> \in Edges /\ t \in After(p) /\ L[t] = days[t] + L[p]
    BY <1>1, <1>4 DEF Carried, Before, After
  <2>2. l[p] <= l[t] - days[t]
    BY <2>1 DEF Hung
  <2>3. l[t] = L[t]
    BY DEF L
  <2>4. l[p] = L[p]
    BY <1>2, <2>1, <2>2, <2>3
  <2> QED BY <1>1, <1>4, <2>1, <2>4 DEF p, L
<1> QED BY <1>3, <1>4

\* Durations are days: a rounded sixth of what the three estimates weigh.
LEMMA ExpectedTyped ==
  ASSUME top \subseteq Task, estimate \in [Task -> {Null} \cup (Nat \X Nat \X Nat)]
  PROVE  Expected \in [top -> Nat]
<1> SUFFICES ASSUME NEW t \in top PROVE ExpectedDays(t) \in Nat
  BY DEF Expected
<1>1. CASE estimate[t] = Null
  BY <1>1 DEF ExpectedDays
<1>2. CASE estimate[t] # Null
  <2>1. estimate[t] \in Nat \X Nat \X Nat
    BY <1>2
  <2>2. PICK a \in Nat, b \in Nat, c \in Nat : a = estimate[t][1] /\ b = estimate[t][2] /\ c = estimate[t][3]
    BY <2>1
  <2>3. PICK n \in Nat : n = a + 4 * b + c + 3
    BY <2>2
  <2>4. n \div 6 \in Nat
    OBVIOUS
  <2>5. ExpectedDays(t) = n \div 6
    BY <1>2, <2>2, <2>3 DEF ExpectedDays
  <2> QED BY <2>4, <2>5
<1> QED BY <1>1, <1>2

PathDays(q, days) == [i \in 1..Len(q) |-> days[q[i]]]

\* The duration of a path with one more task before it.
LEMMA PathGrows ==
  ASSUME NEW days \in [top -> Nat], NEW q \in Seq(top), NEW t \in top
  PROVE  SumFunction(PathDays(<<t>> \o q, days)) = days[t] + SumFunction(PathDays(q, days))
<1> DEFINE n == Len(q)
           p == <<t>> \o q
           f == PathDays(p, days)
           g == PathDays(q, days)
<1>1. /\ n \in Nat /\ Len(p) = n + 1 /\ p[1] = t /\ \A i \in 1..n : p[i + 1] = q[i] /\ q[i] \in top
  OBVIOUS
<1>2. DOMAIN f = 1..(n + 1) /\ DOMAIN g = 1..n
  BY <1>1 DEF PathDays
<1>3. f[1] = days[t] /\ f[1] \in Int /\ \A i \in 1..n : f[i + 1] = g[i] /\ g[i] \in Int
  BY <1>1 DEF PathDays
<1> HIDE DEF n, p, f, g
<1>4. SumFunctionOnSet(f, 1..(n + 1)) = f[1] + SumFunctionOnSet(g, 1..n)
  BY <1>1, <1>3, SumBehind
<1> QED BY <1>2, <1>3, <1>4 DEF SumFunction, f, g, p

\* What the walk back has found: the end of a longest path, on tasks that cannot be late.  x are
\* lengths and predecessors that fit, l the latest finishes, fin the end of the project.
OnPath(h) ==
  \E x \in Paths : \E fin, l :
    /\ AllFine(top, x, FinePath(Expected)) /\ Spans(x, fin) /\ Hung(l, Expected, fin)
    /\ h.prev = x.prev
    /\ h.task # Null => l[h.task] = x.length[h.task]
    /\ h.task # Null /\ h.queue # <<>> => <<h.task, h.queue[1]>> \in Edges
    /\ \A i \in 1..Len(h.queue) : l[h.queue[i]] = x.length[h.queue[i]]
    /\ \A i \in 1..(Len(h.queue) - 1) : <<h.queue[i], h.queue[i + 1]>> \in Edges
    /\ SumFunction(PathDays(h.queue, Expected)) + Carried(x.length, h.task) = fin

Walker(h) ==
  h.op = "pert" =>
    /\ Lists(h.listing) /\ h.queue \in Seq(top) /\ h.task \in top \cup {Null}
    /\ h.prev \in [top -> top \cup {Null}]
    /\ Acyclic => OnPath(h)

\* The walk begins with a task of the greatest length.
LEMMA WalkBegins ==
  ASSUME Acyclic, top \subseteq Task, NEW l, Lists(l), NEW order, Orders(order),
         Expected \in [top -> Nat], NEW h, h.queue = <<>>,
         h.prev = LongestPaths(l, order, Expected).prev,
         h.task = LastTask(l, LongestPaths(l, order, Expected).length)
  PROVE  OnPath(h)
<1>1. PICK x : x = LongestPaths(l, order, Expected)
  OBVIOUS
<1>2. x \in Paths /\ AllFine(top, x, FinePath(Expected))
  BY <1>1, PathsAreLongest
<1>3. PICK fin : fin = End(l, Expected)
  OBVIOUS
<1>4. Spans(x, fin)
  BY <1>2, <1>3, EndIsLongest
<1>5. fin \in Int
  BY <1>4 DEF Spans
<1>6. PICK f : Hung(f, Expected, fin)
  <2>1. Hung(LatestFinish(l, Expected, fin), Expected, fin)
    BY <1>5, FinishesAreHung
  <2> QED BY <2>1
<1>7. \A t \in top : x.length[t] <= f[t] /\ f[t] <= fin /\ f[t] \in Int /\ x.length[t] \in Nat
  BY <1>2, <1>4, <1>6, PathsFit
<1>8. (h.task # Null => f[h.task] = x.length[h.task]) /\ Carried(x.length, h.task) = fin
  <2>1. CASE l = <<>>
    <3>1. h.task = Null
      BY <1>1, <2>1 DEF LastTask
    <3>2. top = {}
      BY <2>1 DEF Lists, ToSet
    <3>3. fin = 0
      BY <1>4, <3>2 DEF Spans
    <3> QED BY <3>1, <3>3 DEF Carried
  <2>2. CASE l # <<>>
    <3>1. x.length \in [top -> Nat] /\ l \in Seq(top) /\ ToSet(l) = top
      BY <1>2 DEF Paths, Lists
    <3>2. h.task \in top /\ \A u \in top : x.length[u] <= x.length[h.task]
      BY <1>1, <2>2, <3>1, LastTaskIs
    <3>3. h.task # Null
      BY <3>2, NullIsNoTask
    <3>4. x.length[h.task] = fin
      BY <1>4, <1>7, <3>2 DEF Spans
    <3> QED BY <1>5, <1>7, <3>2, <3>3, <3>4 DEF Carried
  <2> QED BY <2>1, <2>2
<1>9. SumFunction(PathDays(h.queue, Expected)) = 0
  <2>1. DOMAIN PathDays(h.queue, Expected) = {}
    BY DEF PathDays
  <2> QED BY <2>1, SumEmpty DEF SumFunction
<1>10. SumFunction(PathDays(h.queue, Expected)) + Carried(x.length, h.task) = fin
  BY <1>5, <1>8, <1>9
<1>11. Len(h.queue) = 0
  OBVIOUS
<1>12. /\ \A i \in 1..Len(h.queue) : f[h.queue[i]] = x.length[h.queue[i]]
       /\ \A i \in 1..(Len(h.queue) - 1) : <<h.queue[i], h.queue[i + 1]>> \in Edges
  BY <1>11
<1> QED BY <1>1, <1>2, <1>4, <1>6, <1>8, <1>10, <1>12 DEF OnPath

\* One step of the walk.
LEMMA WalkGoesBack ==
  ASSUME Acyclic, top \subseteq Task, Expected \in [top -> Nat], NEW h, h.queue \in Seq(top),
         h.task \in top, h.prev \in [top -> top \cup {Null}], OnPath(h),
         NEW g, g.queue = <<h.task>> \o h.queue, g.task = h.prev[h.task], g.prev = h.prev
  PROVE  OnPath(g)
<1>0. PICK x \in Paths : \E fin, l :
        /\ AllFine(top, x, FinePath(Expected)) /\ Spans(x, fin) /\ Hung(l, Expected, fin)
        /\ h.prev = x.prev
        /\ h.task # Null => l[h.task] = x.length[h.task]
        /\ h.task # Null /\ h.queue # <<>> => <<h.task, h.queue[1]>> \in Edges
        /\ \A i \in 1..Len(h.queue) : l[h.queue[i]] = x.length[h.queue[i]]
        /\ \A i \in 1..(Len(h.queue) - 1) : <<h.queue[i], h.queue[i + 1]>> \in Edges
        /\ SumFunction(PathDays(h.queue, Expected)) + Carried(x.length, h.task) = fin
  BY DEF OnPath
<1>1. PICK fin, l :
        /\ AllFine(top, x, FinePath(Expected)) /\ Spans(x, fin) /\ Hung(l, Expected, fin)
        /\ h.prev = x.prev
        /\ h.task # Null => l[h.task] = x.length[h.task]
        /\ h.task # Null /\ h.queue # <<>> => <<h.task, h.queue[1]>> \in Edges
        /\ \A i \in 1..Len(h.queue) : l[h.queue[i]] = x.length[h.queue[i]]
        /\ \A i \in 1..(Len(h.queue) - 1) : <<h.queue[i], h.queue[i + 1]>> \in Edges
        /\ SumFunction(PathDays(h.queue, Expected)) + Carried(x.length, h.task) = fin
  BY <1>0
<1>2. h.task # Null
  BY NullIsNoTask
<1>3. PICK t \in top : t = h.task
  OBVIOUS
<1> DEFINE p == x.prev[t]
<1>4. l[t] = x.length[t] /\ Carried(x.length, t) = x.length[t]
  BY <1>1, <1>2, <1>3 DEF Carried
<1>5. /\ x.length[t] = Expected[t] + Carried(x.length, p)
      /\ p # Null => p \in top /\ <<p, t>> \in Edges /\ l[p] = x.length[p]
  <2>1. AllFine(top, x, FinePath(Expected)) /\ Spans(x, fin) /\ Hung(l, Expected, fin)
    BY <1>1
  <2>2. t \in top
    BY <1>3
  <2>3. /\ x.length[t] = Expected[t] + Carried(x.length, x.prev[t])
        /\ x.prev[t] # Null => /\ x.prev[t] \in top /\ <<x.prev[t], t>> \in Edges
                               /\ l[x.prev[t]] = x.length[x.prev[t]]
    BY <1>4, <2>1, <2>2, PathBefore
  <2> QED BY <1>3, <2>3
<1>6. /\ Len(g.queue) = Len(h.queue) + 1 /\ g.queue[1] = t
      /\ \A i \in 1..Len(h.queue) : g.queue[i + 1] = h.queue[i]
      /\ Len(h.queue) \in Nat /\ g.task = p /\ g.queue # <<>>
  BY <1>1, <1>3
<1> HIDE DEF p
<1>7. ASSUME NEW i \in 1..Len(g.queue) PROVE l[g.queue[i]] = x.length[g.queue[i]]
  <2>1. CASE i = 1
    BY <1>4, <1>6, <2>1
  <2>2. CASE i # 1
    <3>1. PICK j \in 1..Len(h.queue) : j + 1 = i
      BY <1>6, <2>2
    <3>2. g.queue[i] = h.queue[j] /\ l[h.queue[j]] = x.length[h.queue[j]]
      BY <1>1, <1>6, <3>1
    <3> QED BY <3>2
  <2> QED BY <2>1, <2>2
<1>8. ASSUME NEW i \in 1..(Len(g.queue) - 1) PROVE <<g.queue[i], g.queue[i + 1]>> \in Edges
  <2>1. i \in 1..Len(h.queue) /\ g.queue[i + 1] = h.queue[i]
    BY <1>6
  <2>2. CASE i = 1
    <3>1. h.queue # <<>>
      BY <2>1
    <3> QED BY <1>1, <1>2, <1>3, <1>6, <2>1, <2>2, <3>1
  <2>3. CASE i # 1
    <3>1. PICK j \in 1..(Len(h.queue) - 1) : j + 1 = i
      <4>1. i - 1 \in 1..(Len(h.queue) - 1) /\ (i - 1) + 1 = i
        BY <1>6, <2>1, <2>3
      <4> QED BY <4>1
    <3>2. j \in 1..Len(h.queue) /\ g.queue[i] = h.queue[j] /\ g.queue[i + 1] = h.queue[j + 1]
      <4>1. j \in 1..Len(h.queue)
        BY <1>6, <3>1
      <4>2. g.queue[j + 1] = h.queue[j]
        BY <1>6, <4>1
      <4> QED BY <2>1, <3>1, <4>1, <4>2
    <3>3. <<h.queue[j], h.queue[j + 1]>> \in Edges
      BY <1>1, <3>1
    <3> QED BY <3>2, <3>3
  <2> QED BY <2>2, <2>3
<1>9. SumFunction(PathDays(g.queue, Expected)) = Expected[t] + SumFunction(PathDays(h.queue, Expected))
  BY <1>3, PathGrows
<1>10. Carried(x.length, p) \in Nat /\ Expected[t] \in Nat /\ fin \in Nat
  BY <1>1, <1>5 DEF Carried, Paths, Spans
<1>11. SumFunction(PathDays(h.queue, Expected)) \in Int
  <2>1. IsFiniteSet(1..Len(h.queue)) /\ DOMAIN PathDays(h.queue, Expected) = 1..Len(h.queue)
    BY <1>6, FS_Interval DEF PathDays
  <2>2. Whole(PathDays(h.queue, Expected), 1..Len(h.queue))
    BY DEF Whole, PathDays
  <2> QED BY <2>1, <2>2, SumWhole DEF SumFunction
<1>12. SumFunction(PathDays(g.queue, Expected)) + Carried(x.length, p) = fin
  BY <1>1, <1>3, <1>4, <1>5, <1>9, <1>10, <1>11
<1>13. p # Null => <<p, g.queue[1]>> \in Edges /\ l[p] = x.length[p]
  BY <1>5, <1>6
<1> QED BY <1>1, <1>6, <1>7, <1>8, <1>12, <1>13 DEF OnPath

-----------------------------------------------------------------------------
(***************************************************************************)
(* What every handler holds, and every state of a walk.                     *)
(***************************************************************************)
Walking == \A r \in Request : req[r] \in Handler /\ Walker(req[r])

PertInv ==
  /\ top \in SUBSET Task
  /\ estimate \in [Task -> {Null} \cup (Nat \X Nat \X Nat)]
  /\ Walking

\* The bound on the turns of a cascade is a natural number.
LEMMA BoundIs == PlanType => MaxIterations \in Nat
<1> SUFFICES ASSUME PlanType PROVE MaxIterations \in Nat
  OBVIOUS
<1>1. Edges \subseteq Task \X Task
  BY DEF PlanType
<1>2. IsFiniteSet(Task \X Task)
  BY TaskAssumption, FS_Product
<1>3. IsFiniteSet(Edges)
  BY <1>1, <1>2, FS_Subset
<1>4. Cardinality(Edges) \in Nat /\ Cardinality(Task) \in Nat
  BY <1>3, TaskAssumption, FS_CardinalityType
<1> QED BY <1>4 DEF MaxIterations

\* The graph stays while handlers run: so does all that is said of it.
LEMMA GraphStays ==
  ASSUME UNCHANGED <<top, lag, estimate>>
  PROVE  /\ Handler' = Handler /\ Expected' = Expected
         /\ \A h : Walker(h)' <=> Walker(h)
<1>1. Edges' = Edges /\ MaxIterations' = MaxIterations
  BY DEF Edges, MaxIterations
<1>2. Handler' = Handler
  BY <1>1 DEF Handler
<1>3. \A t : Before(t)' = Before(t) /\ After(t)' = After(t)
  BY <1>1 DEF Before, After
<1>4. Expected' = Expected
  BY DEF Expected, ExpectedDays
<1>5. Acyclic' <=> Acyclic
  BY <1>1 DEF Acyclic
<1>6. Paths' = Paths
  BY DEF Paths
<1>7. \A days : FinePath(days)' = FinePath(days)
  BY <1>3, <1>6 DEF FinePath
<1>8. \A l, days, end : Hung(l, days, end)' <=> Hung(l, days, end)
  BY <1>3 DEF Hung
<1>9. \A x, fin : Spans(x, fin)' <=> Spans(x, fin)
  BY DEF Spans
<1>10. \A x, F : AllFine(top, x, F)' <=> AllFine(top, x, F)
  BY DEF AllFine
<1>11. \A h : OnPath(h)' <=> OnPath(h)
  BY <1>1, <1>4, <1>6, <1>7, <1>8, <1>9, <1>10 DEF OnPath
<1>12. \A l : Lists(l)' <=> Lists(l)
  BY DEF Lists
<1>13. \A h : Walker(h)' <=> Walker(h)
  BY <1>5, <1>11, <1>12 DEF Walker
<1> QED BY <1>2, <1>4, <1>13

\* A free slot holds nothing.
LEMMA RestingWalks == PlanType => Resting \in Handler /\ Walker(Resting)
<1> SUFFICES ASSUME PlanType PROVE Resting \in Handler /\ Walker(Resting)
  OBVIOUS
<1>1. 0 \in 0..MaxIterations
  BY BoundIs
<1>2. <<>> \in Seq(Task)
  OBVIOUS
<1> QED BY <1>1, <1>2 DEF Resting, Handler, Walker

\* A handler, field by field.
LEMMA HandlerIs ==
  ASSUME NEW h, Shape(h), h.task \in Task \cup {Null}, h.dates \in {<<>>} \cup [Task -> DateRow],
         h.listing \in Seq(Task), h.queue \in Seq(Task), h.guard \in 0..MaxIterations,
         h.changed \in SUBSET Task, h.prev \in {<<>>} \cup [top -> Task \cup {Null}],
         h.cut \in BOOLEAN
  PROVE  h \in Handler
BY DEF Shape, Handler

\* A step that puts such handlers in the slots and leaves the graph alone.
LEMMA PertKeeps ==
  ASSUME PertInv, UNCHANGED <<top, lag, estimate>>, req' = [q \in Request |-> req'[q]],
         \A q \in Request : req'[q] \in Handler /\ Walker(req'[q])
  PROVE  PertInv'
<1>1. Handler' = Handler /\ \A h : Walker(h)' <=> Walker(h)
  BY GraphStays
<1>2. \A q \in Request : Walker(req[q])' <=> Walker(req'[q])
  BY <1>1
<1>3. Walking'
  BY <1>1, <1>2 DEF Walking
<1> QED BY <1>3 DEF PertInv

\* A step that puts one such handler in its slot and leaves the graph alone.
LEMMA PertSlot ==
  ASSUME PertInv, PlanType, UNCHANGED <<top, lag, estimate>>,
         NEW r \in Request, NEW g, req' = [req EXCEPT ![r] = g], g \in Handler, Walker(g)
  PROVE  PertInv'
<1>1. req' = [q \in Request |-> req'[q]] /\ \A q \in Request : req'[q] \in {g, req[q]}
  BY DEF PlanType
<1>2. \A q \in Request : req'[q] \in Handler /\ Walker(req'[q])
  BY <1>1 DEF PertInv, Walking
<1> QED BY <1>1, <1>2, PertKeeps

\* It holds of every project to start from.
LEMMA PertInit == Init => PertInv
<1> SUFFICES ASSUME Init PROVE PertInv
  OBVIOUS
<1>1. PlanType /\ \A r \in Request : req[r] = Resting
  BY CascadeInit DEF Init, CascadeInv
<1>2. Walking
  BY <1>1, RestingWalks DEF Walking
<1>3. PICK p \in Plans : top = p.top /\ estimate = p.estimate
  BY DEF Init
<1> QED BY <1>2, <1>3, PlansAssumption DEF PertInv

\* The answer of a walk begun on a listing of the tasks.
LEMMA WalkTyped ==
  ASSUME PertInv, PlanType, NEW l \in Listing, ToSet(l) = top,
         NEW order \in [top -> {o \in Listing : ToSet(o) = top}],
         NEW paths, paths = LongestPaths(l, order, Expected),
         NEW h, h = [Resting EXCEPT !.op = "pert", !.pc = "walk", !.listing = l,
                                    !.task = LastTask(l, paths.length), !.prev = paths.prev]
  PROVE  h \in Handler /\ Walker(h)
<1>1. top \subseteq Task /\ Expected \in [top -> Nat]
  BY ExpectedTyped DEF PertInv
<1>2. /\ l \in Seq(Task) /\ Len(l) = Cardinality(top)
  BY ListingAssumption
<1>3. l \in Seq(top)
  BY <1>2 DEF ToSet
<1>4. Lists(l)
  BY <1>2, <1>3 DEF Lists
<1>5. IsFiniteSet(top) /\ Orders(order)
  <2>1. IsFiniteSet(top)
    BY <1>1, TaskAssumption, FS_Subset
  <2>2. ASSUME NEW t \in top PROVE order[t] \in Seq(top) /\ ToSet(order[t]) = top
    <3>1. order[t] \in Listing /\ ToSet(order[t]) = top
      OBVIOUS
    <3>2. order[t] \in Seq(Task)
      BY <3>1, ListingAssumption
    <3> QED BY <3>1, <3>2 DEF ToSet
  <2> QED BY <2>1, <2>2 DEF Orders
<1>6. paths.length \in [top -> Nat] /\ paths.prev \in [top -> top \cup {Null}]
  BY <1>1, <1>3, <1>5, LongestTyped DEF Paths
<1>7. PICK t : t = LastTask(l, paths.length)
  OBVIOUS
<1>8. t \in top \cup {Null}
  <2>1. CASE l = <<>>
    BY <1>7, <2>1 DEF LastTask
  <2>2. CASE l # <<>>
    BY <1>3, <1>6, <1>7, <2>2, LastTaskIs
  <2> QED BY <2>1, <2>2
<1>9. PICK p : p = paths.prev
  OBVIOUS
<1>10. h = [Resting EXCEPT !.op = "pert", !.pc = "walk", !.listing = l, !.task = t, !.prev = p]
  BY <1>7, <1>9
<1>11. /\ Shape(h) /\ h.op = "pert" /\ h.listing = l /\ h.task = t /\ h.prev = p
       /\ h.dates = <<>> /\ h.queue = <<>> /\ h.guard = 0 /\ h.changed = {} /\ h.cut = FALSE
  BY <1>10 DEF Shape, Resting
<1>12. h \in Handler
  <2>1. 0 \in 0..MaxIterations
    BY BoundIs
  <2>2. p \in [top -> Task \cup {Null}] /\ t \in Task \cup {Null}
    BY <1>1, <1>6, <1>8, <1>9
  <2>3. <<>> \in Seq(Task) /\ {} \in SUBSET Task /\ FALSE \in BOOLEAN
    OBVIOUS
  <2> QED BY <1>2, <1>11, <2>1, <2>2, <2>3, HandlerIs
<1>13. <<>> \in Seq(top)
  OBVIOUS
<1>14. Acyclic => OnPath(h)
  <2>1. /\ h.task = LastTask(l, LongestPaths(l, order, Expected).length)
        /\ h.prev = LongestPaths(l, order, Expected).prev
    BY <1>7, <1>9, <1>11
  <2> QED BY <1>1, <1>4, <1>5, <1>11, <2>1, WalkBegins
<1> QED BY <1>4, <1>6, <1>8, <1>9, <1>11, <1>12, <1>13, <1>14 DEF Walker

\* The answer of a walk one task further back.
LEMMA WalkStep ==
  ASSUME PertInv, PlanType, NEW h \in Handler, Walker(h), h.op = "pert", h.task # Null,
         NEW g, g = [h EXCEPT !.queue = <<h.task>> \o @, !.task = h.prev[h.task]]
  PROVE  g \in Handler /\ Walker(g)
<1>1. top \subseteq Task /\ Expected \in [top -> Nat]
  BY ExpectedTyped DEF PertInv
<1>2. /\ Lists(h.listing) /\ h.queue \in Seq(top) /\ h.task \in top
      /\ h.prev \in [top -> top \cup {Null}]
      /\ Acyclic => OnPath(h)
  BY DEF Walker
<1>3. PICK t, q : t = h.prev[h.task] /\ q = <<h.task>> \o h.queue
  OBVIOUS
<1>4. t \in top \cup {Null} /\ q \in Seq(top) /\ q \in Seq(Task)
  <2>1. <<h.task>> \in Seq(top)
    BY <1>2
  <2>2. q \in Seq(top)
    BY <1>2, <1>3, <2>1
  <2>3. q \in Seq(Task)
    BY <1>1, <2>2
  <2>4. t \in top \cup {Null}
    BY <1>2, <1>3
  <2> QED BY <2>2, <2>3, <2>4
<1>5. g = [h EXCEPT !.queue = q, !.task = t]
  BY <1>3
<1>6. g \in Handler
  BY <1>1, <1>4, <1>5 DEF Handler
<1>7. g.op = h.op /\ g.queue = q /\ g.task = t /\ g.prev = h.prev /\ g.listing = h.listing
  BY <1>5 DEF Handler
<1>8. Acyclic => OnPath(g)
  <2>1. g.queue = <<h.task>> \o h.queue /\ g.task = h.prev[h.task] /\ g.prev = h.prev
    BY <1>3, <1>7
  <2> HIDE <1>3, <1>7
  <2> QED BY <1>1, <1>2, <2>1, WalkGoesBack
<1> QED BY <1>2, <1>4, <1>6, <1>7, <1>8 DEF Walker

\* A handler of a cascade, whose dates, queue and pushed tasks CascadeInv already types.
LEMMA CascadeHandler ==
  ASSUME PlanType, NEW h, Shape(h), CascadeType(h), h.op = "reschedule",
         h.listing \in Seq(Task), h.guard \in 0..MaxIterations,
         h.prev \in {<<>>} \cup [top -> Task \cup {Null}], h.cut \in BOOLEAN
  PROVE  h \in Handler /\ Walker(h)
<1>1. h.dates \in [Task -> DateRow] /\ h.task \in Task /\ h.queue \in Seq(Task) /\ h.changed \in SUBSET Task
  BY DEF CascadeType
<1>2. h \in Handler
  BY <1>1, HandlerIs
<1> QED BY <1>2 DEF Walker

\* One step of any handler.
LEMMA PertStep == PertInv /\ CascadeInv /\ CascadeInv' /\ [Next]_vars => PertInv'
<1> SUFFICES ASSUME PertInv, CascadeInv, CascadeInv', [Next]_vars
             PROVE  PertInv'
  OBVIOUS
<1>0. /\ PlanType /\ req' = [q \in Request |-> req'[q]] /\ MaxIterations \in Nat
      /\ \A q \in Request : req[q] \in Handler /\ Walker(req[q]) /\ Shape(req[q]) /\ CascadeType(req[q])
  BY BoundIs DEF CascadeInv, PlanType, PertInv, Walking
<1>00. ASSUME NEW q \in Request PROVE Shape(req'[q]) /\ CascadeType(req'[q])
  BY DEF CascadeInv, PlanType, Shape, CascadeType, Moved
<1>1. CASE UNCHANGED vars
  <2>1. UNCHANGED <<top, lag, estimate, req>>
    BY <1>1 DEF vars, rows
  <2> QED BY <1>0, <2>1, PertKeeps
<1>2. ASSUME NEW r \in Request, BeginRescheduleTask(r)
      PROVE  PertInv'
  <2>1. PICK t \in Task, s \in Day, e \in Day :
               req' = [req EXCEPT ![r] = [Resting EXCEPT
                         !.op = "reschedule", !.pc = "propagate", !.task = t,
                         !.dates = [dates EXCEPT ![t] = [start |-> s, end |-> e]],
                         !.queue = <<t>>]]
    BY <1>2 DEF BeginRescheduleTask, Accept
  <2>2. PICK D : D = [dates EXCEPT ![t] = [start |-> s, end |-> e]]
    OBVIOUS
  <2>3. PICK h : h = [Resting EXCEPT !.op = "reschedule", !.pc = "propagate", !.task = t,
                                     !.dates = D, !.queue = <<t>>]
    OBVIOUS
  <2>4. req' = [req EXCEPT ![r] = h] /\ UNCHANGED <<top, lag, estimate>>
    BY <1>2, <2>1, <2>2, <2>3 DEF BeginRescheduleTask, rows
  <2>5. Shape(h) /\ CascadeType(h)
    <3>1. req'[r] = h
      BY <1>0, <2>4
    <3> QED BY <1>00, <3>1
  <2>6. h.op = "reschedule" /\ h.listing = <<>> /\ h.guard = 0 /\ h.prev = <<>> /\ h.cut = FALSE
    BY <2>3 DEF Resting
  <2>7. <<>> \in Seq(Task) /\ 0 \in 0..MaxIterations /\ FALSE \in BOOLEAN
    BY <1>0
  <2>8. h \in Handler /\ Walker(h)
    BY <1>0, <2>5, <2>6, <2>7, CascadeHandler
  <2> QED BY <1>0, <2>4, <2>8, PertSlot
<1>3. ASSUME NEW r \in Request, Propagate(r)
      PROVE  PertInv'
  <2>1. PICK h : h = req[r]
    OBVIOUS
  <2>2. h \in Handler /\ h.op = "reschedule" /\ h.guard < MaxIterations
    BY <1>0, <1>3, <2>1 DEF Propagate, At
  <2>3. PICK next, D, C :
          req' = [req EXCEPT ![r] =
            [h EXCEPT !.guard = @ + 1, !.dates = D, !.changed = C, !.queue = Tail(@) \o next]]
    BY <1>3, <2>1, Zenon DEF Propagate
  <2>4. PICK g, n, q : /\ g = [h EXCEPT !.guard = n, !.dates = D, !.changed = C, !.queue = q]
                       /\ n = h.guard + 1 /\ q = Tail(h.queue) \o next
    OBVIOUS
  <2>5. req' = [req EXCEPT ![r] = g] /\ UNCHANGED <<top, lag, estimate>>
    BY <1>3, <2>3, <2>4 DEF Propagate, rows
  <2>6. Shape(g) /\ CascadeType(g)
    <3>1. req'[r] = g
      BY <1>0, <2>5
    <3> QED BY <1>00, <3>1
  <2>7. /\ g.op = "reschedule" /\ g.listing = h.listing /\ g.guard = n /\ g.prev = h.prev
        /\ g.cut = h.cut
    BY <2>2, <2>4 DEF Handler
  <2>8. n \in 0..MaxIterations
    BY <1>0, <2>2, <2>4 DEF Handler
  <2>9. h.listing \in Seq(Task) /\ h.prev \in {<<>>} \cup [top -> Task \cup {Null}] /\ h.cut \in BOOLEAN
    BY <2>2 DEF Handler
  <2>10. g \in Handler /\ Walker(g)
    BY <1>0, <2>6, <2>7, <2>8, <2>9, CascadeHandler
  <2> QED BY <1>0, <2>5, <2>10, PertSlot
<1>4. ASSUME NEW r \in Request, PropagateEnds(r)
      PROVE  PertInv'
  <2>1. PICK h : h = req[r]
    OBVIOUS
  <2>2. h \in Handler /\ h.op = "reschedule"
    BY <1>0, <1>4, <2>1 DEF PropagateEnds, At
  <2>3. PICK b \in BOOLEAN : b = (h.queue # <<>>)
    OBVIOUS
  <2>4. PICK g : g = [h EXCEPT !.pc = "commit", !.queue = <<>>, !.cut = b]
    OBVIOUS
  <2>5. req' = [req EXCEPT ![r] = g]
    BY <1>4, <2>1, <2>3, <2>4, Zenon DEF PropagateEnds
  <2>6. <<>> \in Seq(Task)
    OBVIOUS
  <2>7. g \in Handler /\ g.op = "reschedule"
    BY <2>2, <2>4, <2>6 DEF Handler
  <2>8. UNCHANGED <<top, lag, estimate>> /\ Walker(g)
    BY <1>4, <2>7 DEF PropagateEnds, rows, Walker
  <2> QED BY <1>0, <2>5, <2>7, <2>8, PertSlot
<1>5. ASSUME NEW r \in Request, RescheduleTask(r)
      PROVE  PertInv'
  <2>1. req' = [q \in Request |->
                 IF q = r \/ req[q] = Resting THEN Resting ELSE [req[q] EXCEPT !.stale = TRUE]]
    BY <1>5 DEF RescheduleTask, Commit
  <2>2. ASSUME NEW q \in Request
        PROVE  req'[q] \in Handler /\ Walker(req'[q])
    <3>1. PICK h, g : h = req[q] /\ g = [h EXCEPT !.stale = TRUE]
      OBVIOUS
    <3>2. req'[q] \in {Resting, g}
      BY <2>1, <3>1
    <3>3. h \in Handler /\ Walker(h)
      BY <1>0, <3>1
    <3>4. /\ g \in Handler
          /\ g.op = h.op /\ g.listing = h.listing /\ g.queue = h.queue /\ g.task = h.task /\ g.prev = h.prev
      BY <3>1, <3>3 DEF Handler
    <3>5. Walker(g)
      BY <3>3, <3>4 DEF Walker, OnPath
    <3> QED BY <1>0, <3>2, <3>4, <3>5, RestingWalks
  <2>3. UNCHANGED <<top, lag, estimate>>
    BY <1>5 DEF RescheduleTask
  <2> QED BY <1>0, <2>2, <2>3, PertKeeps
<1>6. ASSUME NEW r \in Request, BeginSetBaseline(r)
      PROVE  PertInv'
  <2>1. PICK h : h = [Resting EXCEPT !.op = "baseline", !.pc = "commit", !.dates = dates]
    OBVIOUS
  <2>2. req' = [req EXCEPT ![r] = h] /\ UNCHANGED <<top, lag, estimate>>
    BY <1>6, <2>1 DEF BeginSetBaseline, Accept, rows
  <2>3. /\ Shape(h) /\ h.op = "baseline" /\ h.dates = dates /\ h.listing = <<>> /\ h.guard = 0
        /\ h.task = Null /\ h.queue = <<>> /\ h.changed = {} /\ h.prev = <<>> /\ h.cut = FALSE
    BY <2>1 DEF Shape, Resting
  <2>4. <<>> \in Seq(Task) /\ 0 \in 0..MaxIterations /\ dates \in [Task -> DateRow] /\ FALSE \in BOOLEAN
    BY <1>0 DEF PlanType
  <2>5. h \in Handler
    BY <2>3, <2>4, HandlerIs
  <2>6. Walker(h)
    BY <2>3 DEF Walker
  <2> QED BY <1>0, <2>2, <2>5, <2>6, PertSlot
<1>7. ASSUME NEW r \in Request, SetBaseline(r) \/ GetPertData(r) \/ Abort(r)
      PROVE  PertInv'
  <2>1. req' = [req EXCEPT ![r] = Resting] /\ UNCHANGED <<top, lag, estimate>>
    BY <1>7 DEF SetBaseline, GetPertData, Abort, Finish, rows
  <2> QED BY <1>0, <2>1, RestingWalks, PertSlot
<1>8. ASSUME NEW r \in Request, BeginGetPertData(r)
      PROVE  PertInv'
  <2>1. PICK l \in Listing, order \in [top -> {o \in Listing : ToSet(o) = top}] :
          /\ ToSet(l) = top
          /\ req' = [req EXCEPT ![r] =
               [Resting EXCEPT !.op = "pert", !.pc = "walk", !.listing = l,
                               !.task = LastTask(l, LongestPaths(l, order, Expected).length),
                               !.prev = LongestPaths(l, order, Expected).prev]]
    BY <1>8, Zenon DEF BeginGetPertData, Accept, Expected
  <2>2. PICK paths : paths = LongestPaths(l, order, Expected)
    OBVIOUS
  <2>3. PICK h : h = [Resting EXCEPT !.op = "pert", !.pc = "walk", !.listing = l,
                                     !.task = LastTask(l, paths.length), !.prev = paths.prev]
    OBVIOUS
  <2>4. req' = [req EXCEPT ![r] = h]
    BY <2>1, <2>2, <2>3, Zenon
  <2>5. h \in Handler /\ Walker(h)
    BY <1>0, <2>1, <2>2, <2>3, WalkTyped
  <2>6. UNCHANGED <<top, lag, estimate>>
    BY <1>8 DEF BeginGetPertData, rows
  <2> QED BY <1>0, <2>4, <2>5, <2>6, PertSlot
<1>9. ASSUME NEW r \in Request, WalkBack(r)
      PROVE  PertInv'
  <2>1. PICK h : h = req[r]
    OBVIOUS
  <2>2. PICK g : g = [h EXCEPT !.queue = <<h.task>> \o @, !.task = h.prev[h.task]]
    OBVIOUS
  <2>3. h \in Handler /\ Walker(h) /\ h.op = "pert" /\ h.task # Null
    BY <1>0, <1>9, <2>1 DEF WalkBack, At
  <2>4. req' = [req EXCEPT ![r] = g] /\ UNCHANGED <<top, lag, estimate>>
    BY <1>9, <2>1, <2>2 DEF WalkBack, rows
  <2>5. g \in Handler /\ Walker(g)
    BY <1>0, <2>2, <2>3, WalkStep
  <2> QED BY <1>0, <2>4, <2>5, PertSlot
<1> QED
  BY <1>1, <1>2, <1>3, <1>4, <1>5, <1>6, <1>7, <1>8, <1>9 DEF Next

\* It holds in every state.
LEMMA PertAlways == Spec => [](PertInv /\ CascadeInv)
<1>1. PertInv /\ CascadeInv /\ [Next]_vars => (PertInv /\ CascadeInv)'
  BY PertStep, CascadeStep
<1> QED BY <1>1, PertInit, CascadeInit, PTL DEF Spec

\* The tables of a plan and what handlers hold of them are typed.
THEOREM PlanTypeCorrect == Spec => []TypeOK
<1>1. PertInv /\ CascadeInv => TypeOK
  <2> SUFFICES ASSUME PertInv, CascadeInv PROVE TypeOK
    OBVIOUS
  <2>1. req \in [Request -> Handler]
    BY DEF PertInv, CascadeInv, PlanType, Walking
  <2> QED BY <2>1 DEF PertInv, CascadeInv, PlanType, TypeOK
<1> QED BY <1>1, PertAlways, PTL

\* The slack of the tasks on the path found is none.
LEMMA PathHasNoSlack ==
  ASSUME Acyclic, top \subseteq Task, NEW list, Lists(list), NEW days \in [top -> Nat],
         NEW x \in Paths, AllFine(top, x, FinePath(days)), NEW fin, Spans(x, fin),
         NEW l, Hung(l, days, fin), NEW t \in top, l[t] = x.length[t]
  PROVE  Slack(list, days)[t] = 0
<1>1. fin = End(list, days) /\ fin \in Int
  BY EndIsLongest DEF Spans
<1>2. PICK e : e = EarliestStart(list, days)
  OBVIOUS
<1>3. PICK m : m = LatestFinish(list, days, fin)
  OBVIOUS
<1>4. Tight(e, days) /\ e \in [top -> Nat]
  BY <1>2, GraphRooted, StartsAreTight DEF Tight
<1>5. Hung(m, days, fin)
  BY <1>1, <1>3, FinishesAreHung
<1>6. \A u \in top : l[u] <= fin /\ m[u] <= fin
  BY <1>5, PathsFit
<1>7. l[t] = m[t]
  BY <1>1, <1>5, <1>6, FinishesAreOne
<1>8. x.length[t] = e[t] + days[t]
  BY <1>4, LengthsAreEnds
<1>9. Slack(list, days)[t] = m[t] - days[t] - e[t]
  BY <1>1, <1>2, <1>3, SlackIs
<1>10. e[t] \in Nat /\ days[t] \in Nat
  BY <1>4
<1>11. m[t] = e[t] + days[t]
  BY <1>7, <1>8
<1>12. m[t] - days[t] - e[t] = 0
  BY <1>10, <1>11
<1> QED BY <1>9, <1>12

\* PertService.computeFloats, computeCriticalPath, on any graph without a cycle, however the
\* database lists its tasks: the slack of a task is what it may be late, and not a day more; the
\* path found is a chain of dependencies without slack that lasts as long as the project.
THEOREM PertCorrect == Spec => []PertIsExact
<1>1. ASSUME PertInv, Acyclic, NEW r \in Request, Answered(r)
      PROVE  /\ top \subseteq Task /\ Expected \in [top -> Nat]
             /\ Lists(req[r].listing) /\ req[r].queue \in Seq(top) /\ req[r].task = Null
             /\ OnPath(req[r])
  BY <1>1, ExpectedTyped DEF PertInv, Walking, Walker, Answered, At
<1>2. PertInv => SlackIsDelay
  <2> SUFFICES ASSUME PertInv, Acyclic, NEW r \in Request, Answered(r), NEW t \in top
               PROVE  LET slack == Slack(req[r].listing, Expected)
                          EndWith(u, n) == End(req[r].listing, [Expected EXCEPT ![u] = @ + n])
                      IN  /\ EndWith(t, slack[t]) = EndWith(t, 0)
                          /\ EndWith(t, slack[t] + 1) > EndWith(t, 0)
    BY DEF SlackIsDelay
  <2>1. top \subseteq Task /\ Expected \in [top -> Nat] /\ Lists(req[r].listing)
    BY <1>1
  <2>2. PICK days \in [top -> Nat] : days = Expected
    BY <2>1
  <2>3. [days EXCEPT ![t] = @ + 0] = days
    OBVIOUS
  <2>4. LET s == Slack(req[r].listing, days)[t]
        IN  /\ End(req[r].listing, [days EXCEPT ![t] = @ + s]) = End(req[r].listing, days)
            /\ End(req[r].listing, [days EXCEPT ![t] = @ + (s + 1)]) > End(req[r].listing, days)
    BY <2>1, SlackExact
  <2> QED BY <2>2, <2>3, <2>4
<1>3. PertInv => CriticalPathSpansProject
  <2> SUFFICES ASSUME PertInv, Acyclic, NEW r \in Request, Answered(r)
               PROVE  LET path == req[r].queue IN
                      /\ \A i \in 1..(Len(path) - 1) : <<path[i], path[i + 1]>> \in Edges
                      /\ \A i \in 1..Len(path) : Slack(req[r].listing, Expected)[path[i]] = 0
                      /\ SumFunction([i \in 1..Len(path) |-> Expected[path[i]]])
                           = End(req[r].listing, Expected)
    BY DEF CriticalPathSpansProject
  <2>1. PICK q, list : q = req[r].queue /\ list = req[r].listing
    OBVIOUS
  <2>2. top \subseteq Task /\ Expected \in [top -> Nat] /\ Lists(list) /\ q \in Seq(top)
    BY <1>1, <2>1
  <2>3. req[r].task = Null /\ OnPath(req[r])
    BY <1>1
  <2>0. PICK x \in Paths : \E fin, l :
          /\ AllFine(top, x, FinePath(Expected)) /\ Spans(x, fin) /\ Hung(l, Expected, fin)
          /\ \A i \in 1..Len(q) : l[q[i]] = x.length[q[i]]
          /\ \A i \in 1..(Len(q) - 1) : <<q[i], q[i + 1]>> \in Edges
          /\ SumFunction(PathDays(q, Expected)) + Carried(x.length, Null) = fin
    BY <2>1, <2>3 DEF OnPath
  <2>4. PICK fin, l :
          /\ AllFine(top, x, FinePath(Expected)) /\ Spans(x, fin) /\ Hung(l, Expected, fin)
          /\ \A i \in 1..Len(q) : l[q[i]] = x.length[q[i]]
          /\ \A i \in 1..(Len(q) - 1) : <<q[i], q[i + 1]>> \in Edges
          /\ SumFunction(PathDays(q, Expected)) + Carried(x.length, Null) = fin
    BY <2>0
  <2>5. fin = End(list, Expected) /\ fin \in Int
    BY <2>2, <2>4, EndIsLongest DEF Spans
  <2>6. ASSUME NEW i \in 1..Len(q) PROVE Slack(list, Expected)[q[i]] = 0
    <3>1. q[i] \in top /\ l[q[i]] = x.length[q[i]]
      BY <2>2, <2>4
    <3>2. AllFine(top, x, FinePath(Expected)) /\ Spans(x, fin) /\ Hung(l, Expected, fin)
      BY <2>4
    <3> QED BY <2>2, <3>1, <3>2, PathHasNoSlack
  <2>7. SumFunction(PathDays(q, Expected)) \in Int
    <3>1. IsFiniteSet(1..Len(q)) /\ DOMAIN PathDays(q, Expected) = 1..Len(q)
      BY <2>2, FS_Interval DEF PathDays
    <3>2. Whole(PathDays(q, Expected), 1..Len(q))
      BY <2>2 DEF Whole, PathDays
    <3> QED BY <3>1, <3>2, SumWhole DEF SumFunction
  <2>8. SumFunction([i \in 1..Len(q) |-> Expected[q[i]]]) = End(list, Expected)
    BY <2>4, <2>5, <2>7 DEF Carried, PathDays
  <2> QED BY <2>1, <2>4, <2>6, <2>8
<1> QED BY <1>2, <1>3, PertAlways, PTL DEF PertIsExact

-----------------------------------------------------------------------------
(***************************************************************************)
(* Sprints, phases and the burndown.                                        *)
(***************************************************************************)
\* An update of a sprint or a phase that is under way will leave it in order; one of a
\* milestone or an issue is of a row there is.
Moves(h) ==
  /\ h.pc \in {"active", "write"} =>
       /\ h.on \in Iterations!Period /\ h.read \in Iterations!PeriodRow
       /\ Iterations!Given(h.end, h.read.end) > Iterations!Given(h.start, h.read.start)
       /\ h.pc = "active" => h.to = "ACTIVE"
  /\ h.pc = "stamp" => h.on \in Iterations!Mark

\* The sprints in progress, and those a handler is about to put in progress.
Starting(h) == h.pc = "write" /\ h.to = "ACTIVE"
Coming(s) ==
  \/ s \in Sprint \cap Iterations!Live /\ period[s].status = "ACTIVE"
  \/ \E r \in Request : Starting(work[r]) /\ work[r].on = s
\* Each of them can be given a handler of its own.
Gives(of) == \A s : Coming(s) => \E r \in Request : of[r] = s
Assigned == \E of : Gives(of)

\* A past evening was what the tasks still say of it.
Told ==
  /\ \A t \in Story : story[t].completedAt # Null => story[t].completedAt <= today
  /\ \A d \in DOMAIN evening :
       d \in Int /\ d < today /\ \A s \in Sprint : evening[d][s] = Iterations!LeftOn(s, d)

PeriodInv ==
  /\ Iterations!TypeOK /\ today \in Iterations!Calendar
  /\ \A r \in Request : Moves(work[r])
  /\ Iterations!PeriodsInOrder

LEMMA Days == Iterations!Calendar \subseteq Int /\ Null \notin Iterations!Calendar
BY StoryAssumption, NullIsNoDay DEF Iterations!Calendar

LEMMA RestingMoves == Iterations!Resting \in Iterations!Handler /\ Moves(Iterations!Resting)
BY DEF Iterations!Resting, Iterations!Handler, Moves, Iterations!Op, Iterations!Step

LEMMA PeriodStart == Iterations!Init => PeriodInv
<1> SUFFICES ASSUME Iterations!Init PROVE PeriodInv
  OBVIOUS
<1>1. 0 \in Iterations!Calendar
  BY StoryAssumption DEF Iterations!Calendar
<1>2. Iterations!InitRows
  BY DEF Iterations!Init
<1>3. Iterations!TypeOK /\ \A r \in Request : Moves(work[r])
  BY <1>1, <1>2, RestingMoves DEF Iterations!InitRows, Iterations!TypeOK, Iterations!PeriodRow,
     Iterations!MarkRow, Iterations!TaskRow, Iterations!SprintStatus
<1>4. Iterations!PeriodsInOrder
  BY <1>2 DEF Iterations!InitRows, Iterations!PeriodsInOrder, Iterations!Live
<1> QED BY <1>1, <1>2, <1>3, <1>4 DEF PeriodInv, Iterations!InitRows

\* A handler begins, moves on or ends, and no row changes.
LEMMA PeriodsStay ==
  ASSUME PeriodInv, NEW r \in Request, NEW h \in Iterations!Handler, Moves(h),
         work' = [work EXCEPT ![r] = h], UNCHANGED Iterations!rows
  PROVE  PeriodInv'
<1>1. UNCHANGED <<period, mark, story, today>>
  BY DEF Iterations!rows
<1>2. work' \in [Request -> Iterations!Handler] /\ \A q \in Request : Moves(work'[q])
  BY DEF PeriodInv, Iterations!TypeOK
<1>3. \A q \in Request : Moves(work[q])'
  BY <1>2 DEF Moves
<1>4. Iterations!TypeOK' /\ Iterations!PeriodsInOrder'
  BY <1>1, <1>2 DEF PeriodInv, Iterations!TypeOK, Iterations!PeriodsInOrder, Iterations!Live
<1> QED BY <1>1, <1>3, <1>4 DEF PeriodInv

LEMMA UpdateBegins ==
  ASSUME PeriodInv, NEW r \in Request, NEW op \in Iterations!Op, NEW p \in Iterations!Period,
         NEW to \in Iterations!SprintStatus \cup {Null}, Iterations!BeginUpdate(r, op, p, to)
  PROVE  \E h \in Iterations!Handler :
           /\ Moves(h) /\ ~Starting(h)
           /\ work' = [work EXCEPT ![r] = h] /\ UNCHANGED Iterations!rows
<1>1. PICK start \in Iterations!Asked, end \in Iterations!Asked :
        /\ Iterations!InOrder(Iterations!Given(start, period[p].start),
                              Iterations!Given(end, period[p].end))
        /\ Iterations!Accept(r, [Iterations!Resting EXCEPT !.op = op, !.on = p, !.to = to,
                                  !.read = period[p], !.start = start, !.end = end,
                                  !.pc = IF to = "ACTIVE" THEN "active" ELSE "write"])
  BY Zenon DEF Iterations!BeginUpdate
<1>2. PICK pc \in {"active", "write"} :
        /\ pc = IF to = "ACTIVE" THEN "active" ELSE "write"
        /\ pc = "active" <=> to = "ACTIVE"
  OBVIOUS
<1>3. PICK h : h = [Iterations!Resting EXCEPT !.op = op, !.on = p, !.to = to,
                      !.read = period[p], !.start = start, !.end = end, !.pc = pc]
  OBVIOUS
<1>4. work' = [work EXCEPT ![r] = h]
  BY <1>1, <1>2, <1>3, Zenon DEF Iterations!Accept
<1>5. period[p] \in Iterations!PeriodRow /\ UNCHANGED Iterations!rows
  BY DEF PeriodInv, Iterations!TypeOK, Iterations!BeginUpdate
<1>6. start \in Iterations!Calendar \cup {Null} /\ end \in Iterations!Calendar \cup {Null}
  BY <1>1 DEF Iterations!Asked
<1>7. h = [op |-> op, pc |-> pc, on |-> p, start |-> start, end |-> end, to |-> to,
           read |-> period[p], met |-> Null, wasMet |-> FALSE, stale |-> FALSE]
  BY <1>3 DEF Iterations!Resting
<1>8. h \in Iterations!Handler
  BY <1>5, <1>6, <1>7 DEF Iterations!Handler, Iterations!Step
<1>9. Moves(h) /\ ~Starting(h)
  BY <1>1, <1>2, <1>5, <1>7 DEF Moves, Starting, Iterations!InOrder
<1> QED BY <1>4, <1>5, <1>8, <1>9

LEMMA MarkBegins ==
  ASSUME PeriodInv, NEW r \in Request, NEW op \in Iterations!Op, NEW k \in Iterations!Mark,
         Iterations!BeginUpdateMark(r, op, k)
  PROVE  \E h \in Iterations!Handler :
           /\ Moves(h) /\ ~Starting(h)
           /\ work' = [work EXCEPT ![r] = h] /\ UNCHANGED Iterations!rows
<1>1. PICK met \in BOOLEAN \cup {Null} :
        Iterations!Accept(r, [Iterations!Resting EXCEPT !.op = op, !.pc = "stamp", !.on = k,
                                !.met = met, !.wasMet = mark[k].met])
  BY Zenon DEF Iterations!BeginUpdateMark
<1>2. PICK h : h = [Iterations!Resting EXCEPT !.op = op, !.pc = "stamp", !.on = k,
                      !.met = met, !.wasMet = mark[k].met]
  OBVIOUS
<1>3. work' = [work EXCEPT ![r] = h]
  BY <1>1, <1>2, Zenon DEF Iterations!Accept
<1>4. mark[k] \in Iterations!MarkRow
  BY DEF PeriodInv, Iterations!TypeOK
<1>5. mark[k].met \in BOOLEAN
  BY <1>4 DEF Iterations!MarkRow
<1>6. h = [op |-> op, pc |-> "stamp", on |-> k, start |-> Null, end |-> Null, to |-> Null,
           read |-> Null, met |-> met, wasMet |-> mark[k].met, stale |-> FALSE]
  BY <1>2 DEF Iterations!Resting
<1>7. h \in Iterations!Handler
  BY <1>5, <1>6 DEF Iterations!Handler, Iterations!Step
<1>8. Moves(h) /\ ~Starting(h)
  BY <1>6 DEF Moves, Starting
<1>9. UNCHANGED Iterations!rows
  BY DEF Iterations!BeginUpdateMark
<1> QED BY <1>3, <1>7, <1>8, <1>9

\* Whatever begins is not about to put a sprint in progress yet.
LEMMA Begins ==
  ASSUME PeriodInv, NEW r \in Request,
         \/ Iterations!BeginUpdateSprint(r) \/ Iterations!BeginUpdatePhase(r)
         \/ Iterations!BeginUpdateMilestone(r) \/ Iterations!BeginUpdateIssue(r)
         \/ Iterations!Abort(r)
  PROVE  \E h \in Iterations!Handler :
           /\ Moves(h) /\ ~Starting(h)
           /\ work' = [work EXCEPT ![r] = h] /\ UNCHANGED Iterations!rows
<1>1. CASE Iterations!BeginUpdateSprint(r)
  BY <1>1, UpdateBegins DEF Iterations!BeginUpdateSprint, Iterations!Period, Iterations!Op
<1>2. CASE Iterations!BeginUpdatePhase(r)
  BY <1>2, UpdateBegins DEF Iterations!BeginUpdatePhase, Iterations!Period, Iterations!Op
<1>3. CASE Iterations!BeginUpdateMilestone(r)
  BY <1>3, MarkBegins DEF Iterations!BeginUpdateMilestone, Iterations!Mark, Iterations!Op
<1>4. CASE Iterations!BeginUpdateIssue(r)
  BY <1>4, MarkBegins DEF Iterations!BeginUpdateIssue, Iterations!Mark, Iterations!Op
<1>5. CASE Iterations!Abort(r)
  <2>1. ~Starting(Iterations!Resting)
    BY DEF Starting, Iterations!Resting
  <2> QED BY <1>5, <2>1, RestingMoves DEF Iterations!Abort, Iterations!Finish
<1> QED BY <1>1, <1>2, <1>3, <1>4, <1>5

\* The check that no other sprint is in progress.
LEMMA Checks ==
  ASSUME PeriodInv, NEW r \in Request, Iterations!CheckActive(r)
  PROVE  \E h \in Iterations!Handler :
           /\ Moves(h)
           /\ Starting(h) => ~Iterations!OtherActive(work[r].on) /\ h.on = work[r].on
           /\ work' = [work EXCEPT ![r] = h] /\ UNCHANGED Iterations!rows
<1>1. work[r] \in Iterations!Handler /\ Moves(work[r]) /\ work[r].pc = "active"
  BY DEF PeriodInv, Iterations!TypeOK, Iterations!CheckActive, Iterations!At
<1>2. UNCHANGED Iterations!rows
  BY DEF Iterations!CheckActive
<1>3. CASE Iterations!OtherActive(work[r].on)
  <2>1. work' = [work EXCEPT ![r] = Iterations!Resting] /\ ~Starting(Iterations!Resting)
    BY <1>3 DEF Iterations!CheckActive, Iterations!Finish, Starting, Iterations!Resting
  <2> QED BY <1>2, <2>1, RestingMoves
<1>4. CASE ~Iterations!OtherActive(work[r].on)
  <2>1. PICK h : h = [work[r] EXCEPT !.pc = "write"]
    OBVIOUS
  <2>2. work' = [work EXCEPT ![r] = h]
    <3>1. Iterations!Goto(r, "write")
      BY <1>4 DEF Iterations!CheckActive
    <3> QED BY <2>1, <3>1, Zenon DEF Iterations!Goto
  <2>3. h \in Iterations!Handler
    BY <1>1, <2>1 DEF Iterations!Handler, Iterations!Step
  <2>4. Moves(h) /\ h.on = work[r].on
    BY <1>1, <2>1 DEF Moves, Iterations!Handler
  <2> QED BY <1>2, <1>4, <2>2, <2>3, <2>4
<1> QED BY <1>3, <1>4

LEMMA DatedInOrder ==
  ASSUME PeriodInv, NEW r \in Request, work[r].pc = "write",
         NEW p, p = work[r].on, NEW row, row = Iterations!Dated(period[p], work[r])
  PROVE  /\ p \in Iterations!Period /\ row \in Iterations!PeriodRow
         /\ row.row = period[p].row /\ row.end > row.start
         /\ row.status = "ACTIVE" => period[p].status = "ACTIVE" \/ Starting(work[r])
<1> DEFINE h == work[r]
<1>1. h \in Iterations!Handler /\ Moves(h)
  BY DEF PeriodInv, Iterations!TypeOK
<1>2. /\ p \in Iterations!Period /\ h.read \in Iterations!PeriodRow
      /\ Iterations!Given(h.end, h.read.end) > Iterations!Given(h.start, h.read.start)
  BY <1>1 DEF Moves
<1>3. period[p] \in Iterations!PeriodRow
  BY <1>2 DEF PeriodInv, Iterations!TypeOK
<1>4. /\ h.start \in Iterations!Calendar \cup {Null} /\ h.end \in Iterations!Calendar \cup {Null}
      /\ h.to \in Iterations!SprintStatus \cup {Null}
  BY <1>1 DEF Iterations!Handler
<1>5. PICK start \in Iterations!Calendar : start = Iterations!Given(h.start, h.read.start)
  BY <1>2, <1>4 DEF Iterations!Given, Iterations!PeriodRow
<1>6. PICK end \in Iterations!Calendar : end = Iterations!Given(h.end, h.read.end)
  BY <1>2, <1>4 DEF Iterations!Given, Iterations!PeriodRow
<1>7. PICK status \in Iterations!SprintStatus :
        /\ status = Iterations!Given(h.to, period[p].status)
        /\ status = "ACTIVE" => period[p].status = "ACTIVE" \/ h.to = "ACTIVE"
  BY <1>3, <1>4 DEF Iterations!Given, Iterations!PeriodRow
<1>8. row = [period[p] EXCEPT !.start = start, !.end = end, !.status = status]
  BY <1>5, <1>6, <1>7, Zenon DEF Iterations!Dated
<1>9. row = [row |-> period[p].row, start |-> start, end |-> end, status |-> status]
  BY <1>3, <1>8 DEF Iterations!PeriodRow
<1>10. end > start
  BY <1>2, <1>5, <1>6
<1> QED BY <1>2, <1>3, <1>7, <1>9, <1>10 DEF Iterations!PeriodRow, Starting

\* The rows of sprints and phases change one at a time.
LEMMA PeriodsWritten ==
  ASSUME PeriodInv, NEW p \in Iterations!Period, NEW row \in Iterations!PeriodRow,
         row.row = "live" => row.end > row.start,
         period' = [period EXCEPT ![p] = row], UNCHANGED <<mark, today>>,
         story' \in [Story -> Iterations!TaskRow],
         \/ UNCHANGED work
         \/ \E r \in Request : work' = [work EXCEPT ![r] = Iterations!Resting]
  PROVE  PeriodInv'
<1>1. work' \in [Request -> Iterations!Handler] /\ \A q \in Request : Moves(work'[q])
  BY RestingMoves DEF PeriodInv, Iterations!TypeOK
<1>2. \A q \in Request : Moves(work[q])'
  BY <1>1 DEF Moves
<1>3. Iterations!TypeOK'
  BY <1>1 DEF PeriodInv, Iterations!TypeOK
<1>4. Iterations!PeriodsInOrder'
  BY DEF PeriodInv, Iterations!TypeOK, Iterations!PeriodsInOrder, Iterations!Live
<1> QED BY <1>2, <1>3, <1>4 DEF PeriodInv

LEMMA WritesPeriod ==
  ASSUME PeriodInv, NEW r \in Request, Iterations!WritePeriod(r)
  PROVE  /\ PeriodInv'
         /\ work' = [work EXCEPT ![r] = Iterations!Resting]
         /\ UNCHANGED <<mark, story, today, evening>>
         /\ \A s : Coming(s)' => Coming(s)
<1> DEFINE p == work[r].on
<1>1. /\ work[r].pc = "write" /\ UNCHANGED <<mark, story, today, evening>>
      /\ work' = [work EXCEPT ![r] = Iterations!Resting]
  BY DEF Iterations!WritePeriod, Iterations!At, Iterations!Finish
<1>2. PICK row : row = Iterations!Dated(period[p], work[r])
  OBVIOUS
<1>3. /\ p \in Iterations!Period /\ row \in Iterations!PeriodRow
      /\ row.row = period[p].row /\ row.end > row.start
      /\ row.status = "ACTIVE" => period[p].status = "ACTIVE" \/ Starting(work[r])
  BY <1>1, <1>2, DatedInOrder
<1>4. story' \in [Story -> Iterations!TaskRow] /\ work \in [Request -> Iterations!Handler]
  BY <1>1 DEF PeriodInv, Iterations!TypeOK
<1>5. ~Starting(Iterations!Resting)
  BY DEF Starting, Iterations!Resting
<1>6. \A q \in Request : work'[q] = IF q = r THEN Iterations!Resting ELSE work[q]
  BY <1>1, <1>4
<1>7. CASE p \in Iterations!Live
  <2>1. period' = [period EXCEPT ![p] = row]
    BY <1>2, <1>7, Zenon DEF Iterations!WritePeriod
  <2>2. PeriodInv'
    BY <1>1, <1>3, <1>4, <2>1, PeriodsWritten
  <2>3. \A q : q \in Iterations!Period =>
          period'[q] = IF q = p THEN row ELSE period[q]
    BY <2>1 DEF PeriodInv, Iterations!TypeOK
  <2>4. ASSUME NEW s, Coming(s)' PROVE Coming(s)
    <3>1. CASE s \in (Sprint \cap Iterations!Live)' /\ period'[s].status = "ACTIVE"
      <4>1. s \in Sprint /\ s \in Iterations!Period
        BY <3>1 DEF Iterations!Live
      <4>2. CASE s # p
        BY <2>3, <3>1, <4>1, <4>2 DEF Coming, Iterations!Live
      <4>3. CASE s = p
        BY <1>1, <1>3, <1>7, <2>3, <3>1, <4>1, <4>3 DEF Coming, Iterations!Live
      <4> QED BY <4>2, <4>3
    <3>2. CASE \E q \in Request : Starting(work[q])' /\ work'[q].on = s
      BY <1>5, <1>6, <3>2 DEF Coming, Starting
    <3> QED BY <2>4, <3>1, <3>2 DEF Coming
  <2> QED BY <1>1, <2>2, <2>4
<1>8. CASE p \notin Iterations!Live
  <2>1. period' = period
    BY <1>8 DEF Iterations!WritePeriod
  <2>2. PeriodInv'
    BY <1>4, <1>6, <1>1, <2>1, RestingMoves, PeriodsStay DEF Iterations!rows, Iterations!WritePeriod
  <2>3. ASSUME NEW s, Coming(s)' PROVE Coming(s)
    BY <1>5, <1>6, <2>1, <2>3 DEF Coming, Starting, Iterations!Live
  <2> QED BY <1>1, <2>2, <2>3
<1> QED BY <1>7, <1>8

LEMMA PeriodComes ==
  ASSUME PeriodInv,
         \/ Iterations!CreateSprint \/ Iterations!CreatePhase
         \/ Iterations!RemoveSprint \/ Iterations!RemovePhase
  PROVE  PeriodInv' /\ UNCHANGED <<mark, today, work>> /\ \A s : Coming(s)' => Coming(s)
<1>1. ASSUME NEW p \in Iterations!Period, Iterations!Create(p, "PLANNED")
      PROVE  PeriodInv' /\ UNCHANGED <<mark, today, work>> /\ \A s : Coming(s)' => Coming(s)
  <2>1. PICK start \in Iterations!Calendar, end \in Iterations!Calendar :
          /\ end > start
          /\ period' = [period EXCEPT ![p] = [row |-> "live", start |-> start, end |-> end,
                                              status |-> "PLANNED"]]
    BY <1>1 DEF Iterations!Create, Iterations!InOrder
  <2>2. PICK row : row = [row |-> "live", start |-> start, end |-> end, status |-> "PLANNED"]
    OBVIOUS
  <2>3. row \in Iterations!PeriodRow /\ row.status = "PLANNED" /\ row.end > row.start
    BY <2>1, <2>2 DEF Iterations!PeriodRow, Iterations!SprintStatus
  <2>4. period' = [period EXCEPT ![p] = row]
    BY <2>1, <2>2
  <2>5. UNCHANGED <<mark, story, today, work>>
    BY <1>1 DEF Iterations!Create
  <2>6. PeriodInv'
    BY <2>3, <2>4, <2>5, PeriodsWritten DEF PeriodInv, Iterations!TypeOK
  <2>7. ASSUME NEW s, Coming(s)' PROVE Coming(s)
    BY <2>3, <2>4, <2>5, <2>7 DEF Coming, Starting, Iterations!Live, PeriodInv, Iterations!TypeOK
  <2> QED BY <2>5, <2>6, <2>7
<1>2. ASSUME NEW p \in Iterations!Period, Iterations!Remove(p)
      PROVE  PeriodInv' /\ UNCHANGED <<mark, today, work>> /\ \A s : Coming(s)' => Coming(s)
  <2>1. PICK row : row = [period[p] EXCEPT !.row = "deleted"]
    OBVIOUS
  <2>2. period[p] \in Iterations!PeriodRow
    BY DEF PeriodInv, Iterations!TypeOK
  <2>3. row \in Iterations!PeriodRow /\ row.row = "deleted"
    BY <2>1, <2>2 DEF Iterations!PeriodRow
  <2>4. period' = [period EXCEPT ![p] = row]
    <3>1. period' = [period EXCEPT ![p].row = "deleted"]
      BY <1>2 DEF Iterations!Remove
    <3> QED BY <2>1, <3>1
  <2>5. UNCHANGED <<mark, today, work>>
    BY <1>2 DEF Iterations!Remove
  <2>6. story' \in [Story -> Iterations!TaskRow]
    <3>1. \A t \in Story : [story[t] EXCEPT !.sprint = Null] \in Iterations!TaskRow
                           /\ story[t] \in Iterations!TaskRow
      BY DEF PeriodInv, Iterations!TypeOK, Iterations!TaskRow
    <3>2. story' = [t \in Story |-> IF story[t].sprint = p THEN [story[t] EXCEPT !.sprint = Null]
                                    ELSE story[t]]
      BY <1>2 DEF Iterations!Remove
    <3> QED BY <3>1, <3>2
  <2>7. PeriodInv'
    BY <2>3, <2>4, <2>5, <2>6, PeriodsWritten
  <2>8. ASSUME NEW s, Coming(s)' PROVE Coming(s)
    BY <2>3, <2>4, <2>5, <2>8 DEF Coming, Starting, Iterations!Live, PeriodInv, Iterations!TypeOK
  <2> QED BY <2>5, <2>7, <2>8
<1> QED BY <1>1, <1>2 DEF Iterations!CreateSprint, Iterations!CreatePhase,
           Iterations!RemoveSprint, Iterations!RemovePhase, Iterations!Period

LEMMA MarkRowWritten ==
  ASSUME NEW row \in Iterations!MarkRow, NEW h \in Iterations!Handler,
         today \in Iterations!Calendar
  PROVE  Iterations!Written(row, h) \in Iterations!MarkRow
<1>1. /\ h.met \in BOOLEAN \cup {Null} /\ h.stale \in BOOLEAN
      /\ row.met \in BOOLEAN /\ row.at \in Iterations!Calendar \cup {Null} /\ row.raced \in BOOLEAN
      /\ row = [met |-> row.met, at |-> row.at, raced |-> row.raced]
  BY DEF Iterations!Handler, Iterations!MarkRow
<1>2. PICK late \in BOOLEAN : late = (row.raced \/ (h.stale /\ h.met # Null))
  OBVIOUS
<1>3. PICK next : next = Iterations!Stamped(row, h)
  OBVIOUS
<1>4. next \in Iterations!MarkRow /\ next.raced = row.raced
  <2>1. CASE h.met = Null
    BY <1>3, <2>1 DEF Iterations!Stamped
  <2>2. CASE h.met # Null
    <3>1. PICK at \in Iterations!Calendar \cup {Null} :
            at = IF h.met = h.wasMet THEN row.at ELSE IF h.met THEN today ELSE Null
      BY <1>1
    <3>2. next = [row EXCEPT !.met = h.met, !.at = at]
      BY <1>1, <1>3, <2>2, <3>1 DEF Iterations!Stamped
    <3>3. next = [met |-> h.met, at |-> at, raced |-> row.raced] /\ h.met \in BOOLEAN
      BY <1>1, <2>2, <3>2
    <3> QED BY <1>1, <3>1, <3>3 DEF Iterations!MarkRow
  <2> QED BY <2>1, <2>2
<1>5. Iterations!Written(row, h) = [next EXCEPT !.raced = late]
  BY <1>2, <1>3, <1>4, Zenon DEF Iterations!Written
<1> QED BY <1>2, <1>4, <1>5 DEF Iterations!MarkRow

LEMMA MarksWritten ==
  ASSUME PeriodInv, NEW r \in Request, Iterations!WriteMark(r)
  PROVE  PeriodInv' /\ UNCHANGED <<story, today, evening>> /\ \A s : Coming(s)' => Coming(s)
<1> DEFINE h == work[r]
<1>1. /\ h \in Iterations!Handler /\ h.on \in Iterations!Mark
      /\ UNCHANGED <<period, story, today, evening>>
  BY DEF PeriodInv, Iterations!TypeOK, Moves, Iterations!WriteMark, Iterations!At
<1>2. PICK row : row = Iterations!Written(mark[h.on], h)
  OBVIOUS
<1>3. row \in Iterations!MarkRow
  BY <1>1, <1>2, MarkRowWritten DEF PeriodInv, Iterations!TypeOK
<1>4. mark' = [mark EXCEPT ![h.on] = row]
  BY <1>2, Zenon DEF Iterations!WriteMark
<1>5. mark' \in [Iterations!Mark -> Iterations!MarkRow]
  BY <1>1, <1>3, <1>4 DEF PeriodInv, Iterations!TypeOK
<1>6. ASSUME NEW q \in Request
      PROVE  work'[q] \in Iterations!Handler /\ Moves(work'[q])
             /\ (Starting(work'[q]) => Starting(work[q]) /\ work'[q].on = work[q].on)
  <2>1. CASE q = r
    <3>1. work'[q] = Iterations!Resting
      BY <2>1 DEF Iterations!WriteMark
    <3> QED BY <3>1, RestingMoves DEF Starting, Iterations!Resting
  <2>2. CASE q # r
    <3>1. work[q] \in Iterations!Handler /\ Moves(work[q])
      BY DEF PeriodInv, Iterations!TypeOK
    <3>2. PICK late \in BOOLEAN :
            late = (work[q].stale \/ (work[q].on = h.on /\ mark' # mark))
      OBVIOUS
    <3>3. work'[q] = [work[q] EXCEPT !.stale = late]
      <4>1. work[q].stale \in BOOLEAN
        BY <3>1 DEF Iterations!Handler
      <4> QED BY <2>2, <3>2, Zenon DEF Iterations!WriteMark
    <3> QED BY <3>1, <3>3 DEF Iterations!Handler, Moves, Starting
  <2> QED BY <2>1, <2>2
<1>7. work' \in [Request -> Iterations!Handler]
  <2>1. work' = [q \in Request |-> work'[q]]
    BY DEF Iterations!WriteMark
  <2> QED BY <1>6, <2>1
<1>8. \A q \in Request : Moves(work[q])'
  BY <1>6 DEF Moves
<1>9. Iterations!TypeOK' /\ Iterations!PeriodsInOrder'
  BY <1>1, <1>5, <1>7 DEF PeriodInv, Iterations!TypeOK, Iterations!PeriodsInOrder, Iterations!Live
<1>10. ASSUME NEW s, Coming(s)' PROVE Coming(s)
  BY <1>1, <1>6, <1>10 DEF Coming, Starting, Iterations!Live
<1> QED BY <1>1, <1>8, <1>9, <1>10 DEF PeriodInv

\* Tasks are assigned, finished and reopened; days pass.
LEMMA TasksMove ==
  ASSUME PeriodInv,
         \/ Iterations!AssignTasks \/ Iterations!CompleteTask
         \/ Iterations!ReopenTask \/ Iterations!NextDay
  PROVE  PeriodInv' /\ UNCHANGED <<period, work>> /\ \A s : Coming(s)' => Coming(s)
<1>1. UNCHANGED <<period, mark, work>>
  BY DEF Iterations!AssignTasks, Iterations!CompleteTask, Iterations!ReopenTask, Iterations!NextDay
<1>2. today' \in Iterations!Calendar
  BY StoryAssumption DEF Iterations!AssignTasks, Iterations!CompleteTask, Iterations!ReopenTask, Iterations!NextDay,
     PeriodInv, Iterations!Calendar
<1>3. \A t \in Story : story[t] \in Iterations!TaskRow
  BY DEF PeriodInv, Iterations!TypeOK
<1>4. story' \in [Story -> Iterations!TaskRow]
  <2>1. CASE Iterations!AssignTasks
    <3>1. PICK s \in Sprint \cup {Null}, T \in SUBSET Story :
            story' = [t \in Story |-> IF t \in T THEN [story[t] EXCEPT !.sprint = s] ELSE story[t]]
      BY <2>1 DEF Iterations!AssignTasks
    <3>2. \A t \in Story : [story[t] EXCEPT !.sprint = s] \in Iterations!TaskRow
      BY <1>3 DEF Iterations!TaskRow
    <3> QED BY <1>3, <3>1, <3>2
  <2>2. CASE Iterations!CompleteTask
    BY <2>2 DEF Iterations!CompleteTask, PeriodInv, Iterations!TypeOK, Iterations!TaskRow
  <2>3. CASE Iterations!ReopenTask
    BY <2>3 DEF Iterations!ReopenTask, PeriodInv, Iterations!TypeOK, Iterations!TaskRow
  <2>4. CASE Iterations!NextDay
    BY <2>4 DEF Iterations!NextDay, PeriodInv, Iterations!TypeOK
  <2> QED BY <2>1, <2>2, <2>3, <2>4
<1>5. Iterations!TypeOK' /\ Iterations!PeriodsInOrder'
  BY <1>1, <1>4 DEF PeriodInv, Iterations!TypeOK, Iterations!PeriodsInOrder, Iterations!Live
<1>6. \A q \in Request : Moves(work[q])'
  BY <1>1 DEF PeriodInv, Moves
<1>7. ASSUME NEW s, Coming(s)' PROVE Coming(s)
  BY <1>1, <1>7 DEF Coming, Starting, Iterations!Live
<1> QED BY <1>1, <1>2, <1>5, <1>6, <1>7 DEF PeriodInv

\* Each step keeps the periods in order; only a check that found no other sprint in
\* progress brings one more.
LEMMA PeriodStep ==
  ASSUME PeriodInv, Iterations!Next
  PROVE  /\ PeriodInv'
         /\ \/ \A s : Coming(s)' => Coming(s)
            \/ \E r \in Request : \A s : Coming(s)' => \E q \in Request : work'[q].on = s
<1>1. ASSUME NEW r \in Request, NEW h \in Iterations!Handler, Moves(h), ~Starting(h),
             work' = [work EXCEPT ![r] = h], UNCHANGED Iterations!rows
      PROVE  PeriodInv' /\ \A s : Coming(s)' => Coming(s)
  <2>1. PeriodInv' /\ UNCHANGED period
    BY <1>1, PeriodsStay DEF Iterations!rows
  <2>2. \A q \in Request : work'[q] = IF q = r THEN h ELSE work[q]
    BY <1>1 DEF PeriodInv, Iterations!TypeOK
  <2>3. ASSUME NEW s, Coming(s)' PROVE Coming(s)
    BY <1>1, <2>1, <2>2, <2>3 DEF Coming, Starting, Iterations!Live
  <2> QED BY <2>1, <2>3
<1>2. ASSUME NEW r \in Request, Iterations!CheckActive(r)
      PROVE  PeriodInv' /\ \/ \A s : Coming(s)' => Coming(s)
                           \/ \A s : Coming(s)' => \E q \in Request : work'[q].on = s
  <2>1. PICK h \in Iterations!Handler :
          /\ Moves(h)
          /\ Starting(h) => ~Iterations!OtherActive(work[r].on) /\ h.on = work[r].on
          /\ work' = [work EXCEPT ![r] = h] /\ UNCHANGED Iterations!rows
    BY <1>2, Checks
  <2>2. CASE ~Starting(h)
    BY <1>1, <2>1, <2>2
  <2>3. CASE Starting(h)
    <3>1. PeriodInv' /\ UNCHANGED period
      BY <2>1, PeriodsStay DEF Iterations!rows
    <3>2. work'[r] = h
      BY <2>1 DEF PeriodInv, Iterations!TypeOK
    <3>3. ASSUME NEW s, Coming(s)' PROVE \E q \in Request : work'[q].on = s
      <4>1. CASE s \in Sprint \cap Iterations!Live /\ period[s].status = "ACTIVE"
        <5>1. s = h.on
          BY <2>1, <2>3, <4>1 DEF Iterations!OtherActive
        <5> QED BY <3>2, <5>1
      <4>2. CASE \E q \in Request : Starting(work[q])' /\ work'[q].on = s
        BY <4>2
      <4> QED BY <3>1, <3>3, <4>1, <4>2 DEF Coming, Iterations!Live
    <3> QED BY <3>1, <3>3
  <2> QED BY <2>2, <2>3
<1>3. CASE \E r \in Request :
             \/ Iterations!BeginUpdateSprint(r) \/ Iterations!BeginUpdatePhase(r)
             \/ Iterations!BeginUpdateMilestone(r) \/ Iterations!BeginUpdateIssue(r)
             \/ Iterations!Abort(r)
  BY <1>1, <1>3, Begins
<1>4. CASE \E r \in Request : Iterations!WritePeriod(r) \/ Iterations!WriteMark(r)
  BY <1>4, WritesPeriod, MarksWritten
<1>5. CASE \/ Iterations!CreateSprint \/ Iterations!CreatePhase
           \/ Iterations!RemoveSprint \/ Iterations!RemovePhase
  BY <1>5, PeriodComes
<1>6. CASE \/ Iterations!AssignTasks \/ Iterations!CompleteTask
           \/ Iterations!ReopenTask \/ Iterations!NextDay
  BY <1>6, TasksMove
<1> QED BY <1>2, <1>3, <1>4, <1>5, <1>6 DEF Iterations!Next

LEMMA SprintsComeSingly ==
  ASSUME PeriodInv, Assigned, [Iterations!Next]_(Iterations!vars)
  PROVE  PeriodInv' /\ Assigned'
<1>1. CASE UNCHANGED Iterations!vars
  BY <1>1 DEF Iterations!vars, PeriodInv, Iterations!TypeOK, Iterations!PeriodsInOrder,
     Iterations!Live, Moves, Assigned, Gives, Coming, Starting
<1>2. CASE Iterations!Next
  <2>1. PeriodInv'
    BY <1>2, PeriodStep
  <2>2. CASE \A s : Coming(s)' => Coming(s)
    <3>1. PICK of : Gives(of)
      BY DEF Assigned
    <3>2. Gives(of)'
      BY <2>2, <3>1, Zenon DEF Gives
    <3> QED BY <2>1, <3>2 DEF Assigned
  <2>3. CASE \A s : Coming(s)' => \E q \in Request : work'[q].on = s
    <3>1. PICK of : of = [q \in Request |-> work'[q].on]
      OBVIOUS
    <3>2. Gives(of)'
      BY <2>3, <3>1 DEF Gives
    <3> QED BY <2>1, <3>2 DEF Assigned
  <2> QED BY <1>2, <2>1, <2>2, <2>3, PeriodStep
<1> QED BY <1>1, <1>2

LEMMA ImageSmall ==
  ASSUME NEW S, IsFiniteSet(S), NEW f
  PROVE  LET T == {f[x] : x \in S} IN IsFiniteSet(T) /\ Cardinality(T) <= Cardinality(S)
<1> DEFINE T == {f[x] : x \in S}
           g == [x \in S |-> f[x]]
<1>1. g \in Surjection(S, T)
  BY DEF Surjection
<1> QED BY <1>1, FS_Surjection

LEMMA FewInProgress == ASSUME Assigned PROVE Iterations!ActiveSprintsBounded
<1> DEFINE A == {s \in Sprint \cap Iterations!Live : period[s].status = "ACTIVE"}
<1>1. PICK of : \A s : Coming(s) => \E r \in Request : of[r] = s
  BY DEF Assigned, Gives
<1> DEFINE T == {of[r] : r \in Request}
<1>2. A \subseteq T
  BY <1>1 DEF Coming
<1> HIDE DEF A
<1>3. IsFiniteSet(T) /\ Cardinality(T) <= Cardinality(Request)
  BY StoryAssumption, ImageSmall
<1>4. Cardinality(A) <= Cardinality(T) /\ Cardinality(A) \in Nat /\ Cardinality(T) \in Nat
      /\ Cardinality(Request) \in Nat
  BY <1>2, <1>3, StoryAssumption, FS_Subset, FS_CardinalityType
<1>5. \A S : Iterations!Cardinality(S) = Cardinality(S)
  BY DEF Iterations!Cardinality, Cardinality
<1> HIDE DEF T
<1>6. Cardinality(A) <= Cardinality(Request)
  BY <1>3, <1>4
<1> QED BY <1>5, <1>6 DEF A, Iterations!ActiveSprintsBounded

\* Evenings are told as they were.
LEMMA EveningsStay ==
  ASSUME PeriodInv, Told, [Iterations!Next]_(Iterations!vars)
  PROVE  Told'
<1>0. /\ \A t \in Story : story[t] \in Iterations!TaskRow
      /\ today \in Int
      /\ \A t \in Story : story[t].completedAt # Null => story[t].completedAt \in Int
  BY Days DEF PeriodInv, Iterations!TypeOK, Iterations!TaskRow
<1>1. CASE UNCHANGED <<story, today, evening>>
  BY <1>1 DEF Told, Iterations!LeftOn, Iterations!Scope
<1>2. CASE \E p \in Iterations!Period : Iterations!Remove(p)
  <2>1. PICK p \in Iterations!Period : Iterations!Remove(p)
    BY <1>2
  <2>2. /\ today' = today
        /\ story' = [t \in Story |-> IF story[t].sprint = p THEN [story[t] EXCEPT !.sprint = Null]
                                     ELSE story[t]]
        /\ evening' = IF Iterations!Scope(p) = {} THEN evening ELSE <<>>
    BY <2>1 DEF Iterations!Remove
  <2>3. \A t \in Story : story'[t].completedAt = story[t].completedAt
    BY <1>0, <2>2 DEF Iterations!TaskRow
  <2>4. \A t \in Story : story'[t].completedAt # Null => story'[t].completedAt <= today'
    BY <2>2, <2>3 DEF Told
  <2>5. CASE Iterations!Scope(p) = {}
    <3>1. \A t \in Story : story'[t] = story[t]
      BY <2>2, <2>5 DEF Iterations!Scope
    <3>2. \A s \in Sprint, d \in Int : Iterations!LeftOn(s, d)' = Iterations!LeftOn(s, d)
      BY <3>1 DEF Iterations!LeftOn, Iterations!Scope
    <3> QED BY <2>2, <2>4, <2>5, <3>2 DEF Told
  <2>6. CASE Iterations!Scope(p) # {}
    BY <2>2, <2>4, <2>6 DEF Told
  <2> QED BY <2>5, <2>6
<1>3. CASE Iterations!AssignTasks
  <2>1. PICK s \in Sprint \cup {Null}, T \in SUBSET Story :
          story' = [t \in Story |-> IF t \in T THEN [story[t] EXCEPT !.sprint = s] ELSE story[t]]
    BY <1>3 DEF Iterations!AssignTasks
  <2>2. \A t \in Story : story'[t].completedAt = story[t].completedAt
    BY <1>0, <2>1 DEF Iterations!TaskRow
  <2>3. today' = today /\ evening' = IF story' = story THEN evening ELSE <<>>
    BY <1>3 DEF Iterations!AssignTasks
  <2>4. \A t \in Story : story'[t].completedAt # Null => story'[t].completedAt <= today'
    BY <2>2, <2>3 DEF Told
  <2>5. CASE story' = story
    BY <1>1, <2>3, <2>5
  <2>6. CASE story' # story
    BY <2>3, <2>4, <2>6 DEF Told
  <2> QED BY <2>5, <2>6
<1>4. CASE Iterations!CompleteTask
  <2>1. PICK t \in Story : /\ story[t].completedAt = Null
                           /\ story' = [story EXCEPT ![t].completedAt = today]
    BY <1>4 DEF Iterations!CompleteTask
  <2>2. today' = today /\ evening' = evening
    BY <1>4 DEF Iterations!CompleteTask
  <2>3. \A x \in Story : /\ story'[x].sprint = story[x].sprint
                         /\ story'[x].completedAt = IF x = t THEN today ELSE story[x].completedAt
    BY <1>0, <2>1 DEF PeriodInv, Iterations!TypeOK, Iterations!TaskRow
  <2>4. ASSUME NEW s \in Sprint, NEW d \in Int, d < today
        PROVE  Iterations!LeftOn(s, d)' = Iterations!LeftOn(s, d)
    BY <1>0, <2>1, <2>3, <2>4 DEF Iterations!LeftOn, Iterations!Scope
  <2> QED BY <1>0, <2>2, <2>3, <2>4 DEF Told
<1>5. CASE Iterations!ReopenTask
  <2>1. PICK t \in Story : /\ story[t].completedAt # Null
                           /\ story' = [story EXCEPT ![t].completedAt = Null]
                           /\ evening' = IF story[t].completedAt < today THEN <<>> ELSE evening
    BY <1>5 DEF Iterations!ReopenTask
  <2>2. today' = today
    BY <1>5 DEF Iterations!ReopenTask
  <2>3. \A x \in Story : /\ story'[x].sprint = story[x].sprint
                         /\ story'[x].completedAt = IF x = t THEN Null ELSE story[x].completedAt
    BY <1>0, <2>1 DEF PeriodInv, Iterations!TypeOK, Iterations!TaskRow
  <2>4. \A x \in Story : story'[x].completedAt # Null => story'[x].completedAt <= today'
    BY <2>2, <2>3 DEF Told
  <2>5. CASE story[t].completedAt < today
    BY <2>1, <2>4, <2>5 DEF Told
  <2>6. CASE ~(story[t].completedAt < today)
    <3>1. ASSUME NEW s \in Sprint, NEW d \in Int, d < today
          PROVE  Iterations!LeftOn(s, d)' = Iterations!LeftOn(s, d)
      BY <1>0, <2>1, <2>3, <2>6, <3>1 DEF Iterations!LeftOn, Iterations!Scope
    <3>2. evening' = evening
      BY <2>1, <2>6
    <3> QED BY <2>2, <2>4, <3>1, <3>2 DEF Told
  <2> QED BY <2>5, <2>6
<1>6. CASE Iterations!NextDay
  <2>1. /\ today' = today + 1 /\ story' = story
        /\ evening' = [d \in DOMAIN evening \cup {today} |->
                         IF d = today THEN [s \in Sprint |-> Iterations!Left(s)] ELSE evening[d]]
    BY <1>6 DEF Iterations!NextDay
  <2>2. \A s \in Sprint, d \in Int : Iterations!LeftOn(s, d)' = Iterations!LeftOn(s, d)
    BY <2>1 DEF Iterations!LeftOn, Iterations!Scope
  <2>3. \A s \in Sprint : Iterations!LeftOn(s, today) = Iterations!Left(s)
    BY <1>0 DEF Told, Iterations!LeftOn, Iterations!Left, Iterations!Scope
  <2>4. \A t \in Story : story'[t].completedAt # Null => story'[t].completedAt <= today'
    BY <1>0, <2>1 DEF Told
  <2>5. ASSUME NEW d \in DOMAIN evening'
        PROVE  d \in Int /\ d < today' /\ \A s \in Sprint : evening'[d][s] = Iterations!LeftOn(s, d)'
    BY <1>0, <2>1, <2>2, <2>3 DEF Told
  <2> QED BY <2>4, <2>5 DEF Told
<1>7. CASE \E r \in Request :
             \/ Iterations!BeginUpdateSprint(r) \/ Iterations!BeginUpdatePhase(r)
             \/ Iterations!BeginUpdateMilestone(r) \/ Iterations!BeginUpdateIssue(r)
             \/ Iterations!CheckActive(r) \/ Iterations!Abort(r)
             \/ Iterations!WritePeriod(r) \/ Iterations!WriteMark(r)
  BY <1>1, <1>7 DEF Iterations!BeginUpdateSprint, Iterations!BeginUpdatePhase,
     Iterations!BeginUpdate, Iterations!BeginUpdateMilestone, Iterations!BeginUpdateIssue,
     Iterations!BeginUpdateMark, Iterations!CheckActive, Iterations!Abort,
     Iterations!WritePeriod, Iterations!WriteMark, Iterations!rows
<1>8. CASE Iterations!CreateSprint \/ Iterations!CreatePhase
  BY <1>1, <1>8 DEF Iterations!CreateSprint, Iterations!CreatePhase, Iterations!Create
<1>9. CASE Iterations!RemoveSprint \/ Iterations!RemovePhase
  BY <1>2, <1>9 DEF Iterations!RemoveSprint, Iterations!RemovePhase, Iterations!Period
<1>10. CASE UNCHANGED Iterations!vars
  BY <1>1, <1>10 DEF Iterations!vars
<1> QED BY <1>3, <1>4, <1>5, <1>6, <1>7, <1>8, <1>9, <1>10 DEF Iterations!Next

\* What is left of a sprint and what is done of it are all of it, in points or in tasks.
LEMMA ListTellsCurve ==
  ASSUME PeriodInv, Told
  PROVE  Iterations!SummaryIsBurndown
<1> SUFFICES ASSUME NEW s \in Sprint
             PROVE  Iterations!Summary(s).completed + Iterations!Actual(s, today)
                      = Iterations!Summary(s).total
  BY DEF Iterations!SummaryIsBurndown
<1> DEFINE S == Iterations!Scope(s)
           L == Iterations!Left(s)
           D == S \ L
<1>1. Iterations!LeftOn(s, today) = L
  <2>1. /\ today \in Int
        /\ \A t \in Story : story[t].completedAt # Null => story[t].completedAt \in Int
    BY Days DEF PeriodInv, Iterations!TypeOK, Iterations!TaskRow
  <2>2. \A t \in Story : story[t].completedAt # Null => ~(story[t].completedAt > today)
    BY <2>1 DEF Told
  <2> QED BY <2>2 DEF Iterations!LeftOn, Iterations!Left, Iterations!Scope
<1>2. S \subseteq Story /\ L \subseteq S
  BY DEF Iterations!Scope, Iterations!Left
<1>3. /\ Iterations!Summary(s).completed = Iterations!Work(S, D)
      /\ Iterations!Actual(s, today) = Iterations!Work(S, L)
      /\ Iterations!Summary(s).total = Iterations!Work(S, S)
  BY <1>1 DEF Iterations!Summary, Iterations!Actual
<1> HIDE DEF S, L
<1>4. IsFiniteSet(S) /\ S = D \cup L /\ D \cap L = {}
  BY <1>2, StoryAssumption, FS_Subset
<1>5. Whole(Points, S)
  BY <1>2, StoryAssumption DEF Whole
<1> HIDE DEF D
<1>6. /\ SumFunctionOnSet(Points, S) = SumFunctionOnSet(Points, D) + SumFunctionOnSet(Points, L)
  BY <1>4, <1>5, SumParts
<1>7. Cardinality(S) = Cardinality(D) + Cardinality(L)
  <2>1. IsFiniteSet(D) /\ IsFiniteSet(L)
    BY <1>4, FS_Subset
  <2>2. Cardinality(D \cup L) = Cardinality(D) + Cardinality(L) - Cardinality(D \cap L)
    BY <2>1, FS_Union
  <2>3. Cardinality(D) \in Nat /\ Cardinality(L) \in Nat /\ Cardinality(D \cap L) = 0
    BY <1>4, <2>1, FS_CardinalityType, FS_EmptySet
  <2> QED BY <1>4, <2>2, <2>3
<1>8. /\ \A T : Iterations!SumFunctionOnSet(Points, T) = SumFunctionOnSet(Points, T)
      /\ \A T : Iterations!Cardinality(T) = Cardinality(T)
  BY DEF Iterations!SumFunctionOnSet, Iterations!FoldFunctionOnSet, Iterations!MapThenFoldSet,
     SumFunctionOnSet, FoldFunctionOnSet, MapThenFoldSet, Iterations!Cardinality, Cardinality
<1> QED BY <1>3, <1>6, <1>7, <1>8 DEF Iterations!Work

LEMMA IterationsAlways ==
  Iterations!Spec => [](PeriodInv /\ Assigned /\ Told)
<1>1. Iterations!Init => Assigned /\ Told
  <2> SUFFICES ASSUME Iterations!Init PROVE Assigned /\ Told
    OBVIOUS
  <2>1. \A s : ~Coming(s)
    BY DEF Iterations!Init, Iterations!InitRows, Coming, Starting, Iterations!Live,
       Iterations!Resting
  <2>2. Told
    BY DEF Iterations!Init, Iterations!InitRows, Told
  <2> QED BY <2>1, <2>2 DEF Assigned, Gives
<1> QED BY <1>1, PeriodStart, SprintsComeSingly, EveningsStay, PTL DEF Iterations!Spec

\* SprintService, PhaseService, BurndownService, and the rows of a plan: however updates of a
\* period overlap, it ends after it starts; as many sprints are in progress as handlers
\* overlap, one when they do not; the curve is what was left each evening, and agrees with the list of
\* sprints.  Rows of the plan are dates, and its reference has no conflict.
THEOREM PlanningCorrect == Spec /\ Iterations!Spec => []PlanningWellFormed
<1>1. PeriodInv /\ Told => Iterations!BurndownTellsHistory
  BY DEF PeriodInv, Told, Iterations!BurndownTellsHistory, Iterations!Actual
<1>2. PeriodInv /\ Assigned /\ Told /\ TypeOK /\ BaselineHonoursDependencies => PlanningWellFormed
  BY <1>1, FewInProgress, ListTellsCurve DEF PlanningWellFormed, PeriodInv
<1> QED BY <1>2, IterationsAlways, PlanTypeCorrect, ReferencesHonourDependencies, PTL
=============================================================================
