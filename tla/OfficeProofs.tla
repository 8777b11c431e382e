---------------------------- MODULE OfficeProofs ----------------------------
(***************************************************************************)
(* Theorems about the services of MCOffice, each for any number of people and *)
(* requests: the rows and the answers of AuditLog, whatever is recorded        *)
(* between the queries of an answer; the order of NumberedLists; and who is     *)
(* told in Notices, whatever changes or fails while events are announced.       *)
(***************************************************************************)
EXTENDS MCOffice, SumsProofs

-----------------------------------------------------------------------------
(***************************************************************************)
(* The log.                                                                 *)
(***************************************************************************)
LEMMA InitType == Init => TypeOK
BY DEF Init, TypeOK, ToCome, Audited

LEMMA NextType == TypeOK /\ [Next]_vars => TypeOK'
<1> SUFFICES ASSUME TypeOK, [Next]_vars PROVE TypeOK'
  OBVIOUS
<1> USE DEF TypeOK, Audited
<1>1. ASSUME NEW r \in Request, Serve(r) PROVE TypeOK'
  BY <1>1, AuditAssumption DEF Serve, At
<1>2. ASSUME NEW r \in Request, Succeed(r) \/ Fail(r) \/ RecordFails(r) PROVE TypeOK'
  BY <1>2 DEF Succeed, Fail, RecordFails, At, Goto
<1>3. ASSUME NEW r \in Request, Record(r) PROVE TypeOK'
  <2>1. RowOf(r) \in Entry
    BY <1>3 DEF Record, At, RowOf, Entry
  <2>2. log' \in Seq(Entry)
    BY <1>3, <2>1 DEF Record
  <2> QED BY <1>3, <2>2 DEF Record, At, Goto
<1>4. CASE Tick
  BY <1>4 DEF Tick
<1>5. ASSUME NEW op \in {"list", "export", "options", "stats"}, NEW f \in Filter,
             NEW w \in Window, Ask(op, f, w)
      PROVE  TypeOK'
  <2>1. asked' \in Question
    BY <1>5 DEF Ask, Question, Unasked
  <2> QED BY <1>5, <2>1 DEF Ask
<1>6. ASSUME NEW q \in Query, Run(q) PROVE TypeOK'
  <2>1. asked \in Question /\ Len(log) \in Nat
    BY <1>6 DEF Run
  <2>2. asked' \in Question
    BY <1>6, <2>1 DEF Run, Question
  <2> QED BY <1>6, <2>2 DEF Run
<1>7. CASE Close
  BY <1>7 DEF Close
<1>8. CASE UNCHANGED vars
  BY <1>8 DEF vars
<1> QED BY <1>1, <1>2, <1>3, <1>4, <1>5, <1>6, <1>7, <1>8 DEF Next

\* The rows keep their types, and no request reaches a step without what it records there.
THEOREM TypeCorrect == Spec => []TypeOK
BY InitType, NextType, PTL DEF Spec

\* The log grows at its end, by one row of a request that has just succeeded.
LEMMA LogGrows ==
  ASSUME TypeOK, [Next]_vars
  PROVE  /\ Len(log) <= Len(log') /\ \A i \in 1 .. Len(log) : log'[i] = log[i]
         /\ \/ log' = log
            \/ \E r \in Request : Record(r)
<1>1. ASSUME NEW r \in Request, Record(r)
      PROVE  Len(log) <= Len(log') /\ \A i \in 1 .. Len(log) : log'[i] = log[i]
  BY <1>1 DEF Record, TypeOK
<1>2. CASE log' = log
  BY <1>2 DEF TypeOK
<1>3. log' = log \/ \E r \in Request : Record(r)
  BY DEF Next, vars, Serve, Succeed, Fail, RecordFails, Tick, Ask, Run, Close
<1> QED BY <1>1, <1>2, <1>3

LEMMA TracesStep ==
  ASSUME TypeOK, TracesAreTrue, [Next]_vars
  PROVE  TracesAreTrue'
<1>1. ASSUME NEW r \in Request, At(r, "done") PROVE req'[r] = req[r]
  BY <1>1 DEF At, Goto, Next, vars, Serve, Succeed, Fail, Record, RecordFails, Tick, Ask, Run,
              Close, TypeOK
<1>2. \A i \in 1 .. Len(log) : log[i] \in Entry
  BY DEF TypeOK
<1>3. CASE log' = log
  BY <1>1, <1>2, <1>3 DEF TracesAreTrue, At, Entry
<1>4. ASSUME NEW r \in Request, Record(r) PROVE TracesAreTrue'
  <2> DEFINE n == Len(log) + 1
  <2>1. /\ Len(log) \in Nat /\ Len(log') = n /\ log'[n] = RowOf(r)
        /\ \A i \in 1 .. Len(log) : log'[i] = log[i]
    BY <1>4 DEF Record, TypeOK
  <2>2. At(r, "record") /\ req'[r] = [req[r] EXCEPT !.pc = "done"]
    BY <1>4 DEF Record, Goto, TypeOK
  <2>3. \A i \in 1 .. Len(log) :
          /\ log[i].request \in Request /\ log[i].request # r
          /\ req'[log[i].request] = req[log[i].request]
    BY <1>1, <1>2, <2>2 DEF TracesAreTrue, At, Entry
  <2>4. ASSUME NEW i \in 1 .. Len(log')
        PROVE  /\ req'[log'[i].request].pc = "done"
               /\ log'[i].action = req'[log'[i].request].action
               /\ log'[i].user = req'[log'[i].request].user
    <3>1. CASE i = n
      BY <2>1, <2>2, <3>1 DEF RowOf, TypeOK, Audited
    <3>2. CASE i \in 1 .. Len(log)
      BY <2>1, <2>3, <3>2 DEF TracesAreTrue, At
    <3> QED BY <2>1, <3>1, <3>2
  <2>5. ASSUME NEW i \in 1 .. Len(log'), NEW j \in 1 .. Len(log'),
               log'[i].request = log'[j].request
        PROVE  i = j
    <3>1. CASE i = n /\ j # n
      BY <2>1, <2>3, <2>5, <3>1 DEF RowOf
    <3>2. CASE i # n /\ j = n
      BY <2>1, <2>3, <2>5, <3>2 DEF RowOf
    <3>3. CASE i # n /\ j # n
      BY <2>1, <2>5, <3>3 DEF TracesAreTrue
    <3> QED BY <3>1, <3>2, <3>3
  <2> QED BY <2>4, <2>5 DEF TracesAreTrue, At
<1> QED BY <1>3, <1>4, LogGrows

\* A row tells what a request has done, and by whom; none tells it twice, and what was refused
\* is not told at all.
THEOREM TracesTrue == Spec => []TracesAreTrue
<1>1. Init => TracesAreTrue
  BY DEF Init, TracesAreTrue
<1> QED BY <1>1, TypeCorrect, TracesStep, PTL DEF Spec

-----------------------------------------------------------------------------
(***************************************************************************)
(* Pages, counted without induction: what is left out lies behind the first  *)
(* row left out, and what is shown is the last row shown and those ahead.     *)
(***************************************************************************)
\* The row of a set that comes first, and the one that comes last, in either order.
LEMMA FirstOf ==
  ASSUME NEW n \in Nat, NEW S \in SUBSET (0 .. n), S # {}
  PROVE  /\ \E m \in S : \A k \in S : m <= k
         /\ \E m \in S : \A k \in S : k <= m
<1>1. \E m \in S : \A k \in S : m <= k
  BY SmallestOf
<1> DEFINE D == {n - k : k \in S}
<1>2. D \subseteq Nat /\ D # {}
  <2>1. \A k \in S : k \in 0 .. n /\ n - k \in Nat
    OBVIOUS
  <2>2. PICK k \in S : TRUE
    OBVIOUS
  <2>3. n - k \in D
    OBVIOUS
  <2> QED BY <2>1, <2>3
<1> HIDE DEF D
<1>3. PICK d \in D : \A e \in D : d <= e
  BY <1>2, SmallestOf
<1>4. PICK m \in S : d = n - m
  BY <1>3 DEF D
<1>5. \A k \in S : n - k \in D /\ k \in Int
  BY DEF D
<1>6. \A k \in S : k <= m
  BY <1>3, <1>4, <1>5
<1> QED BY <1>1, <1>6

LEMMA AheadCount ==
  ASSUME NEW n \in Nat, NEW S \in SUBSET (1 .. n), NEW sort
  PROVE  /\ IsFiniteSet(S) /\ Cardinality(S) \in Nat
         /\ \A i \in S : /\ Ahead(i, S, sort) \subseteq S \ {i}
                         /\ Cardinality(Ahead(i, S, sort)) \in Nat
                         /\ Cardinality(Ahead(i, S, sort)) < Cardinality(S)
<1>1. IsFiniteSet(1 .. n)
  BY FS_Interval
<1>2. IsFiniteSet(S) /\ Cardinality(S) \in Nat
  BY <1>1, FS_Subset, FS_CardinalityType
<1>3. ASSUME NEW i \in S
      PROVE  /\ Ahead(i, S, sort) \subseteq S \ {i}
             /\ Cardinality(Ahead(i, S, sort)) \in Nat
             /\ Cardinality(Ahead(i, S, sort)) < Cardinality(S)
  <2>1. Ahead(i, S, sort) \subseteq S \ {i}
    BY DEF Ahead
  <2>2. IsFiniteSet(S \ {i}) /\ Cardinality(S \ {i}) = Cardinality(S) - 1
    BY <1>2, FS_RemoveElement
  <2>3. /\ IsFiniteSet(Ahead(i, S, sort))
        /\ Cardinality(Ahead(i, S, sort)) <= Cardinality(S \ {i})
    BY <2>1, <2>2, FS_Subset
  <2>4. Cardinality(Ahead(i, S, sort)) \in Nat
    BY <2>3, FS_CardinalityType
  <2> QED BY <1>2, <2>1, <2>2, <2>3, <2>4
<1> QED BY <1>2, <1>3

\* A first page has no more rows than its size.
LEMMA PageBounded ==
  ASSUME NEW n \in Nat, NEW S \in SUBSET (1 .. n), NEW sort, NEW size \in Nat \ {0}
  PROVE  Cardinality(Page(S, sort, 0, size)) <= size
<1> DEFINE P == Page(S, sort, 0, size)
<1>1. P \subseteq S /\ \A i \in P : Cardinality(Ahead(i, S, sort)) <= size - 1
  BY DEF Page
<1>2. CASE P = {}
  BY <1>2, FS_EmptySet
<1>3. CASE P # {}
  <2>1. PICK x \in P : P \subseteq Ahead(x, S, sort) \cup {x}
    <3> HIDE DEF P
    <3>0. P \in SUBSET (0 .. n)
      BY <1>1
    <3>1. PICK low \in P : \A k \in P : low <= k
      BY <1>3, <3>0, FirstOf
    <3>2. PICK high \in P : \A k \in P : k <= high
      BY <1>3, <3>0, FirstOf
    <3>3. P \subseteq Int
      BY <1>1
    <3>4. CASE sort = "asc"
      <4>1. P \subseteq Ahead(high, S, sort) \cup {high}
        BY <1>1, <3>2, <3>3, <3>4 DEF Ahead
      <4> QED BY <4>1, <3>2
    <3>5. CASE sort # "asc"
      <4>1. P \subseteq Ahead(low, S, sort) \cup {low}
        BY <1>1, <3>1, <3>3, <3>5 DEF Ahead
      <4> QED BY <4>1, <3>1
    <3> QED BY <3>4, <3>5
  <2> DEFINE A == Ahead(x, S, sort)
  <2>2. A \subseteq S \ {x} /\ IsFiniteSet(A) /\ Cardinality(A) \in Nat
    BY <1>1, AheadCount, FS_Subset
  <2>3. Cardinality(A) <= size - 1
    BY <1>1
  <2>4. IsFiniteSet(A \cup {x}) /\ Cardinality(A \cup {x}) = Cardinality(A) + 1
    BY <2>2, FS_AddElement
  <2>5. Cardinality(P) <= Cardinality(A \cup {x}) /\ IsFiniteSet(P)
    BY <2>1, <2>4, FS_Subset
  <2>6. Cardinality(P) \in Nat
    BY <2>5, FS_CardinalityType
  <2> HIDE DEF A, P
  <2> QED BY <2>2, <2>3, <2>4, <2>5, <2>6 DEF P
<1> QED BY <1>2, <1>3

\* What a first page leaves out is no more than what the set has in excess of its size.
LEMMA PageLeavesOut ==
  ASSUME NEW n \in Nat, NEW S \in SUBSET (1 .. n), NEW sort, NEW size \in Nat \ {0},
         S \ Page(S, sort, 0, size) # {}
  PROVE  /\ IsFiniteSet(S \ Page(S, sort, 0, size))
         /\ Cardinality(S \ Page(S, sort, 0, size)) <= Cardinality(S) - size
<1> DEFINE M == S \ Page(S, sort, 0, size)
<1>1. /\ IsFiniteSet(S) /\ Cardinality(S) \in Nat
      /\ \A i \in S : /\ Ahead(i, S, sort) \subseteq S
                      /\ Cardinality(Ahead(i, S, sort)) \in Nat
  BY AheadCount
<1>2. M \subseteq S /\ \A i \in M : Cardinality(Ahead(i, S, sort)) >= size
  BY <1>1 DEF Page
<1>3. PICK x \in M : M \cap Ahead(x, S, sort) = {}
  <2>0. M # {}
    OBVIOUS
  <2> HIDE DEF M
  <2>9. M \in SUBSET (0 .. n)
    BY <1>2
  <2>1. PICK low \in M : \A k \in M : low <= k
    BY <2>0, <2>9, FirstOf
  <2>2. PICK high \in M : \A k \in M : k <= high
    BY <2>0, <2>9, FirstOf
  <2>3. M \subseteq Int
    BY <1>2
  <2>4. ASSUME sort = "asc", NEW k \in M PROVE k \notin Ahead(low, S, sort)
    BY <2>1, <2>3, <2>4 DEF Ahead
  <2>5. ASSUME sort # "asc", NEW k \in M PROVE k \notin Ahead(high, S, sort)
    BY <2>2, <2>3, <2>5 DEF Ahead
  <2>6. CASE sort = "asc"
    BY <2>4, <2>6
  <2>7. CASE sort # "asc"
    BY <2>5, <2>7
  <2> QED BY <2>6, <2>7
<1> DEFINE A == Ahead(x, S, sort)
<1>4. A \subseteq S /\ Cardinality(A) \in Nat /\ Cardinality(A) >= size
  BY <1>1, <1>2
<1>5. M \subseteq S \ A
  BY <1>2, <1>3
<1> HIDE DEF M, A
<1>6. IsFiniteSet(S \ A) /\ Cardinality(S \ A) = Cardinality(S) - Cardinality(S \cap A)
  BY <1>1, FS_Difference
<1>7. S \cap A = A
  BY <1>4
<1>8. IsFiniteSet(M) /\ Cardinality(M) <= Cardinality(S \ A)
  BY <1>5, <1>6, FS_Subset
<1>9. Cardinality(M) \in Nat
  BY <1>8, FS_CardinalityType
<1>10. IsFiniteSet(M) /\ Cardinality(M) <= Cardinality(S) - size
  BY <1>1, <1>4, <1>6, <1>7, <1>8, <1>9
<1> QED BY <1>10 DEF M

\* Rows stand one behind the other, each at a place of its own.
LEMMA AheadOrder ==
  ASSUME NEW n \in Nat, NEW S \in SUBSET (1 .. n), NEW sort, NEW i \in S, NEW j \in S, i < j
  PROVE  IF sort = "asc"
         THEN Cardinality(Ahead(i, S, sort)) < Cardinality(Ahead(j, S, sort))
         ELSE Cardinality(Ahead(j, S, sort)) < Cardinality(Ahead(i, S, sort))
<1>1. ASSUME NEW a \in S, NEW b \in S, Ahead(a, S, sort) \subseteq Ahead(b, S, sort),
             a \in Ahead(b, S, sort), a \notin Ahead(a, S, sort)
      PROVE  Cardinality(Ahead(a, S, sort)) < Cardinality(Ahead(b, S, sort))
  <2> DEFINE A == Ahead(a, S, sort)
             B == Ahead(b, S, sort)
  <2>1. IsFiniteSet(B)
    BY AheadCount, FS_Subset
  <2>2. /\ IsFiniteSet(B \ {a}) /\ Cardinality(B \ {a}) = Cardinality(B) - 1
        /\ A \subseteq B \ {a}
    BY <1>1, <2>1, FS_RemoveElement
  <2> HIDE DEF A, B
  <2>3. IsFiniteSet(A) /\ Cardinality(A) <= Cardinality(B) - 1
    BY <2>2, FS_Subset
  <2>4. Cardinality(A) \in Nat /\ Cardinality(B) \in Nat
    BY <2>1, <2>3, FS_CardinalityType
  <2>5. Cardinality(A) < Cardinality(B)
    BY <2>3, <2>4
  <2> QED BY <2>5 DEF A, B
<1>2. S \subseteq Int
  OBVIOUS
<1>3. CASE sort = "asc"
  <2>1. Ahead(i, S, sort) = {k \in S : k < i} /\ Ahead(j, S, sort) = {k \in S : k < j}
    BY <1>3 DEF Ahead
  <2>2. ASSUME NEW k \in S, k < i PROVE k < j
    BY <1>2, <2>2
  <2>3. ~(i < i)
    BY <1>2
  <2>4. /\ Ahead(i, S, sort) \subseteq Ahead(j, S, sort) /\ i \in Ahead(j, S, sort)
        /\ i \notin Ahead(i, S, sort)
    BY <2>1, <2>2, <2>3, Zenon
  <2>5. Cardinality(Ahead(i, S, sort)) < Cardinality(Ahead(j, S, sort))
    BY <1>1, <2>4, Zenon
  <2> QED BY <1>3, <2>5
<1>4. CASE sort # "asc"
  <2>1. Ahead(i, S, sort) = {k \in S : k > i} /\ Ahead(j, S, sort) = {k \in S : k > j}
    BY <1>4 DEF Ahead
  <2>2. ASSUME NEW k \in S, k > j PROVE k > i
    BY <1>2, <2>2
  <2>3. ~(j > j) /\ j > i
    BY <1>2
  <2>4. /\ Ahead(j, S, sort) \subseteq Ahead(i, S, sort) /\ j \in Ahead(i, S, sort)
        /\ j \notin Ahead(j, S, sort)
    BY <2>1, <2>2, <2>3, Zenon
  <2>5. Cardinality(Ahead(j, S, sort)) < Cardinality(Ahead(i, S, sort))
    BY <1>1, <2>4, Zenon
  <2> QED BY <1>4, <2>5
<1> QED BY <1>3, <1>4

\* So the numbers of rows ahead of the rows of a set are all those below its size, and a page
\* has as many rows as there are from its beginning, up to its size.
LEMMA PageFills ==
  ASSUME NEW n \in Nat, NEW S \in SUBSET (1 .. n), NEW sort, NEW skip \in Nat,
         NEW size \in Nat \ {0}
  PROVE  IF Cardinality(S) <= skip THEN Page(S, sort, skip, size) = {}
         ELSE Cardinality(Page(S, sort, skip, size)) = Least(size, Cardinality(S) - skip)
<1> DEFINE place == [i \in S |-> Cardinality(Ahead(i, S, sort))]
           c == Cardinality(S)
           P == Page(S, sort, skip, size)
           last == Least(size, c - skip)
           places == skip .. (skip + last - 1)
<1>1. /\ IsFiniteSet(S) /\ c \in Nat
      /\ \A i \in S : place[i] = Cardinality(Ahead(i, S, sort)) /\ place[i] \in 0 .. (c - 1)
  <2>1. ASSUME NEW i \in S PROVE Cardinality(Ahead(i, S, sort)) \in 0 .. (c - 1)
    <3>1. /\ Cardinality(Ahead(i, S, sort)) \in Nat /\ c \in Nat
          /\ Cardinality(Ahead(i, S, sort)) < c
      BY AheadCount, Zenon
    <3> HIDE DEF c
    <3> QED BY <3>1
  <2> QED BY AheadCount, <2>1, Zenon
<1>2. ASSUME NEW i \in S, NEW j \in S, place[i] = place[j] PROVE i = j
  <2>1. ASSUME NEW a \in S, NEW b \in S, a < b PROVE place[a] # place[b]
    <3>1. CASE sort = "asc"
      <4>1. Cardinality(Ahead(a, S, sort)) < Cardinality(Ahead(b, S, sort))
        BY AheadOrder, <2>1, <3>1, Zenon
      <4> HIDE DEF place
      <4> QED BY <1>1, <4>1
    <3>2. CASE sort # "asc"
      <4>1. Cardinality(Ahead(b, S, sort)) < Cardinality(Ahead(a, S, sort))
        BY AheadOrder, <2>1, <3>2, Zenon
      <4> HIDE DEF place
      <4> QED BY <1>1, <4>1
    <3> QED BY <3>1, <3>2
  <2>2. i \in Int /\ j \in Int
    OBVIOUS
  <2> HIDE DEF place
  <2> QED BY <1>2, <2>1, <2>2
<1>3. \A i \in S : i \in P <=> place[i] \in skip .. (skip + size - 1)
  BY <1>1, Zenon DEF Page
<1>4. P \subseteq S
  BY DEF Page
<1>5. CASE c <= skip
  <2>1. ASSUME NEW i \in S PROVE i \notin P
    <3> HIDE DEF place, c, P
    <3> QED BY <1>1, <1>3, <1>5
  <2>2. P = {}
    BY <1>4, <2>1, Zenon
  <2> QED BY <1>5, <2>2
<1>6. CASE c > skip
  <2>1. place \in Injection(S, 0 .. (c - 1))
    <3>1. place \in [S -> 0 .. (c - 1)]
      BY <1>1, Zenon
    <3> HIDE DEF place, c
    <3> QED BY <1>2, <3>1, Zenon DEF Injection, IsInjective
  <2> HIDE DEF place, P, places, last, c
  <2>2. IsFiniteSet(0 .. (c - 1)) /\ Cardinality(0 .. (c - 1)) = c
    <3>1. c - 1 \in Int /\ 0 \in Int /\ ~(0 > c - 1) /\ (c - 1) - 0 + 1 = c
      BY <1>1, <1>6
    <3>2. Cardinality(0 .. (c - 1)) = (c - 1) - 0 + 1
      BY <3>1, FS_Interval, Zenon
    <3> QED BY <3>1, <3>2, FS_Interval, Zenon
  <2>3. place \in Surjection(S, 0 .. (c - 1))
    <3>1. Cardinality(S) = Cardinality(0 .. (c - 1))
      BY <2>2 DEF c
    <3> QED BY <1>1, <2>1, <2>2, <3>1, FS_Injection, Zenon
  <2>4. last \in Nat \ {0} /\ last <= size /\ last <= c - skip /\ (last = size \/ last = c - skip)
    <3>1. last = IF size <= c - skip THEN size ELSE c - skip
      BY Zenon DEF last, Least, c
    <3> QED BY <1>1, <1>6, <3>1
  <2>5. \A k \in places : k \in 0 .. (c - 1)
    BY <1>1, <1>6, <2>4 DEF places
  <2>6. \A i \in S : i \in P <=> place[i] \in places
    BY <1>1, <1>3, <1>6, <2>4 DEF places
  <2> DEFINE f == [i \in P |-> place[i]]
  <2>7. f \in [P -> places] /\ \A i \in P : f[i] = place[i]
    BY <1>4, <2>6
  <2> HIDE DEF f
  <2>8. ASSUME NEW k \in places PROVE \E i \in P : f[i] = k
    <3>1. PICK i \in S : place[i] = k
      BY <2>3, <2>5, Zenon DEF Surjection
    <3>2. i \in P
      BY <2>6, <3>1
    <3> QED BY <2>7, <3>1, <3>2
  <2>9. f \in Bijection(P, places)
    <3>1. ASSUME NEW i \in P, NEW j \in P, f[i] = f[j] PROVE i = j
      BY <1>2, <1>4, <2>7, <3>1
    <3>2. f \in Injection(P, places)
      BY <2>7, <3>1, Zenon DEF Injection, IsInjective
    <3>3. f \in Surjection(P, places)
      BY <2>7, <2>8, Zenon DEF Surjection
    <3> QED BY <3>2, <3>3, Zenon DEF Bijection
  <2>10. IsFiniteSet(P)
    BY <1>1, <1>4, FS_Subset, Zenon
  <2>11. Cardinality(places) = Cardinality(P)
    BY <2>9, <2>10, FS_Bijection, Zenon DEF ExistsBijection
  <2>12. Cardinality(places) = last
    <3>1. /\ skip \in Int /\ skip + last - 1 \in Int /\ ~(skip > skip + last - 1)
          /\ (skip + last - 1) - skip + 1 = last
      BY <2>4
    <3>2. Cardinality(skip .. (skip + last - 1)) = (skip + last - 1) - skip + 1
      BY <3>1, FS_Interval, Zenon
    <3> QED BY <3>1, <3>2 DEF places
  <2>13. ~(c <= skip)
    BY <1>1, <1>6
  <2>14. Cardinality(P) = last
    BY <2>11, <2>12
  <2> QED BY <2>13, <2>14, Zenon DEF c, P, last
<1>7. c <= skip \/ c > skip
  <2> HIDE DEF c
  <2> QED BY <1>1
<1> QED BY <1>5, <1>6, <1>7

\* A page is of one piece.
LEMMA PageWhole ==
  ASSUME NEW n \in Nat, NEW S \in SUBSET (1 .. n), NEW sort, NEW skip \in Nat,
         NEW size \in Nat \ {0},
         NEW i \in Page(S, sort, skip, size), NEW k \in Page(S, sort, skip, size),
         NEW j \in S, i < j, j < k
  PROVE  j \in Page(S, sort, skip, size)
<1> DEFINE place(e) == Cardinality(Ahead(e, S, sort))
<1>1. i \in S /\ k \in S
  BY DEF Page
<1>2. place(i) \in skip .. (skip + size - 1) /\ place(k) \in skip .. (skip + size - 1)
  BY DEF Page
<1>3. place(i) \in Nat /\ place(j) \in Nat /\ place(k) \in Nat
  BY <1>1, AheadCount, Zenon
<1>4. \/ place(i) < place(j) /\ place(j) < place(k)
      \/ place(k) < place(j) /\ place(j) < place(i)
  BY <1>1, AheadOrder, Zenon
<1> HIDE DEF place
<1>5. place(j) \in skip .. (skip + size - 1)
  BY <1>2, <1>3, <1>4
<1> QED BY <1>5 DEF Page, place

-----------------------------------------------------------------------------
(***************************************************************************)
(* Exports.                                                                 *)
(***************************************************************************)
\* What a filter is translated to admits what its parts ask for.
LEMMA FilterFaithful ==
  ASSUME asked \in Question, NEW e \in Entry
  PROVE  Matches(e, Where) <=> Demanded(e, asked.filter)
<1> DEFINE f == asked.filter
           length == f.period * PerDay
<1>1. f \in FilterRow /\ asked.at \in Nat
  BY AuditAssumption DEF Question
<1>2. e.action \in Action /\ e.user \in Person /\ e.at \in Nat
  BY DEF Entry
<1>3. Catalog \subseteq Action
  BY DEF Action
<1>4. e.action \in Where.actions <=>
        /\ f.actions # {} => e.action \in f.actions
        /\ f.categories # {} => e.action \in Catalog /\ e.action[1] \in f.categories
        /\ f.severities # {} => e.action \in Catalog /\ e.action[2] \in f.severities
  BY <1>2, <1>3 DEF Where, buildWhere, resolveActionFilter, actionsForCategories,
                    actionsForSeverities
<1>5. e.user \in Where.users <=> (f.users # {} => e.user \in f.users)
  BY <1>2 DEF Where, buildWhere
<1>6. (Where.to # Null => e.at <= Where.to) <=> (f.to # Null => e.at <= f.to)
  BY DEF Where, buildWhere
<1>7. (Where.from # Null => e.at >= Where.from) <=>
        /\ f.from # Null => e.at >= f.from
        /\ f.from = Null /\ f.period # Null => asked.at - e.at <= length
  <2>1. CASE f.from # Null
    BY <2>1 DEF Where, buildWhere
  <2>2. CASE f.from = Null /\ f.period = Null
    BY <2>2 DEF Where, buildWhere, periodStart
  <2>3. CASE f.from = Null /\ f.period # Null
    <3>1. f.period \in Nat /\ PerDay \in Nat
      BY <1>1, <2>3, AuditAssumption DEF FilterRow
    <3>2. length \in Int
      BY <3>1
    <3>3. Where.from = asked.at - length
      BY <2>3 DEF Where, buildWhere, periodStart
    <3> HIDE DEF length
    <3>4. asked.at - length # Null \/ asked.at - e.at <= length
      <4>1. CASE asked.at - length \in Nat
        BY <4>1, AuditAssumption
      <4>2. CASE asked.at - length \notin Nat
        BY <1>1, <1>2, <3>2, <4>2
      <4> QED BY <4>1, <4>2
    <3> QED BY <1>1, <1>2, <2>3, <3>2, <3>3, <3>4
  <2> QED BY <2>1, <2>2, <2>3
<1> QED BY <1>4, <1>5, <1>6, <1>7 DEF Matches, Demanded

\* Every query of an answer saw the log as it was at some time since the question.
SeenSince ==
  asked # NoQuestion =>
    /\ asked.since <= Len(log)
    /\ \A q \in Query : asked.seen[q] # Null =>
         asked.since <= asked.seen[q] /\ asked.seen[q] <= Len(log)

LEMMA SeenStep ==
  ASSUME TypeOK, SeenSince, [Next]_vars
  PROVE  SeenSince'
<1>1. /\ Len(log) \in Nat /\ Len(log') \in Nat /\ Len(log) <= Len(log')
      /\ asked # NoQuestion => asked \in Question
  <2>1. TypeOK'
    BY NextType
  <2> QED BY <2>1, LogGrows DEF TypeOK
<1>2. CASE asked' = asked
  BY <1>1, <1>2 DEF SeenSince, Question
<1>3. ASSUME NEW op \in {"list", "export", "options", "stats"}, NEW f \in Filter,
             NEW w \in Window, Ask(op, f, w)
      PROVE  SeenSince'
  BY <1>1, <1>3 DEF Ask, SeenSince, Unasked
<1>4. ASSUME NEW q \in Query, Run(q) PROVE SeenSince'
  <2>1. /\ asked' = [asked EXCEPT !.seen[q] = Len(log)] /\ asked \in Question /\ log' = log
        /\ asked # NoQuestion
    BY <1>1, <1>4 DEF Run
  <2>2. /\ asked'.since = asked.since /\ asked'.seen[q] = Len(log)
        /\ \A p \in Query \ {q} : asked'.seen[p] = asked.seen[p]
    BY <2>1 DEF Question
  <2> QED BY <1>1, <2>1, <2>2 DEF SeenSince
<1>5. CASE Close
  BY <1>5 DEF Close, SeenSince
<1>6. \/ asked' = asked
      \/ \E op \in {"list", "export", "options", "stats"}, f \in Filter, w \in Window :
           Ask(op, f, w)
      \/ \E q \in Query : Run(q)
      \/ Close
  BY DEF Next, vars, Serve, Succeed, Fail, Record, RecordFails, Tick
<1> QED BY <1>2, <1>3, <1>4, <1>5, <1>6

\* The rows among the first n that a filter demands.
LEMMA RowsCount ==
  ASSUME NEW m \in Nat, NEW n \in Nat, m <= n
  PROVE  /\ DemandedAmong(m) \subseteq DemandedAmong(n)
         /\ DemandedAmong(n) \subseteq 1 .. n
         /\ IsFiniteSet(DemandedAmong(n)) /\ Cardinality(DemandedAmong(n)) \in Nat
         /\ Cardinality(DemandedAmong(m)) \in Nat
         /\ Cardinality(DemandedAmong(m)) <= Cardinality(DemandedAmong(n))
         /\ Cardinality(DemandedAmong(n)) <= Cardinality(DemandedAmong(m)) + (n - m)
<1> DEFINE Dm == DemandedAmong(m)
           Dn == DemandedAmong(n)
           New == (m + 1) .. n
<1>1. Dm \subseteq Dn /\ Dn \subseteq 1 .. n /\ Dm \subseteq 1 .. m /\ Dn \subseteq Dm \cup New
  BY DEF DemandedAmong
<1>2. IsFiniteSet(1 .. n) /\ IsFiniteSet(New) /\ Cardinality(New) = n - m
  BY FS_Interval
<1> HIDE DEF Dm, Dn, New
<1>3. IsFiniteSet(Dn) /\ IsFiniteSet(Dm) /\ Cardinality(Dm) <= Cardinality(Dn)
  BY <1>1, <1>2, FS_Subset
<1>4. /\ IsFiniteSet(Dm \cup New)
      /\ Cardinality(Dm \cup New) = Cardinality(Dm) + Cardinality(New) - Cardinality(Dm \cap New)
  BY <1>2, <1>3, FS_Union
<1>5. Cardinality(Dn) <= Cardinality(Dm \cup New)
  BY <1>1, <1>4, FS_Subset
<1>6. IsFiniteSet(Dm \cap New)
  BY <1>3, FS_Intersection
<1>7. /\ Cardinality(Dm) \in Nat /\ Cardinality(Dn) \in Nat
      /\ Cardinality(Dm \cap New) \in Nat
  BY <1>3, <1>6, FS_CardinalityType
<1>8. Cardinality(Dn) <= Cardinality(Dm) + (n - m)
  BY <1>2, <1>4, <1>5, <1>7
<1> QED BY <1>1, <1>3, <1>7, <1>8 DEF Dm, Dn

\* A query finds what the filter demands among the rows that it saw.
LEMMA RowsAreThose ==
  ASSUME TypeOK, SeenSince, asked # NoQuestion, NEW q \in Query, asked.seen[q] # Null
  PROVE  /\ asked.since \in Nat /\ asked.seen[q] \in Nat /\ Len(log) \in Nat
         /\ asked.since <= asked.seen[q] /\ asked.seen[q] <= Len(log)
         /\ Rows(q) = DemandedAmong(asked.seen[q])
<1>1. asked \in Question
  BY DEF TypeOK
<1>2. /\ asked.since \in Nat /\ asked.seen[q] \in Nat /\ Len(log) \in Nat
      /\ asked.since <= asked.seen[q] /\ asked.seen[q] <= Len(log)
  BY <1>1 DEF SeenSince, Question, TypeOK
<1> DEFINE k == asked.seen[q]
<1>3. \A i \in 1 .. k : log[i] \in Entry
  BY <1>2 DEF TypeOK
<1>4. \A i \in 1 .. k : Matches(log[i], Where) <=> Demanded(log[i], asked.filter)
  BY <1>1, <1>3, FilterFaithful
<1>5. Found(k, Where) = DemandedAmong(k)
  BY <1>4 DEF Found, DemandedAmong
<1> QED BY <1>2, <1>5 DEF Rows

\* The answers of list and listForExport hold what was asked for.
LEMMA PagesHold ==
  ASSUME TypeOK, SeenSince, Answered, asked.op \in {"list", "export"}
  PROVE  LET items == IF asked.op = "list" THEN ListItems ELSE ExportItems
             skip == IF asked.op = "list" THEN asked.window.skip ELSE 0
             size == IF asked.op = "list" THEN PageSize ELSE MaxExportSize
             wanted == DemandedAmong(asked.seen["items"])
         IN /\ items \subseteq wanted
            /\ \A i, k \in items : \A j \in wanted : i < j /\ j < k => j \in items
            /\ IF Cardinality(wanted) <= skip THEN items = {}
               ELSE Cardinality(items) = Least(size, Cardinality(wanted) - skip)
<1> DEFINE items == IF asked.op = "list" THEN ListItems ELSE ExportItems
           skip == IF asked.op = "list" THEN asked.window.skip ELSE 0
           size == IF asked.op = "list" THEN PageSize ELSE MaxExportSize
           n == asked.seen["items"]
           wanted == DemandedAmong(n)
           sort == asked.filter.sort
<1>1. asked \in Question /\ asked # NoQuestion /\ "items" \in Query /\ n # Null
  BY DEF Answered, TypeOK, Query, Queries
<1>2. n \in Nat /\ Rows("items") = wanted
  BY <1>1, RowsAreThose
<1>3. wanted \in SUBSET (1 .. n)
  BY DEF DemandedAmong
<1>4. skip \in Nat /\ size \in Nat \ {0}
  <2>1. asked.window.skip \in Nat /\ asked.window.take \in Nat \ {0}
    BY <1>1, AuditAssumption DEF Question
  <2>2. MaxPageSize \in Nat \ {0} /\ MaxExportSize \in Nat \ {0}
    BY AuditAssumption
  <2> QED BY <2>1, <2>2 DEF PageSize, Least
<1>5. items = Page(wanted, sort, skip, size)
  BY <1>2 DEF ListItems, ExportItems
<1> HIDE DEF skip, size, n, wanted, sort, items
<1>6. items \subseteq wanted
  BY <1>5 DEF Page
<1>7. \A i, k \in items : \A j \in wanted : i < j /\ j < k => j \in items
  BY <1>2, <1>3, <1>4, <1>5, PageWhole
<1>8. IF Cardinality(wanted) <= skip THEN items = {}
      ELSE Cardinality(items) = Least(size, Cardinality(wanted) - skip)
  BY <1>2, <1>3, <1>4, <1>5, PageFills
<1> QED BY <1>6, <1>7, <1>8, Zenon DEF items, skip, size, n, wanted

LEMMA ExportTells ==
  ASSUME TypeOK, SeenSince, Answered, asked.op = "export"
  PROVE  /\ ~Truncated =>
              LET missing == DemandedAmong(asked.since) \ ExportItems
                  between == asked.seen["items"] - asked.seen["total"]
              IN missing # {} => Cardinality(missing) <= between
         /\ Truncated => DemandedAmong(Len(log)) # ExportItems
<1> DEFINE s == asked.since
           m == asked.seen["total"]
           n == asked.seen["items"]
           wanted == DemandedAmong(n)
           L == MaxExportSize
<1>1. asked \in Question /\ asked # NoQuestion /\ {"items", "total"} \subseteq Query
  BY DEF Answered, TypeOK, Query
<1>2. asked.seen["items"] # Null /\ asked.seen["total"] # Null
  BY DEF Answered, Queries
<1>3. /\ s \in Nat /\ m \in Nat /\ n \in Nat /\ Len(log) \in Nat
      /\ s <= m /\ s <= n /\ m <= Len(log) /\ n <= Len(log)
  BY <1>1, <1>2, RowsAreThose
<1>4. L \in Nat \ {0}
  BY AuditAssumption
<1>5. Rows("total") = DemandedAmong(m) /\ Rows("items") = wanted
  BY <1>1, <1>2, RowsAreThose
<1>6. Total = Cardinality(DemandedAmong(m)) /\ ExportItems = Page(wanted, asked.filter.sort, 0, L)
  BY <1>5 DEF Total, ExportItems
<1>7. wanted \subseteq 1 .. n /\ DemandedAmong(s) \subseteq wanted
  BY <1>3, RowsCount
<1>8. /\ Cardinality(DemandedAmong(m)) \in Nat /\ Cardinality(wanted) \in Nat
      /\ Cardinality(DemandedAmong(m)) <= Cardinality(DemandedAmong(Len(log)))
      /\ Cardinality(DemandedAmong(Len(log))) \in Nat
  BY <1>3, RowsCount
<1>9. Cardinality(wanted) <= Cardinality(DemandedAmong(m))
      \/ (m <= n /\ Cardinality(wanted) <= Cardinality(DemandedAmong(m)) + (n - m))
  <2>1. CASE m <= n
    BY <1>3, <2>1, RowsCount
  <2>2. CASE n <= m
    BY <1>3, <2>2, RowsCount
  <2> QED BY <1>3, <2>1, <2>2
<1> HIDE DEF s, m, n, wanted, L
<1> DEFINE out == wanted \ ExportItems
           missing == DemandedAmong(s) \ ExportItems
<1>10. ASSUME ~Truncated, missing # {} PROVE Cardinality(missing) <= n - m
  <2>1. missing \subseteq out /\ out # {}
    BY <1>7, <1>10
  <2>2. IsFiniteSet(out) /\ Cardinality(out) <= Cardinality(wanted) - L
    BY <1>3, <1>4, <1>6, <1>7, <2>1, PageLeavesOut
  <2> HIDE DEF out, missing
  <2>3. /\ IsFiniteSet(missing) /\ Cardinality(missing) <= Cardinality(out)
        /\ Cardinality(missing) \in Nat /\ Cardinality(out) \in Nat
        /\ Cardinality(missing) # 0
    BY <1>10, <2>1, <2>2, FS_Subset, FS_CardinalityType, FS_EmptySet
  <2>4. Cardinality(DemandedAmong(m)) <= L
    BY <1>4, <1>6, <1>8, <1>10 DEF Truncated, L
  <2> QED BY <1>3, <1>4, <1>8, <1>9, <2>2, <2>3, <2>4
<1>11. ASSUME Truncated PROVE DemandedAmong(Len(log)) # ExportItems
  <2>1. Cardinality(DemandedAmong(m)) > L
    BY <1>6, <1>11 DEF Truncated, L
  <2>2. Cardinality(ExportItems) <= L
    BY <1>3, <1>4, <1>6, <1>7, PageBounded
  <2> SUFFICES ASSUME DemandedAmong(Len(log)) = ExportItems PROVE FALSE
    OBVIOUS
  <2>3. Cardinality(DemandedAmong(Len(log))) <= L
    BY <2>2
  <2> QED BY <1>4, <1>8, <2>1, <2>3
<1>12. ~Truncated => (missing # {} => Cardinality(missing) <= n - m)
  BY <1>10
<1>13. Truncated => DemandedAmong(Len(log)) # ExportItems
  BY <1>11
<1> QED BY <1>12, <1>13, Zenon DEF s, m, n, missing

\* An export that is not marked truncated lacks no more rows than were recorded between its
\* count and its reading; one that is marked does lack some.
THEOREM ExportsTold == Spec => []ExportsTell
<1>1. Init => SeenSince
  BY DEF Init, SeenSince
<1>2. TypeOK /\ SeenSince => ExportsTell
  BY ExportTells DEF ExportsTell
<1> QED BY <1>1, <1>2, TypeCorrect, SeenStep, PTL DEF Spec

\* A page holds what was asked for and nothing else, in one piece, as many rows as there are
\* from its beginning up to its size.
THEOREM PagesFitted == Spec => []PagesFit
<1>1. Init => SeenSince
  BY DEF Init, SeenSince
<1>2. TypeOK /\ SeenSince => PagesFit
  BY PagesHold DEF PagesFit
<1> QED BY <1>1, <1>2, TypeCorrect, SeenStep, PTL DEF Spec

\* AuditService.list and listForExport, whatever the limits, the filters and the windows.
THEOREM AnswersCorrect == Spec => []AnswersFit
BY TypeCorrect, PagesFitted, ExportsTold, PTL DEF AnswersFit

-----------------------------------------------------------------------------
(***************************************************************************)
(* Indicators.                                                              *)
(***************************************************************************)
\* Of two sets of rows, one that holds the rows of the other as far as it saw them has
\* fewer of its kind only by what was recorded since.
LEMMA CountWithin ==
  ASSUME NEW a \in Nat, NEW b \in Nat, NEW since \in Nat, NEW top \in Nat,
         since <= b, since <= a, b <= top, a <= top,
         NEW A \in SUBSET (1 .. a), NEW B \in SUBSET (1 .. b),
         \A i \in A : i <= b => i \in B
  PROVE  /\ IsFiniteSet(A) /\ IsFiniteSet(B) /\ Cardinality(A) \in Nat /\ Cardinality(B) \in Nat
         /\ Cardinality(A) <= Cardinality(B) + (top - since)
<1> DEFINE New == (b + 1) .. a
<1>1. A \subseteq B \cup New
  OBVIOUS
<1>2. /\ IsFiniteSet(1 .. a) /\ IsFiniteSet(1 .. b) /\ IsFiniteSet(New)
      /\ Cardinality(New) <= top - since
  <2>1. b + 1 \in Int /\ a \in Int /\ b \in Int /\ 1 \in Int
    OBVIOUS
  <2>2. /\ IsFiniteSet(1 .. a) /\ IsFiniteSet(1 .. b) /\ IsFiniteSet(New)
        /\ Cardinality(New) = IF b + 1 > a THEN 0 ELSE a - (b + 1) + 1
    BY <2>1, FS_Interval, Zenon
  <2> QED BY <2>2
<1> HIDE DEF New
<1>3. IsFiniteSet(A) /\ IsFiniteSet(B)
  BY <1>2, FS_Subset
<1>4. /\ IsFiniteSet(B \cup New) /\ IsFiniteSet(B \cap New)
      /\ Cardinality(B \cup New) = Cardinality(B) + Cardinality(New) - Cardinality(B \cap New)
  BY <1>2, <1>3, FS_Union, FS_Intersection
<1>5. Cardinality(A) <= Cardinality(B \cup New)
  BY <1>1, <1>4, FS_Subset
<1>6. /\ Cardinality(A) \in Nat /\ Cardinality(B) \in Nat /\ Cardinality(New) \in Nat
      /\ Cardinality(B \cap New) \in Nat
  BY <1>2, <1>3, <1>4, FS_CardinalityType
<1>7. Cardinality(A) <= Cardinality(B) + (top - since)
  BY <1>2, <1>4, <1>5, <1>6
<1> QED BY <1>3, <1>6, <1>7

LEMMA ActionsFinite == IsFiniteSet(Action)
<1> DEFINE Kinds == ((({"Projet", "Membres"} \cup {"Taches", "Documents"})
                       \cup {"Planning", "Comptes"}) \cup {"Suivi", "Agenda"}) \cup {"none"}
           Ranks == ({"critical", "warning"} \cup {"info"}) \cup {"recurrence", "template"}
<1>1. \A a, b : IsFiniteSet({a, b})
  <2> SUFFICES ASSUME NEW a, NEW b PROVE IsFiniteSet({a, b})
    OBVIOUS
  <2>1. {a, b} = {a} \cup {b}
    OBVIOUS
  <2>2. IsFiniteSet({a}) /\ IsFiniteSet({b})
    BY FS_Singleton
  <2>3. IsFiniteSet({a} \cup {b})
    BY <2>2, FS_Union
  <2> QED BY <2>1, <2>3
<1>2. \A a : IsFiniteSet({a})
  BY FS_Singleton
<1>3. IsFiniteSet(Kinds)
  <2>1. IsFiniteSet({"Projet", "Membres"} \cup {"Taches", "Documents"})
    BY <1>1, FS_Union
  <2>2. IsFiniteSet(({"Projet", "Membres"} \cup {"Taches", "Documents"})
                      \cup {"Planning", "Comptes"})
    BY <1>1, <2>1, FS_Union
  <2>3. IsFiniteSet((({"Projet", "Membres"} \cup {"Taches", "Documents"})
                       \cup {"Planning", "Comptes"}) \cup {"Suivi", "Agenda"})
    BY <1>1, <2>2, FS_Union
  <2> QED BY <1>2, <2>3, FS_Union
<1>4. IsFiniteSet(Ranks)
  <2>1. IsFiniteSet({"critical", "warning"} \cup {"info"})
    BY <1>1, <1>2, FS_Union
  <2> QED BY <1>1, <2>1, FS_Union
<1>5. Action \subseteq Kinds \X Ranks
  BY DEF Action, Catalog, ProjectActions, WorkActions, PlanningActions, PeopleActions,
         RecurrenceAction, TemplateAction
<1> HIDE DEF Kinds, Ranks
<1>6. IsFiniteSet(Kinds \X Ranks)
  BY <1>3, <1>4, FS_Product
<1> QED BY <1>5, <1>6, FS_Subset

\* The count of every action and the count of all are of the same rows.
LEMMA ListedIs ==
  ASSUME TypeOK, SeenSince, asked # NoQuestion, asked.seen["byAction"] # Null
  PROVE  SumFunction(ByAction) = Cardinality(Rows("byAction"))
<1> DEFINE R == Rows("byAction")
           one == [i \in R |-> 1]
           sort == [i \in R |-> log[i].action]
           g == ByAction
<1>1. /\ asked.seen["byAction"] \in Nat /\ asked.seen["byAction"] <= Len(log) /\ Len(log) \in Nat
      /\ R = DemandedAmong(asked.seen["byAction"])
  <2>1. "byAction" \in Query
    BY DEF Query
  <2> QED BY <2>1, RowsAreThose
<1>2. R \subseteq 1 .. asked.seen["byAction"]
  BY <1>1 DEF DemandedAmong
<1>3. IsFiniteSet(R)
  <2>1. IsFiniteSet(1 .. asked.seen["byAction"])
    BY <1>1, FS_Interval
  <2> HIDE DEF R
  <2> QED BY <1>2, <2>1, FS_Subset
<1>4. \A i \in R : log[i] \in Entry
  BY <1>1, <1>2 DEF TypeOK
<1>5. \A i \in R : sort[i] \in Action
  BY <1>4 DEF Entry
<1>6. ASSUME NEW a \in Action PROVE g[a] = SumFunctionOnSet(one, {i \in R : sort[i] = a})
  <2> DEFINE T == {i \in R : sort[i] = a}
  <2>1. T = {i \in R : log[i].action = a}
    OBVIOUS
  <2>2. IsFiniteSet(T) /\ Always(one, T, 1)
    BY <1>3, FS_Subset DEF Always
  <2>3. g[a] = Cardinality(T)
    BY <2>1 DEF ByAction
  <2> HIDE DEF T, one
  <2>4. SumFunctionOnSet(one, T) = Cardinality(T)
    BY <2>2, SumOfOnes
  <2> QED BY <2>3, <2>4 DEF T
<1>7. Always(one, R, 1) /\ Whole(one, R)
  BY DEF Always, Whole
<1>8. DOMAIN g = Action
  BY DEF ByAction
<1> HIDE DEF R, one, sort, g
<1>9. Parted(one, sort, g, R, Action)
  BY <1>5, <1>6 DEF Parted
<1>10. SumFunctionOnSet(g, Action) = SumFunctionOnSet(one, R)
  BY <1>3, <1>7, <1>9, ActionsFinite, SumByParts
<1>11. SumFunctionOnSet(one, R) = Cardinality(R)
  BY <1>3, <1>7, SumOfOnes
<1>12. SumFunction(g) = Cardinality(R)
  BY <1>8, <1>10, <1>11 DEF SumFunction
<1> QED BY <1>12 DEF g, R

LEMMA FiguresHold ==
  ASSUME TypeOK, SeenSince, Answered, asked.op = "stats"
  PROVE  FiguresAgree
<1> DEFINE f == asked.filter
           s == asked.since
           top == Len(log)
           slack == top - s
           t == asked.seen["total"]
           b == asked.seen["byAction"]
           d == asked.seen["today"]
           w == asked.seen["week"]
           o == asked.seen["overall"]
           u == asked.seen["authors"]
<1>1. asked \in Question /\ asked # NoQuestion
  BY DEF Answered, TypeOK
<1>2. {"total", "overall", "today", "week", "byAction", "authors"} \subseteq Query
  BY DEF Query
<1>3. \A q \in {"total", "overall", "today", "week", "byAction", "authors"} :
        asked.seen[q] # Null
  BY DEF Answered, Queries
<1>4. \A q \in {"total", "overall", "today", "week", "byAction", "authors"} :
        /\ s \in Nat /\ asked.seen[q] \in Nat /\ top \in Nat
        /\ s <= asked.seen[q] /\ asked.seen[q] <= top
        /\ Rows(q) = DemandedAmong(asked.seen[q])
  BY <1>1, <1>2, <1>3, RowsAreThose
<1>5. /\ s \in Nat /\ top \in Nat
      /\ t \in Nat /\ s <= t /\ t <= top /\ b \in Nat /\ s <= b /\ b <= top
      /\ d \in Nat /\ s <= d /\ d <= top /\ w \in Nat /\ s <= w /\ w <= top
      /\ o \in Nat /\ s <= o /\ o <= top /\ u \in Nat /\ s <= u /\ u <= top
      /\ Rows("total") = DemandedAmong(t) /\ Rows("byAction") = DemandedAmong(b)
      /\ Rows("authors") = DemandedAmong(u)
  BY <1>4
<1>6. \A i \in 1 .. top : log[i] \in Entry
  BY DEF TypeOK
<1>7. \A n \in Nat : DemandedAmong(n) \subseteq 1 .. n
  BY DEF DemandedAmong
<1> DEFINE DT == DemandedAmong(t)
           DB == DemandedAmong(b)
           FD == Found(d, From(startOfDay))
           FW == Found(w, From(sevenDaysAgo))
<1>8. DT \in SUBSET (1 .. t) /\ DB \in SUBSET (1 .. b)
      /\ FD \in SUBSET (1 .. d) /\ FW \in SUBSET (1 .. w)
  BY DEF DemandedAmong, Found
<1>9. /\ \A i \in DT : i <= b => i \in DB
      /\ \A i \in DB : i <= t => i \in DT
  BY DEF DemandedAmong
<1>10. Total = Cardinality(DT) /\ SumFunction(ByAction) = Cardinality(DB)
       /\ Today = Cardinality(FD) /\ LastSevenDays = Cardinality(FW) /\ Overall = o
  BY <1>1, <1>3, <1>5, ListedIs DEF Total, Today, LastSevenDays, Overall
<1>11. ASSUME NEW i \in FD, i <= w PROVE i \in FW
  <2>1. i \in 1 .. w /\ log[i] \in Entry /\ i \in 1 .. top
    BY <1>5, <1>6, <1>8, <1>11
  <2>2. Matches(log[i], From(startOfDay))
    BY DEF Found
  <2>3. startOfDay \in Nat /\ sevenDaysAgo \in Int /\ sevenDaysAgo <= startOfDay
    <3>1. asked.at \in Nat /\ PerDay \in Nat \ {0} /\ Week \in Nat \ {0}
      BY <1>1, AuditAssumption DEF Question
    <3>2. asked.at % PerDay \in 0 .. (PerDay - 1) /\ asked.at % PerDay <= asked.at
      BY <3>1
    <3>3. Week * PerDay \in Nat /\ Week * PerDay >= PerDay
      BY <3>1
    <3> QED BY <3>1, <3>2, <3>3 DEF startOfDay, sevenDaysAgo
  <2>4. log[i].at \in Nat /\ log[i].at >= startOfDay
    BY <2>1, <2>2, <2>3, AuditAssumption DEF Matches, From, Entry, Where, buildWhere
  <2>5. Matches(log[i], From(sevenDaysAgo))
    BY <2>2, <2>3, <2>4 DEF Matches, From, Where, buildWhere
  <2> QED BY <2>1, <2>5 DEF Found
<1>12. ASSUME f.from = Null, f.period = Null, f.to = Null, NEW i \in FW, i <= t
       PROVE  i \in DT
  <2>1. i \in 1 .. t /\ log[i] \in Entry
    BY <1>5, <1>6, <1>8, <1>12
  <2>2. Matches(log[i], From(sevenDaysAgo))
    BY DEF Found
  <2>3. Where.from = Null /\ Where.to = Null
    BY <1>12 DEF Where, buildWhere, periodStart
  <2>4. Matches(log[i], Where)
    BY <2>2, <2>3 DEF Matches, From, Where, buildWhere
  <2>5. Demanded(log[i], f)
    BY <1>1, <2>1, <2>4, FilterFaithful
  <2> QED BY <2>1, <2>5 DEF DemandedAmong
<1>13. ASSUME f.users = {} PROVE DistinctActors <= Cardinality(DemandedAmong(top))
  <2> DEFINE A == Found(u, [Where EXCEPT !.users = Person])
             T == {log[i].user : i \in A}
             act == [i \in A |-> log[i].user]
  <2>1. [Where EXCEPT !.users = Person] = Where
    BY <1>13 DEF Where, buildWhere
  <2>2. A = DemandedAmong(u)
    BY <1>5, <2>1 DEF Rows
  <2>3. /\ IsFiniteSet(DemandedAmong(u)) /\ Cardinality(DemandedAmong(u)) \in Nat
        /\ Cardinality(DemandedAmong(top)) \in Nat
        /\ Cardinality(DemandedAmong(u)) <= Cardinality(DemandedAmong(top))
    BY <1>5, RowsCount
  <2>4. act \in Surjection(A, T)
    BY DEF Surjection
  <2>5. DistinctActors = Cardinality(T)
    BY DEF DistinctActors
  <2> HIDE DEF A, T, act
  <2>6. Cardinality(T) <= Cardinality(A) /\ IsFiniteSet(T)
    BY <2>2, <2>3, <2>4, FS_Surjection
  <2>7. Cardinality(T) \in Nat
    BY <2>6, FS_CardinalityType
  <2> QED BY <2>2, <2>3, <2>5, <2>6, <2>7
<1>14. Cardinality(DT) <= o + slack
  <2>1. IsFiniteSet(1 .. t) /\ Cardinality(1 .. t) = t
    <3>1. 1 \in Int /\ t \in Int /\ t \in Nat
      BY <1>5
    <3>2. IsFiniteSet(1 .. t) /\ Cardinality(1 .. t) = IF 1 > t THEN 0 ELSE t - 1 + 1
      BY <3>1, FS_Interval, Zenon
    <3> HIDE DEF t
    <3> QED BY <3>1, <3>2
  <2>2. Cardinality(DT) <= t
    BY <1>8, <2>1, FS_Subset
  <2>3. Cardinality(DT) \in Nat
    BY <1>5, RowsCount
  <2> QED BY <1>5, <2>2, <2>3
<1> HIDE DEF s, top, t, b, d, w, o, u, DT, DB, FD, FW
<1>15. /\ Cardinality(DT) \in Nat /\ Cardinality(DB) \in Nat
       /\ Cardinality(DT) <= Cardinality(DB) + (top - s)
       /\ Cardinality(DB) <= Cardinality(DT) + (top - s)
  BY <1>5, <1>8, <1>9, CountWithin
<1>16. Cardinality(FD) <= Cardinality(FW) + (top - s)
  BY <1>5, <1>8, <1>11, CountWithin
<1>17. ASSUME f.from = Null, f.period = Null, f.to = Null
       PROVE  Cardinality(FW) <= Cardinality(DT) + (top - s)
  <2>1. \A i \in FW : i <= t => i \in DT
    BY <1>12, <1>17
  <2> QED BY <1>5, <1>8, <2>1, CountWithin
<1>18. SumFunction(ByAction) - Total \in -slack .. slack
  BY <1>5, <1>10, <1>15
<1>19. Total <= Overall + slack /\ Today <= LastSevenDays + slack
  BY <1>10, <1>14, <1>16
<1>20. f.from = Null /\ f.period = Null /\ f.to = Null => LastSevenDays <= Total + slack
  BY <1>10, <1>17
<1>21. f.users = {} => DistinctActors <= Cardinality(DemandedAmong(top))
  BY <1>13
<1> QED BY <1>18, <1>19, <1>20, <1>21, Zenon DEF FiguresAgree, s, top

\* AuditService.getStats: whatever is recorded while they are counted, the indicators of one
\* answer agree up to that: the counts of all actions add up to the total, and a narrower
\* indicator is no greater than a wider one.
THEOREM FiguresConsistent == Spec => []FiguresAgree
<1>1. Init => SeenSince
  BY DEF Init, SeenSince
<1>2. TypeOK /\ SeenSince => FiguresAgree
  BY FiguresHold DEF FiguresAgree
<1> QED BY <1>1, <1>2, TypeCorrect, SeenStep, PTL DEF Spec

-----------------------------------------------------------------------------
(***************************************************************************)
(* Numbered lists: versions of documents and items of checklists.           *)
(***************************************************************************)
LEMMA SameCardinality == \A S : NumberedLists!Cardinality(S) = Cardinality(S)
BY DEF NumberedLists!Cardinality, Cardinality

\* Rows are used once; those of a list with a number, and the handlers about to insert one.
Used == {i \in Item : item[i].row # "none"}
Alike(l, n) == {i \in NumberedLists!Rows(l) : item[i].number = n}
Coming(l, n) ==
  {r \in Caller : listReq[r].pc = "insert" /\ listReq[r].of = l /\ listReq[r].number = n}

\* A number of a list that is beyond those of rows S.
Beyond(S, l, n) ==
  \A j \in S : item[j].row # "none" /\ (j \in NumberedLists!Rows(l) => item[j].number < n)

RowsNumbered ==
  \A i \in Item : item[i].row = "live" =>
    /\ item[i].of \in NumberedLists!List /\ item[i].number <= Cardinality(Used)
    /\ Beyond(item[i].after, item[i].of, item[i].number)
HandlersNumbered ==
  \A r \in Caller : listReq[r].pc = "insert" =>
    /\ listReq[r].of \in NumberedLists!List /\ listReq[r].number <= Cardinality(Used) + 1
    /\ Beyond(listReq[r].after, listReq[r].of, listReq[r].number)
FewAlike ==
  \A l \in NumberedLists!List, n \in Nat :
    Cardinality(Alike(l, n)) + Cardinality(Coming(l, n)) <= Cardinality(Caller)

ListInv == NumberedLists!TypeOK /\ RowsNumbered /\ HandlersNumbered /\ FewAlike

LEMMA Finite ==
  ASSUME ListAssumption
  PROVE  /\ Cardinality(Item) \in Nat /\ Cardinality(Caller) \in Nat
         /\ IsFiniteSet(Used) /\ Cardinality(Used) \in Nat /\ Cardinality(Used) <= Cardinality(Item)
         /\ \A l, n : /\ IsFiniteSet(Alike(l, n)) /\ Cardinality(Alike(l, n)) \in Nat
                      /\ IsFiniteSet(Coming(l, n)) /\ Cardinality(Coming(l, n)) \in Nat
                      /\ Cardinality(Coming(l, n)) <= Cardinality(Caller)
<1>1. IsFiniteSet(Item) /\ IsFiniteSet(Caller)
  BY DEF ListAssumption
<1>2. Used \subseteq Item /\ \A l, n : Alike(l, n) \subseteq Item /\ Coming(l, n) \subseteq Caller
  BY DEF Used, Alike, NumberedLists!Rows, Coming
<1> QED BY <1>1, <1>2, FS_Subset, FS_CardinalityType

LEMMA ListInit == ASSUME ListAssumption, NumberedLists!Init PROVE ListInv
<1>1. NumberedLists!TypeOK
  BY Finite, SameCardinality
     DEF NumberedLists!Init, NumberedLists!TypeOK, NumberedLists!NoItem, NumberedLists!Resting,
         NumberedLists!ItemRow, NumberedLists!Handler, NumberedLists!Number
<1>2. RowsNumbered /\ HandlersNumbered
  BY DEF RowsNumbered, HandlersNumbered, NumberedLists!Init, NumberedLists!NoItem,
         NumberedLists!Resting
<1>3. \A l, n : Alike(l, n) = {} /\ Coming(l, n) = {}
  BY DEF NumberedLists!Init, NumberedLists!NoItem, NumberedLists!Resting, Alike, Coming,
         NumberedLists!Rows
<1>4. FewAlike
  BY <1>3, Finite, FS_EmptySet DEF FewAlike
<1> QED BY <1>1, <1>2, <1>4 DEF ListInv

\* A row stays as it is, or is deleted for good.
Old(j) == item'[j] = item[j] \/ (item[j].row = "live" /\ item'[j].row = "deleted")

LEMMA BeyondKept ==
  ASSUME \A j \in Item : item[j].row # "none" => Old(j), NEW S \in SUBSET Item, NEW l, NEW n,
         Beyond(S, l, n)
  PROVE  Beyond(S, l, n)'
BY DEF Beyond, Old, NumberedLists!Rows

LEMMA UsedGrows ==
  ASSUME ListAssumption, \A j \in Item : item[j].row # "none" => Old(j)
  PROVE  /\ Used \subseteq Used' /\ IsFiniteSet(Used') /\ Cardinality(Used') \in Nat
         /\ Cardinality(Used) <= Cardinality(Used') /\ Cardinality(Used') <= Cardinality(Item)
<1>1. Used \subseteq Used' /\ Used' \subseteq Item
  BY DEF Used, Old
<1>2. IsFiniteSet(Item)
  BY DEF ListAssumption
<1>3. IsFiniteSet(Used') /\ Cardinality(Used') <= Cardinality(Item)
  BY <1>1, <1>2, FS_Subset
<1> QED BY <1>1, <1>3, FS_Subset, FS_CardinalityType

\* The steps that only delete, or end a handler.
LEMMA ListShrinks ==
  ASSUME ListAssumption, ListInv, NumberedLists!TypeOK', \A j \in Item : Old(j),
         \A r \in Caller : listReq'[r] = listReq[r] \/ listReq'[r] = NumberedLists!Resting
  PROVE  ListInv'
<1>1. /\ Cardinality(Used) \in Nat /\ Cardinality(Used') \in Nat
      /\ Cardinality(Used) <= Cardinality(Used')
  BY Finite, UsedGrows
<1>2. \A i \in Item : /\ item[i].after \in SUBSET Item /\ item[i].number \in Nat
                      /\ item'[i].row = "live" => item'[i] = item[i]
  BY Finite, SameCardinality
     DEF ListInv, NumberedLists!TypeOK, NumberedLists!ItemRow, NumberedLists!Number, Old
<1>3. \A r \in Caller : /\ listReq[r].after \in SUBSET Item /\ listReq[r].number \in Nat
                        /\ listReq'[r].pc = "insert" => listReq'[r] = listReq[r]
  BY Finite, SameCardinality
     DEF ListInv, NumberedLists!TypeOK, NumberedLists!Handler, NumberedLists!Number,
         NumberedLists!Resting
<1>4. RowsNumbered'
  BY <1>1, <1>2, BeyondKept DEF ListInv, RowsNumbered
<1>5. HandlersNumbered'
  BY <1>1, <1>3, BeyondKept DEF ListInv, HandlersNumbered
<1>6. FewAlike'
  <2> SUFFICES ASSUME NEW l \in NumberedLists!List, NEW n \in Nat
               PROVE  Cardinality(Alike(l, n)') + Cardinality(Coming(l, n)') <= Cardinality(Caller)
    BY DEF FewAlike
  <2>1. Alike(l, n)' \subseteq Alike(l, n)
    BY <1>2 DEF Alike, NumberedLists!Rows
  <2>2. Coming(l, n)' \subseteq Coming(l, n)
    BY <1>3 DEF Coming
  <2>3. /\ Cardinality(Alike(l, n)') \in Nat /\ Cardinality(Alike(l, n)') <= Cardinality(Alike(l, n))
        /\ Cardinality(Coming(l, n)') \in Nat
        /\ Cardinality(Coming(l, n)') <= Cardinality(Coming(l, n))
    BY <2>1, <2>2, Finite, FS_Subset, FS_CardinalityType
  <2> QED BY <2>3, Finite DEF ListInv, FewAlike
<1> QED BY <1>4, <1>5, <1>6 DEF ListInv

\* The next number of a list is beyond those of its rows.
LEMMA NextBeyond ==
  ASSUME ListAssumption, ListInv, NEW l \in NumberedLists!List
  PROVE  /\ NumberedLists!NextNumber(l) \in Nat
         /\ NumberedLists!NextNumber(l) <= Cardinality(Used) + 1
         /\ \A j \in NumberedLists!Rows(l) : item[j].number < NumberedLists!NextNumber(l)
<1> DEFINE T == {item[j].number : j \in NumberedLists!Rows(l)}
           K == Cardinality(Used)
<1>0. K \in Nat
  BY Finite
<1>1. \A j \in NumberedLists!Rows(l) : item[j].number \in 0 .. K
  BY <1>0, Finite, SameCardinality
     DEF ListInv, NumberedLists!TypeOK, NumberedLists!ItemRow, NumberedLists!Number,
         RowsNumbered, NumberedLists!Rows
<1>2. CASE NumberedLists!Rows(l) = {}
  BY <1>0, <1>2 DEF NumberedLists!NextNumber, NumberedLists!First
<1>3. CASE NumberedLists!Rows(l) # {}
  <2>1. T \in SUBSET (0 .. K) /\ T # {}
    BY <1>1, <1>3
  <2>2. NumberedLists!NextNumber(l) = NumberedLists!Max(T) + 1
    BY <1>3 DEF NumberedLists!NextNumber
  <2>3. \A j \in NumberedLists!Rows(l) : item[j].number \in T
    OBVIOUS
  <2> HIDE DEF T, K
  <2>4. \E m \in T : \A k \in T : k <= m
    BY <1>0, <2>1, FirstOf
  <2>5. \E m \in T : \A k \in T : m >= k
    BY <1>0, <2>1, <2>4
  <2>6. NumberedLists!Max(T) \in T /\ \A k \in T : NumberedLists!Max(T) >= k
    BY <2>5 DEF NumberedLists!Max
  <2>7. PICK m : m = NumberedLists!Max(T)
    OBVIOUS
  <2>8. m \in 0 .. K /\ \A j \in NumberedLists!Rows(l) : item[j].number <= m
    BY <1>0, <1>1, <2>1, <2>3, <2>6, <2>7
  <2>9. NumberedLists!NextNumber(l) = m + 1
    BY <2>2, <2>7
  <2> QED BY <1>0, <1>1, <2>8, <2>9 DEF K
<1> QED BY <1>2, <1>3

LEMMA BeginStep ==
  ASSUME ListAssumption, ListInv, NEW r \in Caller, NEW l \in NumberedLists!List,
         NumberedLists!BeginInsert(r, l)
  PROVE  ListInv'
<1> DEFINE K == Cardinality(Used)
<1>1. PICK h : h = [pc |-> "insert", of |-> l, number |-> NumberedLists!NextNumber(l),
                    after |-> NumberedLists!Rows(l)]
  OBVIOUS
<1>2. /\ item' = item /\ list' = list /\ listReq[r] = NumberedLists!Resting
      /\ listReq' = [listReq EXCEPT ![r] = h]
  BY <1>1 DEF NumberedLists!BeginInsert, NumberedLists!Accept
<1>3. /\ h.pc = "insert" /\ h.of = l /\ h.number = NumberedLists!NextNumber(l)
      /\ h.after = NumberedLists!Rows(l)
  BY <1>1
<1>4. /\ h.number \in Nat /\ h.number <= K + 1
      /\ \A j \in NumberedLists!Rows(l) : item[j].number < h.number
  BY <1>3, NextBeyond
<1>5. K \in Nat /\ K <= Cardinality(Item) /\ Cardinality(Item) \in Nat
  BY Finite
<1>6. h \in NumberedLists!Handler
  <2>1. h.number \in NumberedLists!Number
    BY <1>4, <1>5, SameCardinality DEF NumberedLists!Number
  <2>2. NumberedLists!Rows(l) \subseteq Item
    BY DEF NumberedLists!Rows
  <2> QED BY <1>1, <1>3, <2>1, <2>2 DEF NumberedLists!Handler
<1>7. NumberedLists!TypeOK'
  BY <1>2, <1>6 DEF ListInv, NumberedLists!TypeOK
<1>8. \A q \in Caller : listReq'[q] = IF q = r THEN h ELSE listReq[q]
  BY <1>2 DEF ListInv, NumberedLists!TypeOK
<1>9. Used' = Used /\ \A x, n, S : /\ Alike(x, n)' = Alike(x, n)
                                   /\ Beyond(S, x, n)' = Beyond(S, x, n)
  BY <1>2 DEF Used, Alike, Beyond, NumberedLists!Rows
<1>10. RowsNumbered'
  BY <1>2, <1>9 DEF ListInv, RowsNumbered
<1>11. Beyond(h.after, h.of, h.number)
  BY <1>3, <1>4 DEF Beyond, NumberedLists!Rows
<1>12. HandlersNumbered'
  BY <1>3, <1>4, <1>8, <1>9, <1>11 DEF ListInv, HandlersNumbered
<1>13. FewAlike'
  <2> SUFFICES ASSUME NEW x \in NumberedLists!List, NEW n \in Nat
               PROVE  Cardinality(Alike(x, n)') + Cardinality(Coming(x, n)') <= Cardinality(Caller)
    BY DEF FewAlike
  <2>1. CASE x = l /\ n = h.number
    <3>1. Alike(x, n)' = {}
      <4>1. \A j \in NumberedLists!Rows(l) : item[j].number \in Nat
        BY Finite, SameCardinality
           DEF ListInv, NumberedLists!TypeOK, NumberedLists!ItemRow, NumberedLists!Number,
               NumberedLists!Rows
      <4>2. \A j \in NumberedLists!Rows(l) : item[j].number # h.number
        BY <1>4, <4>1
      <4>3. Alike(x, n) = {}
        BY <2>1, <4>2 DEF Alike
      <4> QED BY <1>9, <4>3
    <3>2. Coming(x, n)' \subseteq Caller /\ IsFiniteSet(Caller)
      BY DEF Coming, ListAssumption
    <3>3. Cardinality(Coming(x, n)') <= Cardinality(Caller) /\ Cardinality(Coming(x, n)') \in Nat
      BY <3>2, FS_Subset, FS_CardinalityType
    <3> QED BY <3>1, <3>3, Finite, FS_EmptySet
  <2>2. CASE ~(x = l /\ n = h.number)
    <3>1. Coming(x, n)' \subseteq Coming(x, n)
      BY <1>3, <1>8, <2>2 DEF Coming
    <3>2. /\ Cardinality(Coming(x, n)') <= Cardinality(Coming(x, n))
          /\ Cardinality(Coming(x, n)') \in Nat
      BY <3>1, Finite, FS_Subset, FS_CardinalityType
    <3> QED BY <1>9, <3>2, Finite DEF ListInv, FewAlike
  <2> QED BY <2>1, <2>2
<1> QED BY <1>7, <1>10, <1>12, <1>13 DEF ListInv

\* A row takes the number its handler computed, which was beyond those it comes after.
LEMMA InsertStep ==
  ASSUME ListAssumption, ListInv, NEW r \in Caller, listReq[r].pc = "insert",
         NEW i \in Item, item[i].row = "none",
         item' = [item EXCEPT ![i] = [row |-> "live", of |-> listReq[r].of,
                    number |-> listReq[r].number, after |-> listReq[r].after]],
         listReq' = [listReq EXCEPT ![r] = NumberedLists!Resting], list' = list
  PROVE  ListInv'
<1> DEFINE h == listReq[r]
           K == Cardinality(Used)
<1>1. /\ h \in NumberedLists!Handler /\ h.of \in NumberedLists!List /\ h.number \in Nat
      /\ h.number <= K + 1 /\ h.after \in SUBSET Item /\ Beyond(h.after, h.of, h.number)
  BY Finite, SameCardinality
     DEF ListInv, NumberedLists!TypeOK, NumberedLists!Handler, NumberedLists!Number,
         HandlersNumbered
<1>2. PICK x : x = [row |-> "live", of |-> h.of, number |-> h.number, after |-> h.after]
  OBVIOUS
<1>3. /\ x \in NumberedLists!ItemRow /\ x.row = "live" /\ x.of = h.of /\ x.number = h.number
      /\ x.after = h.after
  BY <1>1, <1>2 DEF NumberedLists!ItemRow, NumberedLists!Handler
<1>4. \A j \in Item : item'[j] = IF j = i THEN x ELSE item[j]
  BY <1>2 DEF ListInv, NumberedLists!TypeOK
<1>5. \A q \in Caller : listReq'[q] = IF q = r THEN NumberedLists!Resting ELSE listReq[q]
  BY DEF ListInv, NumberedLists!TypeOK
<1>6. NumberedLists!TypeOK'
  <2>1. NumberedLists!Resting \in NumberedLists!Handler
    BY Finite, SameCardinality
       DEF NumberedLists!Resting, NumberedLists!Handler, NumberedLists!Number
  <2> QED BY <1>2, <1>3, <2>1 DEF ListInv, NumberedLists!TypeOK
<1>7. \A j \in Item : item[j].row # "none" => Old(j)
  BY <1>4 DEF Old
<1>8. Used' = Used \cup {i} /\ i \notin Used
  BY <1>3, <1>4 DEF Used
<1>9. Cardinality(Used') = K + 1 /\ K \in Nat
  BY <1>8, Finite, FS_AddElement
<1>10. \A j \in Item : item[j].after \in SUBSET Item /\ item[j].number \in Nat
  BY Finite, SameCardinality
     DEF ListInv, NumberedLists!TypeOK, NumberedLists!ItemRow, NumberedLists!Number
<1>11. \A q \in Caller : listReq[q].after \in SUBSET Item /\ listReq[q].number \in Nat
  BY Finite, SameCardinality
     DEF ListInv, NumberedLists!TypeOK, NumberedLists!Handler, NumberedLists!Number
<1>12. RowsNumbered'
  <2>1. Beyond(x.after, x.of, x.number)'
    BY <1>1, <1>3, <1>7, BeyondKept
  <2> QED BY <1>1, <1>3, <1>4, <1>7, <1>9, <1>10, <2>1, BeyondKept DEF ListInv, RowsNumbered
<1>13. HandlersNumbered'
  BY <1>5, <1>7, <1>9, <1>11, BeyondKept
     DEF ListInv, HandlersNumbered, NumberedLists!Resting
<1>14. FewAlike'
  <2> SUFFICES ASSUME NEW l \in NumberedLists!List, NEW n \in Nat
               PROVE  Cardinality(Alike(l, n)') + Cardinality(Coming(l, n)') <= Cardinality(Caller)
    BY DEF FewAlike
  <2>1. CASE l = h.of /\ n = h.number
    <3>1. Alike(l, n)' = Alike(l, n) \cup {i} /\ i \notin Alike(l, n)
      BY <1>3, <1>4, <2>1 DEF Alike, NumberedLists!Rows
    <3>2. Coming(l, n)' = Coming(l, n) \ {r} /\ r \in Coming(l, n)
      BY <1>5, <2>1 DEF Coming, NumberedLists!Resting
    <3>3. Cardinality(Alike(l, n)') = Cardinality(Alike(l, n)) + 1
      BY <3>1, Finite, FS_AddElement
    <3>4. Cardinality(Coming(l, n)') = Cardinality(Coming(l, n)) - 1
      BY <3>2, Finite, FS_RemoveElement
    <3> QED BY <3>3, <3>4, Finite DEF ListInv, FewAlike
  <2>2. CASE ~(l = h.of /\ n = h.number)
    <3>1. Alike(l, n)' = Alike(l, n)
      BY <1>3, <1>4, <2>2 DEF Alike, NumberedLists!Rows
    <3>2. Coming(l, n)' \subseteq Coming(l, n)
      BY <1>5 DEF Coming, NumberedLists!Resting
    <3>3. /\ Cardinality(Coming(l, n)') <= Cardinality(Coming(l, n))
          /\ Cardinality(Coming(l, n)') \in Nat
      BY <3>2, Finite, FS_Subset, FS_CardinalityType
    <3> QED BY <3>1, <3>3, Finite DEF ListInv, FewAlike
  <2> QED BY <2>1, <2>2
<1> QED BY <1>6, <1>12, <1>13, <1>14 DEF ListInv

LEMMA ListNext ==
  ASSUME ListAssumption, ListInv, [NumberedLists!Next]_(NumberedLists!vars)
  PROVE  ListInv'
<1>1. NumberedLists!Resting \in NumberedLists!Handler
  BY Finite, SameCardinality
     DEF NumberedLists!Resting, NumberedLists!Handler, NumberedLists!Number
<1>2. NumberedLists!TypeOK
  BY DEF ListInv
<1>3. NumberedLists!NoItem("deleted") \in NumberedLists!ItemRow
  BY Finite, SameCardinality
     DEF NumberedLists!NoItem, NumberedLists!ItemRow, NumberedLists!Number
<1>4. CASE UNCHANGED NumberedLists!vars
  <2>1. NumberedLists!TypeOK' /\ (\A j \in Item : Old(j)) /\ listReq' = listReq
    BY <1>2, <1>4 DEF NumberedLists!vars, NumberedLists!TypeOK, Old
  <2> QED BY <2>1, ListShrinks
<1>5. ASSUME NEW r \in Caller,
             NumberedLists!BeginUploadDocumentVersion(r) \/ NumberedLists!BeginAdd(r)
      PROVE  ListInv'
  BY <1>5, BeginStep
     DEF NumberedLists!BeginUploadDocumentVersion, NumberedLists!BeginAdd, NumberedLists!List
<1>6. ASSUME NEW r \in Caller, NumberedLists!Finish(r), UNCHANGED <<list, item>>
      PROVE  ListInv'
  <2>1. NumberedLists!TypeOK'
    BY <1>1, <1>2, <1>6 DEF NumberedLists!TypeOK, NumberedLists!Finish
  <2>2. \A q \in Caller : listReq'[q] = listReq[q] \/ listReq'[q] = NumberedLists!Resting
    BY <1>2, <1>6 DEF NumberedLists!TypeOK, NumberedLists!Finish
  <2>3. \A j \in Item : Old(j)
    BY <1>6 DEF Old
  <2> QED BY <2>1, <2>2, <2>3, ListShrinks
<1>7. ASSUME NEW r \in Caller, NumberedLists!Insert(r)
      PROVE  ListInv'
  <2>1. CASE listReq[r].of \in list
    BY <1>7, <2>1, InsertStep DEF NumberedLists!Insert, NumberedLists!Finish
  <2>2. CASE listReq[r].of \notin list
    BY <1>6, <1>7, <2>2 DEF NumberedLists!Insert
  <2> QED BY <2>1, <2>2
<1>8. ASSUME NEW r \in Caller, NumberedLists!Abort(r)
      PROVE  ListInv'
  BY <1>6, <1>8 DEF NumberedLists!Abort
<1>9. CASE NumberedLists!Remove
  <2>1. PICK t \in Task : \E i \in NumberedLists!Rows(t) :
          item' = [item EXCEPT ![i] = NumberedLists!NoItem("deleted")]
    BY <1>9 DEF NumberedLists!Remove
  <2>2. PICK i \in Item :
          item[i].row = "live" /\ item' = [item EXCEPT ![i] = NumberedLists!NoItem("deleted")]
    BY <2>1 DEF NumberedLists!Rows
  <2>3. UNCHANGED <<list, listReq>>
    BY <1>9 DEF NumberedLists!Remove
  <2>4. NumberedLists!TypeOK' /\ \A j \in Item : Old(j)
    BY <1>2, <1>3, <2>2, <2>3 DEF NumberedLists!TypeOK, Old, NumberedLists!NoItem
  <2> QED BY <2>3, <2>4, ListShrinks
<1>10. CASE NumberedLists!DeleteDocument \/ NumberedLists!DeleteTask
  <2>1. PICK l : NumberedLists!Delete(l)
    BY <1>10 DEF NumberedLists!DeleteDocument, NumberedLists!DeleteTask
  <2>2. NumberedLists!TypeOK' /\ \A j \in Item : Old(j)
    BY <1>2, <1>3, <2>1
       DEF NumberedLists!Delete, NumberedLists!TypeOK, Old, NumberedLists!NoItem,
           NumberedLists!Rows
  <2>3. listReq' = listReq
    BY <2>1 DEF NumberedLists!Delete
  <2> QED BY <2>2, <2>3, ListShrinks
<1> QED BY <1>4, <1>5, <1>7, <1>8, <1>9, <1>10 DEF NumberedLists!Next

LEMMA ListOrdered ==
  ASSUME ListAssumption, ListInv
  PROVE  NumberedLists!TypeOK /\ NumberedLists!NumberedInOrder
<1> SUFFICES ASSUME NEW i \in Item, item[i].row = "live"
             PROVE  LET mates == NumberedLists!Rows(item[i].of) IN
                    /\ \A j \in mates \cap item[i].after : item[j].number < item[i].number
                    /\ NumberedLists!Cardinality({j \in mates : item[j].number = item[i].number})
                         <= NumberedLists!Cardinality(Caller)
  BY DEF ListInv, NumberedLists!NumberedInOrder
<1>1. /\ item[i].of \in NumberedLists!List /\ item[i].number \in Nat
      /\ Beyond(item[i].after, item[i].of, item[i].number)
  BY Finite, SameCardinality
     DEF ListInv, RowsNumbered, NumberedLists!TypeOK, NumberedLists!ItemRow, NumberedLists!Number
<1>2. Cardinality(Alike(item[i].of, item[i].number)) <= Cardinality(Caller)
  BY <1>1, Finite DEF ListInv, FewAlike
<1> QED BY <1>1, <1>2, SameCardinality DEF Beyond, Alike

\* However many versions of a document are uploaded or items added at the same time, and
\* whatever is removed meanwhile, a row comes after those that were there when its request
\* began, and a number is shared by no more rows than there are handlers at once.
THEOREM ListsNumbered == NumberedLists!Spec => []ListsWellFormed
<1>1. NumberedLists!Init => ListInv
  BY ListInit, ListAssumption
<1>2. ListInv /\ [NumberedLists!Next]_(NumberedLists!vars) => ListInv'
  BY ListNext, ListAssumption
<1>3. ListInv => ListsWellFormed
  BY ListOrdered, ListAssumption DEF ListsWellFormed
<1> QED BY <1>1, <1>2, <1>3, PTL DEF NumberedLists!Spec

-----------------------------------------------------------------------------
(***************************************************************************)
(* Notices: who is told of an event.                                        *)
(***************************************************************************)
\* How far user u is with announcement a of event e, what of it is in the tables.
SoundFor(e, a, u) ==
  /\ notices[u][e] = IF a.how[u] \in Notices!Got THEN 1 ELSE 0
  /\ e \in pushed[u] => a.how[u] \in Notices!Got
  /\ e \in mailed[u] => a.how[u] = "done"
  /\ a.how[u] # "no" => u \in a.ever /\ (u = a.actor => a.kind = "PROJECT_MEMBER_ADDED")
  /\ a.pc \in {"none", "lookup"} => a.how[u] = "no"
  /\ a.how[u] \in {"settings", "push", "quiet"} => a.pc = "sending"
  /\ a.how[u] \in {"mail", "done"} => a.pc \in {"mailing", "lost"}
  /\ a.pc = "sending" /\ a.how[u] = "no" /\ (u = a.actor => a.kind = "PROJECT_MEMBER_ADDED") =>
       u \notin a.always
  /\ u \notin a.retuned =>
       /\ a.how[u] = "push" => Notices!InRealTime(u)
       /\ a.how[u] = "quiet" => ~Notices!InRealTime(u)
       /\ a.how[u] \in Notices!Got => (e \in pushed[u] <=> Notices!InRealTime(u))
       /\ a.how[u] \in {"mail", "done"} /\ a.kind = "TASK_ASSIGNED" => Notices!ByMail(u)
       /\ a.pc = "mailing" /\ a.how[u] = "sent" =>
            a.kind = "TASK_ASSIGNED" /\ ~Notices!ByMail(u)

\* Once e-mails are sent, everybody named has their notice.
Mailed(a) ==
  a.pc = "mailing" \/ (\E u \in Reader : a.how[u] \in {"mail", "done"}) =>
    /\ a.kind \in Notices!Mailing
    /\ \A v \in a.named : (v = a.actor => a.kind = "PROJECT_MEMBER_ADDED") =>
         a.how[v] \in Notices!Got

\* Those concerned, until they are looked up, are among those who ever were.
Scope(a) ==
  /\ a.pc = "lookup" =>
       a.always \subseteq Notices!Concerned(a) /\ Notices!Concerned(a) \subseteq a.ever
  /\ a.kind \in Notices!Naming => a.always = a.named /\ a.ever = a.named

Sound(e, a) == Scope(a) /\ Mailed(a) /\ \A u \in Reader : SoundFor(e, a, u)
NoticesInv == Notices!TypeOK /\ \A e \in Event : Sound(e, event[e])

LEMMA NoticesTold == NoticesInv => NoticesReachAudience
<1> SUFFICES ASSUME NoticesInv, NEW e \in Event, NEW u \in Reader
             PROVE  LET a == event[e] IN
                    /\ notices[u][e] <= (IF u \in a.ever THEN 1 ELSE 0)
                    /\ notices[u][e] > 0 /\ u = a.actor => a.kind = "PROJECT_MEMBER_ADDED"
                    /\ notices[u][e] > 0 /\ u \notin a.retuned =>
                         (e \in pushed[u] <=> Notices!InRealTime(u))
                    /\ a.pc = "sending" /\ a.how[u] = "no" => u \notin a.always \ {a.actor}
                    /\ e \in mailed[u] =>
                         \A v \in {u} \cup Notices!Recipients(a) : notices[v][e] = 1
                    /\ e \in mailed[u] /\ a.kind = "TASK_ASSIGNED" /\ u \notin a.retuned =>
                         Notices!ByMail(u)
                    /\ a.pc = "mailing" /\ u \in Notices!Recipients(a) /\ u \notin a.retuned =>
                         (a.how[u] = "sent" <=> a.kind = "TASK_ASSIGNED" /\ ~Notices!ByMail(u))
  BY DEF NoticesInv, NoticesReachAudience, Notices!NoticesReachAudience,
         Notices!EmailsFollowNotices
<1>1. /\ \A v \in Reader : SoundFor(e, event[e], v)
      /\ Mailed(event[e]) /\ event[e] \in Notices!Announcement
  BY DEF NoticesInv, Sound, Notices!TypeOK
<1>2. event[e].pc = "mailing" \/ (\E v \in Reader : event[e].how[v] \in {"mail", "done"}) =>
        \A v \in Notices!Recipients(event[e]) : v \in Reader /\ event[e].how[v] \in Notices!Got
  <2>1. event[e].kind \in Notices!Mailing => Notices!Concerned(event[e]) = event[e].named
    BY DEF Notices!Mailing, Notices!Naming, Notices!Concerned
  <2>2. event[e].named \subseteq Reader
    BY <1>1 DEF Notices!Announcement
  <2> QED BY <1>1, <2>1, <2>2 DEF Mailed, Notices!Recipients
<1>3. e \in mailed[u] => \A v \in {u} \cup Notices!Recipients(event[e]) : notices[v][e] = 1
  BY <1>1, <1>2 DEF SoundFor, Notices!Got
<1> QED BY <1>1, <1>2, <1>3 DEF SoundFor, Notices!Got

LEMMA NoticesStart == Notices!Init => NoticesInv
<1> SUFFICES ASSUME Notices!Init PROVE NoticesInv
  OBVIOUS
<1>1. Notices!NoEvent \in Notices!Announcement
  BY DEF Notices!NoEvent, Notices!Announcement, Notices!How
<1>2. Notices!TypeOK
  BY <1>1 DEF Notices!Init, Notices!TypeOK
<1>3. ASSUME NEW e \in Event
      PROVE  Sound(e, event[e])
  BY DEF Notices!Init, Notices!NoEvent, Sound, Scope, Mailed, SoundFor, Notices!Naming,
         Notices!Got
<1> QED BY <1>2, <1>3 DEF NoticesInv

\* What an announcement is, is judged by its own entries in the tables.
LEMMA SoundSame ==
  ASSUME UNCHANGED <<audience, setting>>, NEW q,
         \A u \in Reader : /\ notices'[u][q] = notices[u][q]
                           /\ q \in pushed'[u] <=> q \in pushed[u]
                           /\ q \in mailed'[u] <=> q \in mailed[u]
  PROVE  \A a : Sound(q, a) => Sound(q, a)'
BY DEF Sound, Scope, Mailed, SoundFor, Notices!Concerned, Notices!InRealTime, Notices!ByMail

\* A step of one announcement leaves the others alone.
LEMMA OneMoves ==
  ASSUME NoticesInv, Notices!TypeOK', UNCHANGED <<audience, setting>>, NEW e \in Event,
         NEW a, event' = [event EXCEPT ![e] = a], Sound(e, a)',
         \A u \in Reader, q \in Event \ {e} : /\ notices'[u][q] = notices[u][q]
                                              /\ q \in pushed'[u] <=> q \in pushed[u]
                                              /\ q \in mailed'[u] <=> q \in mailed[u]
  PROVE  NoticesInv'
<1>1. event'[e] = a /\ \A q \in Event \ {e} : event'[q] = event[q]
  BY DEF NoticesInv, Notices!TypeOK
<1>2. ASSUME NEW q \in Event \ {e}
      PROVE  Sound(q, event[q])'
  <2>1. Sound(q, event[q])
    BY DEF NoticesInv
  <2> QED BY <1>1, <2>1, SoundSame
<1> QED BY <1>1, <1>2 DEF NoticesInv

LEMMA AnnounceStep ==
  ASSUME NoticesInv, NEW e \in Event, Notices!Announce(e) PROVE NoticesInv'
<1>1. PICK kind \in Notices!Kind, actor \in Reader, named \in SUBSET Reader :
        LET a == [Notices!NoEvent EXCEPT !.pc = "lookup", !.kind = kind, !.actor = actor,
                                         !.named = named]
        IN /\ kind \in Notices!Naming <=> named # {}
           /\ kind \in Notices!Single => Notices!Cardinality(named) = 1
           /\ kind = "CHAT_MENTION" => named \subseteq audience["members"]
           /\ kind \in {"DIRECT_MESSAGE", "ABSENCE_DECIDED"} => actor \notin named
           /\ event' = [event EXCEPT ![e] = [a EXCEPT !.always = Notices!Concerned(a),
                                                      !.ever = Notices!Concerned(a)]]
  BY Zenon DEF Notices!Announce
<1>2. PICK b : b = [Notices!NoEvent EXCEPT !.pc = "lookup", !.kind = kind, !.actor = actor,
                                           !.named = named]
  OBVIOUS
<1>3. PICK a : a = [b EXCEPT !.always = Notices!Concerned(b), !.ever = Notices!Concerned(b)]
  OBVIOUS
<1>4. event' = [event EXCEPT ![e] = a]
  BY <1>1, <1>2, <1>3
<1>5. /\ b \in Notices!Announcement /\ b.pc = "lookup" /\ b.kind = kind /\ b.named = named
      /\ \A u \in Reader : b.how[u] = "no"
  BY <1>2 DEF Notices!NoEvent, Notices!Announcement, Notices!How
<1>6. Notices!Concerned(b) \subseteq Reader
  BY <1>5 DEF NoticesInv, Notices!TypeOK, Notices!Concerned, Notices!CircleOf, Notices!Circle,
              Notices!Kind
<1>7. /\ a \in Notices!Announcement /\ a.pc = "lookup" /\ a.kind = kind /\ a.named = named
      /\ a.always = Notices!Concerned(b) /\ a.ever = Notices!Concerned(b)
      /\ \A u \in Reader : a.how[u] = "no"
  BY <1>3, <1>5, <1>6 DEF Notices!Announcement
<1>8. Notices!Concerned(a) = Notices!Concerned(b)
  BY <1>5, <1>7 DEF Notices!Concerned
<1>9. UNCHANGED <<audience, exists, setting, notices, pushed, mailed>> /\ event[e] = Notices!NoEvent
  BY DEF Notices!Announce
<1>10. Notices!TypeOK'
  BY <1>4, <1>7, <1>9 DEF NoticesInv, Notices!TypeOK
<1>11. \A u \in Reader : notices[u][e] = 0 /\ e \notin pushed[u] /\ e \notin mailed[u]
  BY <1>9 DEF NoticesInv, Sound, SoundFor, Notices!NoEvent, Notices!Got
<1>12. Sound(e, a)
  <2>1. \A u \in Reader : SoundFor(e, a, u)
    BY <1>7, <1>11 DEF SoundFor, Notices!Got
  <2>2. Scope(a) /\ Mailed(a)
    BY <1>5, <1>7, <1>8 DEF Scope, Mailed, Notices!Concerned
  <2> QED BY <2>1, <2>2 DEF Sound
<1>13. Sound(e, a)'
  BY <1>9, <1>12, SoundSame
<1> QED BY <1>4, <1>9, <1>10, <1>13, OneMoves

LEMMA LookUpStep ==
  ASSUME NoticesInv, NEW e \in Event, Notices!LookUp(e) PROVE NoticesInv'
<1>1. PICK found \in BOOLEAN : found = (exists \/ event[e].kind \notin Notices!OfRow)
  BY Zenon
<1>2. PICK pc \in {"sending", "lost"} : /\ pc = IF found THEN "sending" ELSE "lost"
                                        /\ pc = "sending" <=> found
  OBVIOUS
<1>3. PICK how : how = [u \in Reader |->
                   IF found /\ u \in Notices!Recipients(event[e]) THEN "settings" ELSE "no"]
  OBVIOUS
<1>4. PICK a : a = [event[e] EXCEPT !.pc = pc, !.how = how]
  OBVIOUS
<1>5. event' = [event EXCEPT ![e] = a]
  BY <1>1, <1>2, <1>3, <1>4 DEF Notices!LookUp
<1>6. event[e] \in Notices!Announcement /\ event[e].pc = "lookup" /\ Sound(e, event[e])
  BY DEF NoticesInv, Notices!TypeOK, Notices!LookUp
<1>7. how \in [Reader -> {"settings", "no"}]
  BY <1>3
<1>8. /\ a \in Notices!Announcement /\ a.pc = pc /\ a.kind = event[e].kind
      /\ a.named = event[e].named /\ a.always = event[e].always /\ a.ever = event[e].ever
      /\ a.actor = event[e].actor /\ a.how = how
  BY <1>4, <1>6, <1>7 DEF Notices!Announcement, Notices!How
<1>9. UNCHANGED <<audience, exists, setting, notices, pushed, mailed>>
  BY DEF Notices!LookUp
<1>10. Notices!TypeOK'
  BY <1>5, <1>8, <1>9 DEF NoticesInv, Notices!TypeOK
<1>11. \A u \in Reader : notices[u][e] = 0 /\ e \notin pushed[u] /\ e \notin mailed[u]
  BY <1>6 DEF Sound, SoundFor, Notices!Got
<1>12. Sound(e, a)
  <2>1. /\ event[e].always \subseteq Notices!Concerned(event[e])
        /\ Notices!Concerned(event[e]) \subseteq event[e].ever
    BY <1>6 DEF Sound, Scope
  <2>2. ASSUME NEW u \in Reader
        PROVE  SoundFor(e, a, u)
    <3>1. a.how[u] = "settings" \/ a.how[u] = "no"
      BY <1>7, <1>8
    <3>2. a.how[u] = "settings" =>
            /\ found /\ u \in event[e].ever
            /\ u = event[e].actor => event[e].kind = "PROJECT_MEMBER_ADDED"
      BY <1>3, <1>8, <2>1 DEF Notices!Recipients
    <3>3. /\ a.pc = "sending" /\ a.how[u] = "no"
          /\ u = a.actor => a.kind = "PROJECT_MEMBER_ADDED"
          => u \notin a.always
      BY <1>2, <1>3, <1>8, <2>1 DEF Notices!Recipients
    <3> QED BY <1>2, <1>8, <1>11, <3>1, <3>2, <3>3 DEF SoundFor, Notices!Got
  <2>3. Scope(a) /\ Mailed(a)
    BY <1>6, <1>7, <1>8 DEF Sound, Scope, Mailed
  <2> QED BY <2>2, <2>3 DEF Sound
<1>13. Sound(e, a)'
  BY <1>9, <1>12, SoundSame
<1> QED BY <1>5, <1>9, <1>10, <1>13, OneMoves

\* Announcement b is a, with user u come as far as "how".
Further(a, b, u, how) ==
  /\ b.how[u] = how /\ \A v \in Reader \ {u} : b.how[v] = a.how[v]
  /\ b.pc = a.pc /\ b.kind = a.kind /\ b.actor = a.actor /\ b.named = a.named
  /\ b.always = a.always /\ b.ever = a.ever /\ b.retuned = a.retuned

Moved(e, u, how) == [event EXCEPT ![e].how[u] = how]
Put(e, a) == [event EXCEPT ![e] = a]

LEMMA HowMoves ==
  ASSUME NoticesInv, NEW e \in Event, NEW u \in Reader,
         NEW how \in Notices!How
  PROVE  \E a \in Notices!Announcement :
           /\ Moved(e, u, how) = Put(e, a)
           /\ Further(event[e], a, u, how)
<1>1. PICK h : h = [event[e].how EXCEPT ![u] = how]
  OBVIOUS
<1>2. PICK a : a = [event[e] EXCEPT !.how = h]
  OBVIOUS
<1>3. Moved(e, u, how) = Put(e, a)
  BY <1>1, <1>2 DEF Moved, Put
<1>4. event[e] \in Notices!Announcement
  BY DEF NoticesInv, Notices!TypeOK
<1>5. /\ h \in [Reader -> Notices!How]
      /\ h[u] = how /\ \A v \in Reader \ {u} : h[v] = event[e].how[v]
  BY <1>1, <1>4 DEF Notices!Announcement
<1>6. /\ a \in Notices!Announcement /\ a.how = h
      /\ a.pc = event[e].pc /\ a.kind = event[e].kind /\ a.actor = event[e].actor
      /\ a.named = event[e].named /\ a.always = event[e].always
      /\ a.ever = event[e].ever /\ a.retuned = event[e].retuned
  BY <1>2, <1>4, <1>5 DEF Notices!Announcement
<1> QED BY <1>3, <1>5, <1>6 DEF Further

LEMMA ReadSettingsStep ==
  ASSUME NoticesInv, NEW e \in Event, Notices!ReadSettings(e) PROVE NoticesInv'
<1>1. PICK u \in Reader :
        /\ event[e].how[u] = "settings"
        /\ event' = [event EXCEPT ![e].how[u] = IF Notices!InRealTime(u) THEN "push" ELSE "quiet"]
  BY DEF Notices!ReadSettings, Notices!Told
<1>2. PICK how \in {"push", "quiet"} :
        /\ how = IF Notices!InRealTime(u) THEN "push" ELSE "quiet"
        /\ how = "push" <=> Notices!InRealTime(u)
  OBVIOUS
<1>3. event' = Moved(e, u, how)
  BY <1>1, <1>2 DEF Moved
<1>10. how \in Notices!How
  BY DEF Notices!How
<1>4. PICK a \in Notices!Announcement :
        /\ Moved(e, u, how) = Put(e, a)
        /\ Further(event[e], a, u, how)
  BY <1>10, HowMoves
<1>9. event' = [event EXCEPT ![e] = a]
  BY <1>3, <1>4 DEF Put
<1>5. UNCHANGED <<audience, exists, setting, notices, pushed, mailed>> /\ Sound(e, event[e])
  BY DEF Notices!ReadSettings, NoticesInv
<1>6. Notices!TypeOK'
  BY <1>4, <1>5, <1>9 DEF NoticesInv, Notices!TypeOK
<1>7. Sound(e, a)
  <2>1. ASSUME NEW v \in Reader \ {u} PROVE SoundFor(e, a, v)
    BY <1>4, <1>5 DEF Further, Sound, SoundFor
  <2>2. SoundFor(e, a, u)
    BY <1>1, <1>2, <1>4, <1>5 DEF Further, Sound, SoundFor, Notices!Got
  <2>3. Scope(a) /\ Mailed(a)
    BY <1>1, <1>2, <1>4, <1>5 DEF Further, Sound, Scope, Mailed, SoundFor, Notices!Concerned
  <2> QED BY <2>1, <2>2, <2>3 DEF Sound
<1>8. Sound(e, a)'
  BY <1>5, <1>7, SoundSame
<1> QED BY <1>5, <1>6, <1>8, <1>9, OneMoves

LEMMA CreateStep ==
  ASSUME NoticesInv, NEW e \in Event, Notices!CreateNotification(e) PROVE NoticesInv'
<1>1. PICK u \in Reader :
        /\ event[e].how[u] = "push" \/ event[e].how[u] = "quiet"
        /\ event' = Moved(e, u, "sent")
        /\ notices' = [notices EXCEPT ![u][e] = @ + 1]
        /\ pushed' = IF event[e].how[u] = "push" THEN [pushed EXCEPT ![u] = @ \cup {e}]
                     ELSE pushed
  BY DEF Notices!CreateNotification, Notices!Told, Moved
<1>2. PICK a \in Notices!Announcement :
        Moved(e, u, "sent") = Put(e, a) /\ Further(event[e], a, u, "sent")
  BY HowMoves DEF Notices!How
<1>3. event' = [event EXCEPT ![e] = a]
  BY <1>1, <1>2 DEF Put
<1>4. UNCHANGED <<audience, exists, setting, mailed>> /\ Sound(e, event[e])
  BY DEF Notices!CreateNotification, NoticesInv
<1>5. /\ notices[u][e] = 0 /\ e \notin pushed[u] /\ e \notin mailed[u]
      /\ event[e].pc = "sending"
  BY <1>1, <1>4 DEF Sound, SoundFor, Notices!Got
<1>6. /\ notices' \in [Reader -> [Event -> Nat]] /\ notices'[u][e] = 1
      /\ \A v \in Reader, q \in Event : v # u \/ q # e => notices'[v][q] = notices[v][q]
  BY <1>1, <1>5 DEF NoticesInv, Notices!TypeOK
<1>7. /\ pushed' \in [Reader -> SUBSET Event]
      /\ e \in pushed'[u] <=> event[e].how[u] = "push"
      /\ \A v \in Reader, q \in Event :
           v # u \/ q # e => (q \in pushed'[v] <=> q \in pushed[v])
  BY <1>1, <1>5 DEF NoticesInv, Notices!TypeOK
<1>8. Notices!TypeOK'
  BY <1>3, <1>4, <1>6, <1>7 DEF NoticesInv, Notices!TypeOK
<1>9. Sound(e, a)'
  <2>1. ASSUME NEW v \in Reader \ {u} PROVE SoundFor(e, a, v)'
    BY <1>2, <1>4, <1>6, <1>7
       DEF Further, Sound, SoundFor, Notices!InRealTime, Notices!ByMail
  <2>2. SoundFor(e, a, u)'
    BY <1>1, <1>2, <1>4, <1>5, <1>6, <1>7
       DEF Further, Sound, SoundFor, Notices!InRealTime, Notices!ByMail, Notices!Got
  <2>3. Scope(a)'
    BY <1>2, <1>4 DEF Further, Sound, Scope, Notices!Concerned
  <2>4. Mailed(a)'
    BY <1>2, <1>4, <1>5 DEF Further, Sound, SoundFor, Mailed
  <2> QED BY <2>1, <2>2, <2>3, <2>4 DEF Sound
<1>10. \A v \in Reader, q \in Event \ {e} : /\ notices'[v][q] = notices[v][q]
                                            /\ q \in pushed'[v] <=> q \in pushed[v]
                                            /\ q \in mailed'[v] <=> q \in mailed[v]
  BY <1>4, <1>6, <1>7
<1> QED BY <1>3, <1>4, <1>8, <1>9, <1>10, OneMoves

\* What a restart leaves of sound announcements f.
LEMMA StopLeaves ==
  ASSUME NoticesInv, UNCHANGED <<audience, exists, setting, notices, pushed, mailed>>,
         NEW f \in [Event -> Notices!Announcement], \A q \in Event : Sound(q, f[q]),
         event' = Notices!Stopped(f)
  PROVE  NoticesInv'
<1>1. ASSUME NEW q \in Event
      PROVE  event'[q] \in Notices!Announcement /\ Sound(q, event'[q])
  <2>1. CASE f[q].pc \notin {"lookup", "sending", "mailing"}
    <3>1. event'[q] = f[q]
      BY <2>1, Zenon DEF Notices!Stopped
    <3> QED BY <3>1
  <2>2. CASE f[q].pc \in {"lookup", "sending", "mailing"}
    <3> f[q] \in Notices!Announcement
      OBVIOUS
    <3>1. PICK had : had = f[q].how
      OBVIOUS
    <3>2. PICK how : how = [u \in Reader |-> IF had[u] \in Notices!Got THEN had[u] ELSE "no"]
      OBVIOUS
    <3>3. PICK a : a = [f[q] EXCEPT !.pc = "lost", !.how = how]
      OBVIOUS
    <3>4. event'[q] = a
      BY <2>2, <3>1, <3>2, <3>3, Zenon DEF Notices!Stopped
    <3>5. /\ how \in [Reader -> Notices!How]
          /\ \A u \in Reader : IF had[u] \in Notices!Got THEN how[u] = had[u]
                                                       ELSE how[u] = "no"
      BY <3>2 DEF Notices!Got, Notices!How
    <3>6. /\ a \in Notices!Announcement /\ a.pc = "lost" /\ a.how = how
          /\ a.kind = f[q].kind /\ a.actor = f[q].actor /\ a.named = f[q].named
          /\ a.always = f[q].always /\ a.ever = f[q].ever /\ a.retuned = f[q].retuned
      BY <3>3, <3>5 DEF Notices!Announcement
    <3>7. ASSUME NEW u \in Reader PROVE SoundFor(q, a, u)
      <4>1. SoundFor(q, f[q], u)
        BY DEF Sound
      <4>2. CASE had[u] \in Notices!Got
        <5>1. how[u] = had[u]
          BY <3>5, <4>2
        <5> QED BY <2>2, <3>1, <3>6, <4>1, <4>2, <5>1 DEF SoundFor, Notices!Got
      <4>3. CASE had[u] \notin Notices!Got
        <5>1. how[u] = "no"
          BY <3>5, <4>3
        <5> QED BY <3>1, <3>6, <4>1, <4>3, <5>1 DEF SoundFor, Notices!Got
      <4> QED BY <4>2, <4>3
    <3>8. Mailed(a)
      <4>1. Mailed(f[q]) /\ a.named \subseteq Reader
        BY <3>6 DEF Sound, Notices!Announcement
      <4>2. \A u \in Reader : how[u] \in {"mail", "done"} => had[u] \in {"mail", "done"}
        BY <3>5
      <4>3. \A u \in Reader : had[u] \in Notices!Got => how[u] \in Notices!Got
        BY <3>5
      <4>4. SUFFICES ASSUME a.pc = "mailing" \/ \E u \in Reader : a.how[u] \in {"mail", "done"}
                     PROVE  /\ a.kind \in Notices!Mailing
                            /\ \A v \in a.named :
                                 (v = a.actor => a.kind = "PROJECT_MEMBER_ADDED") =>
                                   a.how[v] \in Notices!Got
        BY Zenon DEF Mailed
      <4>5. \E u \in Reader : f[q].how[u] \in {"mail", "done"}
        BY <3>1, <3>6, <4>2, <4>4
      <4>6. /\ f[q].kind \in Notices!Mailing
            /\ \A v \in f[q].named :
                 (v = f[q].actor => f[q].kind = "PROJECT_MEMBER_ADDED") =>
                   f[q].how[v] \in Notices!Got
        BY <4>1, <4>5, Zenon DEF Mailed
      <4> QED BY <3>1, <3>6, <4>1, <4>3, <4>6
    <3>9. Scope(a)
      BY <3>6 DEF Sound, Scope
    <3> QED BY <3>4, <3>6, <3>7, <3>8, <3>9 DEF Sound
  <2> QED BY <2>1, <2>2
<1>2. Notices!TypeOK'
  <2>1. event' = [q \in Event |-> event'[q]]
    BY Zenon DEF Notices!Stopped
  <2> QED BY <1>1, <2>1 DEF NoticesInv, Notices!TypeOK
<1>3. ASSUME NEW q \in Event PROVE Sound(q, event[q])'
  <2>1. PICK a : a = event'[q]
    OBVIOUS
  <2> QED BY <1>1, <2>1, SoundSame
<1> QED BY <1>2, <1>3 DEF NoticesInv

LEMMA FailStep ==
  ASSUME NoticesInv, NEW e \in Event, Notices!CreateNotificationFails(e) PROVE NoticesInv'
<1>1. PICK u \in Reader :
        /\ event[e].how[u] = "push" \/ event[e].how[u] = "quiet"
        /\ \/ event' = Moved(e, u, "failed")
           \/ event' = Notices!Stopped(Moved(e, u, "failed"))
  BY DEF Notices!CreateNotificationFails, Notices!Told, Moved
<1>2. PICK a \in Notices!Announcement :
        Moved(e, u, "failed") = Put(e, a) /\ Further(event[e], a, u, "failed")
  BY HowMoves DEF Notices!How
<1>3. UNCHANGED <<audience, exists, setting, notices, pushed, mailed>> /\ Sound(e, event[e])
  BY DEF Notices!CreateNotificationFails, NoticesInv
<1>4. Sound(e, a)
  <2>1. ASSUME NEW v \in Reader \ {u} PROVE SoundFor(e, a, v)
    BY <1>2, <1>3 DEF Further, Sound, SoundFor
  <2>2. SoundFor(e, a, u)
    BY <1>1, <1>2, <1>3 DEF Further, Sound, SoundFor, Notices!Got
  <2>3. Scope(a) /\ Mailed(a)
    BY <1>1, <1>2, <1>3 DEF Further, Sound, Scope, Mailed, SoundFor, Notices!Concerned
  <2> QED BY <2>1, <2>2, <2>3 DEF Sound
<1>5. PICK f : f = Put(e, a)
  OBVIOUS
<1>6. f \in [Event -> Notices!Announcement] /\ \A q \in Event : Sound(q, f[q])
  BY <1>4, <1>5 DEF Put, NoticesInv, Notices!TypeOK
<1>7. CASE event' = Moved(e, u, "failed")
  <2>1. event' = [event EXCEPT ![e] = a]
    BY <1>2, <1>7 DEF Put
  <2>2. Notices!TypeOK'
    BY <1>3, <2>1 DEF NoticesInv, Notices!TypeOK
  <2>3. Sound(e, a)'
    BY <1>3, <1>4, SoundSame
  <2> QED BY <1>3, <2>1, <2>2, <2>3, OneMoves
<1>8. CASE event' = Notices!Stopped(Moved(e, u, "failed"))
  BY <1>2, <1>3, <1>5, <1>6, <1>8, StopLeaves
<1> QED BY <1>1, <1>7, <1>8

LEMMA ReadRecipientsStep ==
  ASSUME NoticesInv, NEW e \in Event, Notices!ReadRecipients(e) PROVE NoticesInv'
<1>1. PICK how : how = [u \in Reader |->
                   IF /\ u \in Notices!Told(e, "sent")
                      /\ event[e].kind = "TASK_ASSIGNED" => Notices!ByMail(u)
                   THEN "mail" ELSE event[e].how[u]]
  OBVIOUS
<1>2. PICK a : a = [event[e] EXCEPT !.pc = "mailing", !.how = how]
  OBVIOUS
<1>3. event' = [event EXCEPT ![e] = a]
  BY <1>1, <1>2, Zenon DEF Notices!ReadRecipients
<1>4. /\ UNCHANGED <<audience, exists, setting, notices, pushed, mailed>>
      /\ event[e] \in Notices!Announcement /\ Sound(e, event[e])
      /\ event[e].pc = "sending" /\ event[e].kind \in Notices!Mailing
      /\ \A u \in Reader : event[e].how[u] = "no" \/ event[e].how[u] = "sent"
  BY DEF Notices!ReadRecipients, NoticesInv, Notices!TypeOK
<1>5. /\ how \in [Reader -> Notices!How]
      /\ \A u \in Reader :
           /\ how[u] = "no" <=> event[e].how[u] = "no"
           /\ how[u] \in {"no", "sent", "mail"}
           /\ how[u] = "mail" => (event[e].kind = "TASK_ASSIGNED" => Notices!ByMail(u))
           /\ how[u] = "sent" => event[e].kind = "TASK_ASSIGNED" /\ ~Notices!ByMail(u)
  BY <1>1, <1>4 DEF Notices!Told, Notices!How
<1>6. /\ a \in Notices!Announcement /\ a.pc = "mailing" /\ a.kind = event[e].kind
      /\ a.actor = event[e].actor /\ a.named = event[e].named /\ a.how = how
      /\ a.always = event[e].always /\ a.ever = event[e].ever /\ a.retuned = event[e].retuned
  BY <1>2, <1>4, <1>5 DEF Notices!Announcement
<1>7. Notices!TypeOK'
  BY <1>3, <1>4, <1>6 DEF NoticesInv, Notices!TypeOK
<1>8. Sound(e, a)
  <2>1. ASSUME NEW u \in Reader PROVE SoundFor(e, a, u)
    <3>1. SoundFor(e, event[e], u)
      BY <1>4 DEF Sound
    <3>2. how[u] \in Notices!Got <=> event[e].how[u] \in Notices!Got
      BY <1>4, <1>5 DEF Notices!Got
    <3> QED BY <1>4, <1>5, <1>6, <3>1, <3>2 DEF SoundFor
  <2>2. Mailed(a)
    <3>1. \A v \in a.named : v \in Reader
      BY <1>6 DEF Notices!Announcement
    <3>2. ASSUME NEW v \in a.named, v = a.actor => a.kind = "PROJECT_MEMBER_ADDED"
          PROVE  a.how[v] \in Notices!Got
      <4>1. SoundFor(e, event[e], v) /\ Scope(event[e]) /\ v \in Reader
        BY <1>4, <3>1, <3>2 DEF Sound
      <4>2. a.kind \in Notices!Naming => v \in event[e].always
        BY <1>6, <4>1, <3>2 DEF Scope
      <4>3. a.kind \in Notices!Naming
        BY <1>4, <1>6 DEF Notices!Mailing, Notices!Naming
      <4>4. event[e].how[v] # "no"
        BY <1>4, <1>6, <3>2, <4>1, <4>2, <4>3 DEF SoundFor
      <4> QED BY <1>5, <1>6, <4>1, <4>4 DEF Notices!Got
    <3> QED BY <1>4, <1>6, <3>2 DEF Mailed
  <2>3. Scope(a)
    BY <1>4, <1>6 DEF Sound, Scope
  <2> QED BY <2>1, <2>2, <2>3 DEF Sound
<1>9. Sound(e, a)'
  BY <1>4, <1>8, SoundSame
<1> QED BY <1>3, <1>4, <1>7, <1>9, OneMoves

\* What an e-mail that was sent, or failed, leaves of its announcement.
LEMMA MailDone ==
  ASSUME NoticesInv, NEW e \in Event, NEW u \in Reader, event[e].how[u] = "mail",
         event[e].pc = "mailing", event' = Moved(e, u, "done"),
         UNCHANGED <<audience, exists, setting, notices, pushed>>,
         mailed' \in [Reader -> SUBSET Event],
         \A v \in Reader, q \in Event :
           v # u \/ q # e => (q \in mailed'[v] <=> q \in mailed[v])
  PROVE  NoticesInv'
<1>1. PICK a \in Notices!Announcement :
        Moved(e, u, "done") = Put(e, a) /\ Further(event[e], a, u, "done")
  BY HowMoves DEF Notices!How
<1>2. event' = [event EXCEPT ![e] = a]
  BY <1>1 DEF Put
<1>3. Sound(e, event[e])
  BY DEF NoticesInv
<1>4. Notices!TypeOK'
  BY <1>2 DEF NoticesInv, Notices!TypeOK
<1>5. Sound(e, a)'
  <2>1. ASSUME NEW v \in Reader \ {u} PROVE SoundFor(e, a, v)'
    BY <1>1, <1>3 DEF Further, Sound, SoundFor, Notices!InRealTime, Notices!ByMail
  <2>2. SoundFor(e, a, u)'
    BY <1>1, <1>3 DEF Further, Sound, SoundFor, Notices!InRealTime, Notices!ByMail, Notices!Got
  <2>3. Scope(a)'
    BY <1>1, <1>3 DEF Further, Sound, Scope, Notices!Concerned
  <2>4. Mailed(a)'
    <3>1. a.named \subseteq Reader
      BY DEF Notices!Announcement
    <3> QED BY <1>1, <1>3, <3>1 DEF Further, Sound, Mailed, Notices!Got
  <2> QED BY <2>1, <2>2, <2>3, <2>4 DEF Sound
<1>6. \A v \in Reader, q \in Event \ {e} : /\ notices'[v][q] = notices[v][q]
                                           /\ q \in pushed'[v] <=> q \in pushed[v]
                                           /\ q \in mailed'[v] <=> q \in mailed[v]
  OBVIOUS
<1> QED BY <1>2, <1>4, <1>5, <1>6, OneMoves

LEMMA SendEmailStep ==
  ASSUME NoticesInv, NEW e \in Event, Notices!SendEmail(e) PROVE NoticesInv'
<1>1. PICK u \in Reader :
        /\ event[e].how[u] = "mail" /\ event' = Moved(e, u, "done")
        /\ mailed' = [mailed EXCEPT ![u] = @ \cup {e}]
  BY DEF Notices!SendEmail, Notices!Told, Moved
<1>2. /\ event[e].pc = "mailing"
      /\ UNCHANGED <<audience, exists, setting, notices, pushed>>
  BY DEF Notices!SendEmail
<1>3. /\ mailed' \in [Reader -> SUBSET Event]
      /\ \A v \in Reader, q \in Event :
           v # u \/ q # e => (q \in mailed'[v] <=> q \in mailed[v])
  BY <1>1 DEF NoticesInv, Notices!TypeOK
<1> QED BY <1>1, <1>2, <1>3, MailDone

LEMMA SendEmailFailsStep ==
  ASSUME NoticesInv, NEW e \in Event, Notices!SendEmailFails(e) PROVE NoticesInv'
<1>1. PICK u \in Reader : event[e].how[u] = "mail" /\ event' = Moved(e, u, "done")
  BY DEF Notices!SendEmailFails, Notices!Told, Moved
<1>2. /\ event[e].pc = "mailing"
      /\ UNCHANGED <<audience, exists, setting, notices, pushed, mailed>>
  BY DEF Notices!SendEmailFails
<1>3. mailed' \in [Reader -> SUBSET Event]
  BY <1>2 DEF NoticesInv, Notices!TypeOK
<1> QED BY <1>1, <1>2, <1>3, MailDone

LEMMA SettingsStep ==
  ASSUME NoticesInv, Notices!ChangeSettings PROVE NoticesInv'
<1>1. PICK u \in Reader, to \in Notices!Settings :
        /\ setting' = [setting EXCEPT ![u] = to]
        /\ event' = [q \in Event |->
             IF event[q] = Notices!NoEvent THEN Notices!NoEvent
             ELSE [event[q] EXCEPT !.retuned = @ \cup {u}]]
  BY DEF Notices!ChangeSettings
<1>2. UNCHANGED <<audience, exists, notices, pushed, mailed>>
  BY DEF Notices!ChangeSettings
<1>3. setting' \in [Reader -> Notices!Settings \cup {Null}] 
      /\ \A v \in Reader \ {u} : setting'[v] = setting[v]
  BY <1>1 DEF NoticesInv, Notices!TypeOK
<1>4. ASSUME NEW q \in Event
      PROVE  event'[q] \in Notices!Announcement /\ Sound(q, event[q])'
  <2>1. event[q] \in Notices!Announcement /\ Sound(q, event[q])
    BY DEF NoticesInv, Notices!TypeOK
  <2>2. CASE event[q] = Notices!NoEvent
    <3>1. event'[q] = event[q]
      BY <1>1, <2>2, Zenon
    <3>2. event[q].pc = "none" /\ \A v \in Reader : event[q].how[v] = "no"
      BY <2>2 DEF Notices!NoEvent
    <3>3. \A v \in Reader : notices[v][q] = 0 /\ q \notin pushed[v] /\ q \notin mailed[v]
      BY <2>1, <3>2 DEF Sound, SoundFor, Notices!Got
    <3>4. PICK a : a = event'[q]
      OBVIOUS
    <3>5. \A v \in Reader : SoundFor(q, a, v)'
      BY <1>2, <3>1, <3>2, <3>3, <3>4 DEF SoundFor, Notices!Got
    <3>6. Scope(a)' /\ Mailed(a)'
      BY <1>2, <2>1, <3>1, <3>2, <3>4 DEF Sound, Scope, Mailed
    <3>7. Sound(q, a)'
      BY <3>5, <3>6 DEF Sound
    <3> QED BY <2>1, <3>1, <3>4, <3>7
  <2>3. CASE event[q] # Notices!NoEvent
    <3>1. PICK a : a = [event[q] EXCEPT !.retuned = @ \cup {u}]
      OBVIOUS
    <3>2. event'[q] = a
      BY <1>1, <2>3, <3>1, Zenon
    <3>3. /\ a \in Notices!Announcement /\ a.pc = event[q].pc /\ a.kind = event[q].kind
          /\ a.actor = event[q].actor /\ a.named = event[q].named /\ a.how = event[q].how
          /\ a.always = event[q].always /\ a.ever = event[q].ever
          /\ a.retuned = event[q].retuned \cup {u}
      BY <2>1, <3>1 DEF Notices!Announcement
    <3>4. ASSUME NEW v \in Reader PROVE SoundFor(q, a, v)'
      <4>1. SoundFor(q, event[q], v)
        BY <2>1 DEF Sound
      <4>2. v \notin a.retuned =>
              /\ v \notin event[q].retuned
              /\ Notices!InRealTime(v)' <=> Notices!InRealTime(v)
              /\ Notices!ByMail(v)' <=> Notices!ByMail(v)
        BY <1>3, <3>3 DEF Notices!InRealTime, Notices!ByMail
      <4> QED BY <1>2, <3>3, <4>1, <4>2 DEF SoundFor
    <3>5. Scope(a)' /\ Mailed(a)'
      BY <1>2, <2>1, <3>3 DEF Sound, Scope, Mailed, Notices!Concerned
    <3>6. Sound(q, a)'
      BY <3>4, <3>5 DEF Sound
    <3> QED BY <3>2, <3>3, <3>6
  <2> QED BY <2>2, <2>3
<1>5. Notices!TypeOK'
  <2>1. event' = [q \in Event |-> event'[q]]
    BY <1>1, Zenon
  <2> QED BY <1>2, <1>3, <1>4, <2>1 DEF NoticesInv, Notices!TypeOK
<1> QED BY <1>4, <1>5 DEF NoticesInv

LEMMA AudienceStep ==
  ASSUME NoticesInv, Notices!ChangeAudience PROVE NoticesInv'
<1>1. PICK c \in Notices!Circle, u \in Reader :
        /\ audience' = [audience EXCEPT ![c] = IF u \in @ THEN @ \ {u} ELSE @ \cup {u}]
        /\ event' = [q \in Event |->
             IF event[q].pc = "lookup" /\ event[q].kind \notin Notices!Naming
                /\ Notices!CircleOf(event[q].kind) = c
             THEN [event[q] EXCEPT !.always = @ \ {u}, !.ever = @ \cup {u}] ELSE event[q]]
  BY Zenon DEF Notices!ChangeAudience
<1>2. UNCHANGED <<exists, setting, notices, pushed, mailed>>
  BY Zenon DEF Notices!ChangeAudience
<1>3. /\ audience' \in [Notices!Circle -> SUBSET Reader]
      /\ \A d : d # c => audience'[d] = audience[d]
      /\ audience[c] \ {u} \subseteq audience'[c] /\ audience'[c] \subseteq audience[c] \cup {u}
  <2>1. PICK those : those = IF u \in audience[c] THEN audience[c] \ {u} ELSE audience[c] \cup {u}
    OBVIOUS
  <2>2. /\ audience[c] \ {u} \subseteq those /\ those \subseteq audience[c] \cup {u}
    BY <2>1
  <2>3. audience' = [audience EXCEPT ![c] = those]
    BY <1>1, <2>1, Zenon
  <2>4. audience \in [Notices!Circle -> SUBSET Reader]
    BY DEF NoticesInv, Notices!TypeOK
  <2> QED BY <2>2, <2>3, <2>4
<1>4. ASSUME NEW q \in Event
      PROVE  event'[q] \in Notices!Announcement /\ Sound(q, event[q])'
  <2>1. event[q] \in Notices!Announcement /\ Sound(q, event[q])
    BY DEF NoticesInv, Notices!TypeOK
  <2>2. CASE /\ event[q].pc = "lookup" /\ event[q].kind \notin Notices!Naming
             /\ Notices!CircleOf(event[q].kind) = c
    <3>1. PICK a : a = [event[q] EXCEPT !.always = @ \ {u}, !.ever = @ \cup {u}]
      OBVIOUS
    <3>2. event'[q] = a
      BY <1>1, <2>2, <3>1, Zenon
    <3>3. /\ a \in Notices!Announcement /\ a.pc = event[q].pc /\ a.kind = event[q].kind
          /\ a.actor = event[q].actor /\ a.named = event[q].named /\ a.how = event[q].how
          /\ a.always = event[q].always \ {u} /\ a.ever = event[q].ever \cup {u}
          /\ a.retuned = event[q].retuned
      BY <2>1, <3>1 DEF Notices!Announcement
    <3>4. ASSUME NEW v \in Reader PROVE SoundFor(q, a, v)'
      <4>1. SoundFor(q, event[q], v)
        BY <2>1 DEF Sound
      <4> QED BY <1>2, <2>2, <3>3, <4>1 DEF SoundFor, Notices!Got
    <3>5. Scope(a)'
      <4>1. /\ event[q].always \subseteq audience[c] /\ audience[c] \subseteq event[q].ever
        BY <2>1, <2>2 DEF Sound, Scope, Notices!Concerned
      <4> QED BY <1>3, <2>2, <3>3, <4>1 DEF Scope, Notices!Concerned
    <3>6. Mailed(a)'
      BY <2>1, <3>3 DEF Sound, Mailed
    <3>7. Sound(q, a)'
      BY <3>4, <3>5, <3>6 DEF Sound
    <3> QED BY <3>2, <3>3, <3>7
  <2>3. CASE ~(/\ event[q].pc = "lookup" /\ event[q].kind \notin Notices!Naming
               /\ Notices!CircleOf(event[q].kind) = c)
    <3>1. PICK a : a = event[q]
      OBVIOUS
    <3>2. event'[q] = a
      BY <1>1, <2>3, <3>1, Zenon
    <3>3. ASSUME NEW v \in Reader PROVE SoundFor(q, a, v)'
      <4>1. SoundFor(q, a, v)
        BY <2>1, <3>1 DEF Sound
      <4>2. /\ Notices!InRealTime(v)' <=> Notices!InRealTime(v)
            /\ Notices!ByMail(v)' <=> Notices!ByMail(v)
        BY <1>2 DEF Notices!InRealTime, Notices!ByMail
      <4> QED BY <1>2, <4>1, <4>2 DEF SoundFor
    <3>4. Scope(a)' /\ Mailed(a)'
      BY <1>3, <2>1, <2>3, <3>1 DEF Sound, Scope, Mailed, Notices!Concerned
    <3>5. Sound(q, a)'
      BY <3>3, <3>4 DEF Sound
    <3> QED BY <2>1, <3>1, <3>2, <3>5
  <2> QED BY <2>2, <2>3
<1>5. Notices!TypeOK'
  <2>1. event' = [q \in Event |-> event'[q]]
    BY <1>1, Zenon
  <2> QED BY <1>2, <1>3, <1>4, <2>1 DEF NoticesInv, Notices!TypeOK
<1> QED BY <1>4, <1>5 DEF NoticesInv

LEMMA NoticesNext ==
  ASSUME NoticesInv, [Notices!Next]_(Notices!vars) PROVE NoticesInv'
<1>1. ASSUME UNCHANGED <<audience, setting, event, notices, pushed, mailed>>,
             exists' \in BOOLEAN
      PROVE  NoticesInv'
  <2>1. Notices!TypeOK'
    BY <1>1 DEF NoticesInv, Notices!TypeOK
  <2>2. ASSUME NEW q \in Event PROVE Sound(q, event[q])'
    <3>1. PICK a : a = event[q]
      OBVIOUS
    <3>2. Sound(q, a)
      BY <3>1 DEF NoticesInv
    <3> QED BY <1>1, <3>1, <3>2, SoundSame
  <2> QED BY <2>1, <2>2 DEF NoticesInv
<1>2. CASE UNCHANGED Notices!vars
  BY <1>1, <1>2 DEF Notices!vars, NoticesInv, Notices!TypeOK
<1>3. CASE Notices!Delete
  BY <1>1, <1>3 DEF Notices!Delete
<1>4. CASE Notices!Restart
  <2>1. PICK f : f = event
    OBVIOUS
  <2>2. event' = Notices!Stopped(f)
    BY <1>4, <2>1 DEF Notices!Restart
  <2>3. f \in [Event -> Notices!Announcement] /\ \A q \in Event : Sound(q, f[q])
    BY <2>1 DEF NoticesInv, Notices!TypeOK
  <2> QED BY <1>4, <2>2, <2>3, StopLeaves DEF Notices!Restart
<1> QED BY <1>2, <1>3, <1>4, AnnounceStep, LookUpStep, ReadSettingsStep, CreateStep, FailStep,
           ReadRecipientsStep, SendEmailStep, SendEmailFailsStep, SettingsStep, AudienceStep
           DEF Notices!Next

\* Whatever is announced at the same time, whoever joins, leaves or changes their settings
\* meanwhile, and wherever a notice fails or the server stops: a notice is never doubled,
\* goes to nobody who was not concerned nor to the one who acted, is shown in real time as
\* the settings say, and nobody concerned all along is left out but by a failure; e-mails
\* follow the notices.
THEOREM NoticesHold == Notices!Spec => []NoticesReachAudience
<1>1. NoticesInv /\ [Notices!Next]_(Notices!vars) => NoticesInv'
  BY NoticesNext
<1> QED BY <1>1, NoticesStart, NoticesTold, PTL DEF Notices!Spec

-----------------------------------------------------------------------------
(***************************************************************************)
(* The gateway: what is on its way to a browser, and the sockets it counts.  *)
(***************************************************************************)
\* The last message about a user decides: what comes after the rest is what counts.
LEMMA ShownAfterEmit ==
  ASSUME NEW known, NEW q \in Seq(Presence!Message), NEW e \in Presence!Message,
         NEW u \in User
  PROVE  /\ Presence!About(e, u) =>
              (Presence!WillShow(known, Append(q, e), u) <=> Presence!Shows(e, u))
         /\ ~Presence!About(e, u) =>
              (Presence!WillShow(known, Append(q, e), u) <=> Presence!WillShow(known, q, u))
<1> DEFINE r == Append(q, e)
           n == Len(q)
<1>1. /\ n \in Nat /\ r \in Seq(Presence!Message) /\ Len(r) = n + 1 /\ r[n + 1] = e
      /\ \A i \in 1 .. n : r[i] = q[i]
  OBVIOUS
<1> HIDE DEF r, n
<1>2. Presence!Shows(e, u) => Presence!About(e, u)
  BY DEF Presence!Shows, Presence!About
<1>3. CASE Presence!About(e, u)
  <2>1. ~\A i \in 1 .. n + 1 : ~Presence!About(r[i], u)
    BY <1>1, <1>3
  <2>2. ASSUME NEW i \in 1 .. n + 1
        PROVE  (\A j \in i + 1 .. n + 1 : ~Presence!About(r[j], u)) <=> i = n + 1
    BY <1>1, <1>3
  <2>3. Presence!WillShow(known, r, u) <=> Presence!Shows(r[n + 1], u)
    BY <1>1, <2>1, <2>2 DEF Presence!WillShow
  <2> QED BY <1>1, <1>3, <2>3 DEF r
<1>4. CASE ~Presence!About(e, u)
  <2>1. (\A i \in 1 .. n + 1 : ~Presence!About(r[i], u))
          <=> \A i \in 1 .. n : ~Presence!About(q[i], u)
    BY <1>1, <1>4
  <2>2. ASSUME NEW i \in 1 .. n
        PROVE  (\A j \in i + 1 .. n + 1 : ~Presence!About(r[j], u))
                 <=> \A j \in i + 1 .. n : ~Presence!About(q[j], u)
    BY <1>1, <1>4
  <2>3. (\E i \in 1 .. n + 1 : /\ Presence!Shows(r[i], u)
                               /\ \A j \in i + 1 .. n + 1 : ~Presence!About(r[j], u))
          <=> \E i \in 1 .. n : /\ Presence!Shows(q[i], u)
                                /\ \A j \in i + 1 .. n : ~Presence!About(q[j], u)
    BY <1>1, <1>2, <1>4, <2>2
  <2> QED BY <1>1, <1>4, <2>1, <2>3 DEF Presence!WillShow, r, n
<1> QED BY <1>3, <1>4

LEMMA KnownAfterEmit ==
  ASSUME NEW q \in Seq(Presence!Message), NEW e \in Presence!Message
  PROVE  Presence!HasList(Append(q, e)) <=> Presence!HasList(q) \/ e.kind = "list"
BY DEF Presence!HasList

\* A browser that takes the next message knows as much as it would have, and will show the same.
LEMMA ShownAfterReceive ==
  ASSUME NEW known \in (SUBSET User) \cup {Unknown}, NEW q \in Seq(Presence!Message), q # <<>>,
         known # Unknown \/ Presence!HasList(q)
  PROVE  LET next == Presence!Apply(known, Head(q))
         IN  \A u \in User :
               Presence!WillShow(next, Tail(q), u) <=> Presence!WillShow(known, q, u)
<1> DEFINE next == Presence!Apply(known, Head(q))
           r == Tail(q)
           n == Len(r)
           e == Head(q)
<1>1. /\ n \in Nat /\ Len(q) = n + 1 /\ e = q[1] /\ e \in Presence!Message
      /\ \A i \in 1 .. n : r[i] = q[i + 1]
  OBVIOUS
<1>2. /\ e.kind \in {"online", "offline", "list"} /\ e.who \in SUBSET User
  BY <1>1 DEF Presence!Message
<1>3. /\ e.kind = "list" => next = e.who
      /\ e.kind = "online" /\ known # Unknown => next = known \cup e.who
      /\ e.kind = "offline" /\ known # Unknown => next = known \ e.who
      /\ e.kind # "list" /\ known = Unknown => next = Unknown
  BY <1>2 DEF Presence!Apply
<1> HIDE DEF next, r, n, e
<1> SUFFICES ASSUME NEW u \in User
             PROVE  Presence!WillShow(next, r, u) <=> Presence!WillShow(known, q, u)
  BY DEF next, r
<1> DEFINE Quiet(s, i) == \A j \in i .. Len(s) : ~Presence!About(s[j], u)
<1>4. ASSUME NEW i \in 1 .. n + 1 PROVE Quiet(r, i) <=> Quiet(q, i + 1)
  <2>1. ASSUME Quiet(r, i), NEW j \in i + 1 .. n + 1 PROVE ~Presence!About(q[j], u)
    <3>1. j - 1 \in i .. n /\ r[j - 1] = q[j]
      BY <1>1
    <3> QED BY <2>1, <3>1 DEF n
  <2>2. ASSUME Quiet(q, i + 1), NEW j \in i .. n PROVE ~Presence!About(r[j], u)
    <3>1. j + 1 \in i + 1 .. n + 1 /\ r[j] = q[j + 1]
      BY <1>1
    <3> QED BY <1>1, <2>2, <3>1
  <2> QED BY <1>1, <2>1, <2>2 DEF n
<1> HIDE DEF Quiet
<1> DEFINE Later(s) == \E i \in 1 .. Len(s) : Presence!Shows(s[i], u) /\ Quiet(s, i + 1)
<1>5. Later(q) <=> (Presence!Shows(e, u) /\ Quiet(r, 1)) \/ Later(r)
  <2>1. ASSUME NEW i \in 1 .. n, Presence!Shows(r[i], u), Quiet(r, i + 1) PROVE Later(q)
    <3>1. i + 1 \in 1 .. n + 1 /\ r[i] = q[i + 1] /\ Quiet(q, (i + 1) + 1)
      BY <1>1, <1>4, <2>1
    <3> QED BY <1>1, <2>1, <3>1
  <2>2. ASSUME Presence!Shows(e, u), Quiet(r, 1) PROVE Later(q)
    <3>1. Quiet(q, 1 + 1) /\ 1 \in 1 .. n + 1
      BY <1>1, <1>4, <2>2
    <3> QED BY <1>1, <2>2, <3>1
  <2>3. ASSUME NEW i \in 1 .. n + 1, Presence!Shows(q[i], u), Quiet(q, i + 1), i # 1
        PROVE  Later(r)
    <3>1. PICK k : k = i - 1
      OBVIOUS
    <3>2. k \in 1 .. n /\ k + 1 = i /\ r[k] = q[i] /\ k + 1 \in 1 .. n + 1
      BY <1>1, <2>3, <3>1
    <3>3. Quiet(r, k + 1)
      BY <1>4, <2>3, <3>2
    <3> QED BY <2>3, <3>2, <3>3 DEF n
  <2>4. ASSUME Presence!Shows(q[1], u), Quiet(q, 1 + 1)
        PROVE  Presence!Shows(e, u) /\ Quiet(r, 1)
    BY <1>1, <1>4, <2>4
  <2> QED BY <1>1, <2>1, <2>2, <2>3, <2>4 DEF n
<1>6. Quiet(q, 1) <=> ~Presence!About(e, u) /\ Quiet(r, 1)
  <2>1. Quiet(r, 1) <=> Quiet(q, 1 + 1)
    BY <1>1, <1>4
  <2>2. Quiet(q, 1) <=> ~Presence!About(q[1], u) /\ Quiet(q, 1 + 1)
    BY <1>1 DEF Quiet
  <2> QED BY <1>1, <2>1, <2>2
<1>7. /\ Presence!WillShow(known, q, u) <=> (known # Unknown /\ u \in known /\ Quiet(q, 1)) \/ Later(q)
      /\ Presence!WillShow(next, r, u) <=> (next # Unknown /\ u \in next /\ Quiet(r, 1)) \/ Later(r)
  BY DEF Presence!WillShow, Quiet
<1>8. known = Unknown /\ e.kind # "list" => ~Quiet(r, 1)
  <2> SUFFICES ASSUME known = Unknown, e.kind # "list" PROVE ~Quiet(r, 1)
    OBVIOUS
  <2>1. PICK j \in 1 .. n + 1 : q[j].kind = "list"
    BY <1>1 DEF Presence!HasList
  <2>2. j # 1
    BY <1>1, <2>1
  <2>3. PICK k : k = j - 1
    OBVIOUS
  <2>4. k \in 1 .. n /\ r[k] = q[j]
    BY <1>1, <2>2, <2>3
  <2>5. Presence!About(r[k], u)
    BY <2>1, <2>4 DEF Presence!About
  <2> QED BY <2>4, <2>5 DEF n, Quiet
<1> HIDE DEF Later
<1>9. /\ Presence!About(e, u) <=> e.kind = "list" \/ u \in e.who
      /\ Presence!Shows(e, u) <=> e.kind # "offline" /\ u \in e.who
      /\ known # Unknown => known \in SUBSET User
      /\ \A S \in SUBSET User : S # Unknown
  BY SocketsAssumption DEF Presence!About, Presence!Shows, Presence!SocketsFit
<1>10. CASE e.kind = "list"
  <2>1. next = e.who /\ next # Unknown
    BY <1>2, <1>3, <1>9, <1>10
  <2> QED BY <1>5, <1>6, <1>7, <1>9, <1>10, <2>1
<1>11. CASE e.kind # "list" /\ known = Unknown
  BY <1>3, <1>5, <1>6, <1>7, <1>8, <1>11
<1>12. CASE e.kind = "online" /\ known # Unknown
  <2>1. next = known \cup e.who /\ next # Unknown
    BY <1>2, <1>3, <1>9, <1>12
  <2> QED BY <1>5, <1>6, <1>7, <1>9, <1>12, <2>1
<1>13. CASE e.kind = "offline" /\ known # Unknown
  <2>1. next = known \ e.who /\ next # Unknown
    BY <1>2, <1>3, <1>9, <1>13
  <2> QED BY <1>5, <1>6, <1>7, <1>9, <1>13, <2>1
<1> QED BY <1>2, <1>10, <1>11, <1>12, <1>13

LEMMA KnownAfterReceive ==
  ASSUME NEW known \in (SUBSET User) \cup {Unknown}, NEW q \in Seq(Presence!Message), q # <<>>
  PROVE  LET next == Presence!Apply(known, Head(q))
         IN  /\ next \in (SUBSET User) \cup {Unknown}
             /\ next # Unknown \/ Presence!HasList(Tail(q))
                  <=> known # Unknown \/ Presence!HasList(q)
<1> DEFINE next == Presence!Apply(known, Head(q))
           r == Tail(q)
           e == Head(q)
<1>1. /\ Len(r) \in Nat /\ Len(q) = Len(r) + 1 /\ e = q[1] /\ e \in Presence!Message
      /\ \A i \in 1 .. Len(r) : r[i] = q[i + 1]
  OBVIOUS
<1>2. /\ e.kind \in {"online", "offline", "list"} /\ e.who \in SUBSET User
  BY <1>1 DEF Presence!Message
<1>3. /\ next \in (SUBSET User) \cup {Unknown}
      /\ next = Unknown <=> known = Unknown /\ e.kind # "list"
  BY <1>2, SocketsAssumption DEF Presence!Apply, Presence!SocketsFit
<1> HIDE DEF next, r, e
<1>4. Presence!HasList(q) <=> e.kind = "list" \/ Presence!HasList(r)
  <2>1. ASSUME NEW i \in 1 .. Len(r), r[i].kind = "list" PROVE Presence!HasList(q)
    <3>1. i + 1 \in 1 .. Len(q) /\ q[i + 1].kind = "list"
      BY <1>1, <2>1
    <3> QED BY <3>1 DEF Presence!HasList
  <2>2. ASSUME NEW i \in 1 .. Len(q), q[i].kind = "list", i # 1 PROVE Presence!HasList(r)
    <3>1. PICK k : k = i - 1
      OBVIOUS
    <3>2. k \in 1 .. Len(r) /\ r[k] = q[i]
      BY <1>1, <2>2, <3>1
    <3> QED BY <2>2, <3>2 DEF Presence!HasList
  <2>3. e.kind = "list" => Presence!HasList(q)
    BY <1>1 DEF Presence!HasList
  <2> QED BY <1>1, <2>1, <2>2, <2>3 DEF Presence!HasList
<1> QED BY <1>3, <1>4 DEF next, r

\* The sockets of a user in the gateway's map are those it still takes for connected.
SocketsCounted ==
  \A u \in User, s \in Socket :
    s \in onlineUsers[u] <=> s \in Presence!Connected /\ userId[s] = u
PresenceInv == Presence!TypeOK /\ SocketsCounted /\ Presence!ViewsConverge

LEMMA PresenceStart == Presence!Init => PresenceInv
<1> SUFFICES ASSUME Presence!Init PROVE PresenceInv
  OBVIOUS
<1>1. <<>> \in Seq(Presence!Message) /\ ~Presence!HasList(<<>>)
  BY DEF Presence!HasList
<1>2. Presence!TypeOK
  BY <1>1, SocketsAssumption
  DEF Presence!Init, Presence!TypeOK, Presence!Connected, Presence!Open, Presence!SocketsFit
<1>3. SocketsCounted
  BY DEF Presence!Init, SocketsCounted, Presence!Connected
<1>4. Presence!ViewsConverge
  BY <1>1 DEF Presence!Init, Presence!ViewsConverge, Presence!Known
<1> QED BY <1>2, <1>3, <1>4 DEF PresenceInv

\* What a message leaves of the views when it goes out to the open connections.
LEMMA Announced ==
  ASSUME PresenceInv, NEW to \in SUBSET Socket, NEW e \in Presence!Message,
         Presence!Open \subseteq to, e.kind # "list", inbox' = Presence!Emitted(to, e)
  PROVE  /\ inbox' \in [Watching -> Seq(Presence!Message)]
         /\ \A w \in Watching \ to : inbox'[w] = inbox[w]
         /\ \A w \in Watching : view[w] # Unknown \/ Presence!HasList(inbox'[w]) =>
              \A u \in User : Presence!WillShow(view[w], inbox'[w], u)
                                <=> IF u \in e.who THEN e.kind = "online"
                                    ELSE u \in Presence!ConnectedUsers
<1>1. inbox \in [Watching -> Seq(Presence!Message)]
  BY DEF PresenceInv, Presence!TypeOK
<1>2. \A u \in User : /\ Presence!About(e, u) <=> u \in e.who
                      /\ Presence!Shows(e, u) <=> e.kind = "online" /\ u \in e.who
  BY DEF Presence!About, Presence!Shows, Presence!Message
<1>3. /\ inbox' \in [Watching -> Seq(Presence!Message)]
      /\ \A w \in Watching : /\ w \in to => inbox'[w] = Append(inbox[w], e)
                             /\ w \notin to => inbox'[w] = inbox[w]
  <2>1. inbox' = [w \in Watching |-> IF w \in to THEN Append(inbox[w], e) ELSE inbox[w]]
    BY DEF Presence!Emitted
  <2>2. \A w \in Watching : /\ inbox[w] \in Seq(Presence!Message)
                            /\ Append(inbox[w], e) \in Seq(Presence!Message)
    BY <1>1
  <2> QED BY <2>1, <2>2, Zenon
<1>4. ASSUME NEW w \in Watching, view[w] # Unknown \/ Presence!HasList(inbox'[w]), NEW u \in User
      PROVE  Presence!WillShow(view[w], inbox'[w], u)
               <=> IF u \in e.who THEN e.kind = "online" ELSE u \in Presence!ConnectedUsers
  <2>1. w \in to
    <3> SUFFICES ASSUME w \notin to PROVE FALSE
      OBVIOUS
    <3>1. w \notin Presence!Open /\ inbox'[w] = inbox[w]
      BY <1>3
    <3>2. view[w] = Unknown /\ inbox[w] = <<>>
      BY <3>1 DEF PresenceInv, Presence!TypeOK
    <3>3. ~Presence!HasList(<<>>)
      BY DEF Presence!HasList
    <3> QED BY <1>4, <3>1, <3>2, <3>3
  <2>2. inbox'[w] = Append(inbox[w], e) /\ inbox[w] \in Seq(Presence!Message)
    BY <1>1, <1>3, <2>1
  <2>3. Presence!HasList(Append(inbox[w], e)) <=> Presence!HasList(inbox[w]) \/ e.kind = "list"
    BY <2>2, KnownAfterEmit, Zenon
  <2>4. Presence!Known(w)
    BY <1>4, <2>2, <2>3, Zenon DEF Presence!Known
  <2>5. Presence!WillShow(view[w], inbox[w], u) <=> u \in Presence!ConnectedUsers
    BY <2>4 DEF PresenceInv, Presence!ViewsConverge
  <2>6. /\ Presence!About(e, u) =>
             (Presence!WillShow(view[w], Append(inbox[w], e), u) <=> Presence!Shows(e, u))
        /\ ~Presence!About(e, u) =>
             (Presence!WillShow(view[w], Append(inbox[w], e), u)
                <=> Presence!WillShow(view[w], inbox[w], u))
    BY <2>2, ShownAfterEmit, Zenon
  <2> QED BY <1>2, <2>2, <2>5, <2>6, Zenon
<1> QED BY <1>3, <1>4, Zenon

LEMMA ConnectStep ==
  ASSUME PresenceInv, NEW s \in Socket, Presence!handleConnection(s) PROVE PresenceInv'
<1>1. PICK who \in User : userId' = [userId EXCEPT ![s] = who] /\ Presence!markOnline(who, s)
  BY DEF Presence!handleConnection
<1>2. /\ link[s] = "unused" /\ link' = [link EXCEPT ![s] = "open"]
      /\ UNCHANGED <<listing, view, restarts>>
  BY DEF Presence!handleConnection
<1>3. /\ link' \in [Socket -> {"unused", "open", "cut", "gone"}]
      /\ userId' \in [Socket -> User \cup {Null}] /\ userId'[s] = who
      /\ \A t \in Socket \ {s} : userId'[t] = userId[t]
      /\ Presence!Connected' = Presence!Connected \cup {s} /\ s \notin Presence!Connected
      /\ Presence!Open' = Presence!Open \cup {s}
      /\ \A t \in Presence!Connected : t \in Socket /\ userId[t] \in User
  BY <1>1, <1>2 DEF PresenceInv, Presence!TypeOK, Presence!Connected, Presence!Open
<1>4. Presence!ConnectedUsers' = Presence!ConnectedUsers \cup {who}
  BY <1>3 DEF Presence!ConnectedUsers, Presence!Connected
<1>5. onlineUsers' \in [User -> SUBSET Socket] /\ SocketsCounted'
  <2>1. /\ onlineUsers' \in [User -> SUBSET Socket] /\ onlineUsers'[who] = onlineUsers[who] \cup {s}
        /\ \A u \in User \ {who} : onlineUsers'[u] = onlineUsers[u]
    BY <1>1 DEF Presence!markOnline, PresenceInv, Presence!TypeOK
  <2> QED BY <1>3, <2>1 DEF PresenceInv, SocketsCounted
<1>6. /\ inbox' \in [Watching -> Seq(Presence!Message)]
      /\ \A w \in Watching \ (Presence!Open \cup {s}) : inbox'[w] = inbox[w]
      /\ \A w \in Watching : view[w] # Unknown \/ Presence!HasList(inbox'[w]) =>
           \A u \in User : Presence!WillShow(view[w], inbox'[w], u)
                             <=> u \in Presence!ConnectedUsers \cup {who}
  <2>1. CASE onlineUsers[who] = {}
    <3>1. PICK e : e = Presence!Signal("online", {who})
      OBVIOUS
    <3>2. e \in Presence!Message /\ e.kind = "online" /\ e.who = {who}
      BY <3>1 DEF Presence!Signal, Presence!Message
    <3>3. PICK to : to = Presence!Open \cup {s}
      OBVIOUS
    <3>4. to \in SUBSET Socket /\ Presence!Open \subseteq to
      BY <3>3 DEF Presence!Open
    <3>5. inbox' = Presence!Emitted(to, e)
      BY <1>1, <2>1, <3>1, <3>3 DEF Presence!markOnline
    <3> QED BY <3>2, <3>3, <3>4, <3>5, Announced
  <2>2. CASE onlineUsers[who] # {}
    <3>1. inbox' = inbox
      BY <1>1, <2>2 DEF Presence!markOnline
    <3>2. who \in Presence!ConnectedUsers
      BY <2>2 DEF PresenceInv, Presence!TypeOK, SocketsCounted, Presence!ConnectedUsers
    <3> QED BY <3>1, <3>2 DEF PresenceInv, Presence!TypeOK, Presence!ViewsConverge, Presence!Known
  <2> QED BY <2>1, <2>2
<1>7. Presence!TypeOK'
  BY <1>2, <1>3, <1>5, <1>6 DEF PresenceInv, Presence!TypeOK
<1>8. Presence!ViewsConverge'
  BY <1>2, <1>4, <1>6 DEF Presence!ViewsConverge, Presence!Known
<1> QED BY <1>5, <1>7, <1>8 DEF PresenceInv

LEMMA DisconnectStep ==
  ASSUME PresenceInv, NEW s \in Socket, Presence!handleDisconnect(s) PROVE PresenceInv'
<1>1. PICK who : who = userId[s]
  OBVIOUS
<1>2. /\ link[s] = "cut" /\ link' = [link EXCEPT ![s] = "gone"] /\ Presence!markOffline(who, s)
      /\ UNCHANGED <<userId, listing, view, restarts>>
  BY <1>1 DEF Presence!handleDisconnect
<1>3. /\ who \in User
      /\ link' \in [Socket -> {"unused", "open", "cut", "gone"}]
      /\ Presence!Connected' = Presence!Connected \ {s} /\ s \in Presence!Connected
      /\ Presence!Open' = Presence!Open
      /\ \A t \in Presence!Connected : userId[t] \in User
  BY <1>1, <1>2 DEF PresenceInv, Presence!TypeOK, Presence!Connected, Presence!Open
<1>4. onlineUsers' \in [User -> SUBSET Socket] /\ SocketsCounted'
  <2>1. /\ onlineUsers' \in [User -> SUBSET Socket] /\ onlineUsers'[who] = onlineUsers[who] \ {s}
        /\ \A u \in User \ {who} : onlineUsers'[u] = onlineUsers[u]
    BY <1>2, <1>3 DEF Presence!markOffline, PresenceInv, Presence!TypeOK
  <2> QED BY <1>1, <1>2, <1>3, <2>1 DEF PresenceInv, SocketsCounted
<1>5. /\ inbox' \in [Watching -> Seq(Presence!Message)]
      /\ \A w \in Watching \ Presence!Open : inbox'[w] = inbox[w]
      /\ \A w \in Watching : view[w] # Unknown \/ Presence!HasList(inbox'[w]) =>
           \A u \in User : Presence!WillShow(view[w], inbox'[w], u)
                             <=> u \in Presence!ConnectedUsers'
  <2>1. CASE onlineUsers[who] \subseteq {s}
    <3>1. PICK e : e = Presence!Signal("offline", {who})
      OBVIOUS
    <3>2. e \in Presence!Message /\ e.kind = "offline" /\ e.who = {who}
      BY <1>3, <3>1 DEF Presence!Signal, Presence!Message
    <3>3. PICK to : to = Presence!Open
      OBVIOUS
    <3>4. to \in SUBSET Socket /\ Presence!Open \subseteq to
      BY <3>3 DEF Presence!Open
    <3>5. inbox' = Presence!Emitted(to, e)
      BY <1>2, <2>1, <3>1, <3>3 DEF Presence!markOffline
    <3>6. Presence!ConnectedUsers' = Presence!ConnectedUsers \ {who}
      <4>1. \A t \in Presence!Connected : userId[t] = who => t = s
        BY <1>3, <2>1 DEF PresenceInv, SocketsCounted, Presence!Connected
      <4> QED BY <1>1, <1>2, <1>3, <4>1 DEF Presence!ConnectedUsers
    <3> QED BY <3>2, <3>3, <3>4, <3>5, <3>6, Announced
  <2>2. CASE ~(onlineUsers[who] \subseteq {s})
    <3>1. inbox' = inbox
      BY <1>2, <2>2 DEF Presence!markOffline
    <3>2. PICK t \in Socket : t # s /\ t \in Presence!Connected /\ userId[t] = who
      BY <1>3, <2>2 DEF PresenceInv, Presence!TypeOK, SocketsCounted
    <3>3. Presence!ConnectedUsers' = Presence!ConnectedUsers
      BY <1>1, <1>2, <1>3, <3>2 DEF Presence!ConnectedUsers
    <3> QED BY <3>1, <3>3 DEF PresenceInv, Presence!TypeOK, Presence!ViewsConverge, Presence!Known
  <2> QED BY <2>1, <2>2
<1>6. Presence!TypeOK'
  BY <1>2, <1>3, <1>4, <1>5 DEF PresenceInv, Presence!TypeOK
<1>7. Presence!ViewsConverge'
  BY <1>2, <1>5 DEF Presence!ViewsConverge, Presence!Known
<1> QED BY <1>4, <1>6, <1>7 DEF PresenceInv

LEMMA ListStep ==
  ASSUME PresenceInv, NEW s \in Watching, Presence!listPresence(s) PROVE PresenceInv'
<1> DEFINE e == Presence!Signal("list", Presence!getOnlineUserIds)
<1>1. /\ listing' = listing \ {s} /\ UNCHANGED <<link, userId, onlineUsers, view, restarts>>
      /\ s \in listing
  BY DEF Presence!listPresence
<1>2. e \in Presence!Message /\ e.kind = "list" /\ e.who = Presence!getOnlineUserIds
  BY DEF Presence!Signal, Presence!Message, Presence!getOnlineUserIds
<1>3. inbox' = [w \in Watching |-> IF w \in {s} THEN Append(inbox[w], e) ELSE inbox[w]]
  BY DEF Presence!listPresence, Presence!Emitted
<1> HIDE DEF e
<1>4. \A u \in User : u \in e.who <=> u \in Presence!ConnectedUsers
  BY <1>2 DEF Presence!getOnlineUserIds, PresenceInv, Presence!TypeOK, SocketsCounted,
              Presence!ConnectedUsers, Presence!Connected
<1>5. inbox \in [Watching -> Seq(Presence!Message)] /\ s \in Presence!Open
  BY <1>1 DEF PresenceInv, Presence!TypeOK
<1>6. inbox' \in [Watching -> Seq(Presence!Message)] /\ inbox'[s] = Append(inbox[s], e)
      /\ \A w \in Watching \ {s} : inbox'[w] = inbox[w]
  BY <1>2, <1>3, <1>5
<1>7. Presence!TypeOK'
  BY <1>1, <1>5, <1>6 DEF PresenceInv, Presence!TypeOK, Presence!Connected, Presence!Open
<1>8. ASSUME NEW w \in Watching, Presence!Known(w)', NEW u \in User
      PROVE  Presence!WillShow(view[w], inbox'[w], u) <=> u \in Presence!ConnectedUsers
  <2>1. CASE w = s
    <3>1. Presence!About(e, u) /\ (Presence!Shows(e, u) <=> u \in e.who)
      BY <1>2 DEF Presence!About, Presence!Shows
    <3>2. inbox[s] \in Seq(Presence!Message)
      BY <1>5
    <3>3. Presence!WillShow(view[s], Append(inbox[s], e), u) <=> Presence!Shows(e, u)
      BY <1>2, <3>1, <3>2, ShownAfterEmit, Zenon
    <3> QED BY <1>4, <1>6, <2>1, <3>1, <3>3, Zenon
  <2>2. CASE w # s
    BY <1>1, <1>6, <1>8, <2>2 DEF PresenceInv, Presence!ViewsConverge, Presence!Known
  <2> QED BY <2>1, <2>2
<1>9. Presence!ViewsConverge'
  BY <1>1, <1>8 DEF Presence!ViewsConverge, Presence!ConnectedUsers, Presence!Connected
<1> QED BY <1>1, <1>7, <1>9 DEF PresenceInv, SocketsCounted, Presence!Connected

LEMMA ReceiveStep ==
  ASSUME PresenceInv, NEW s \in Watching, Presence!Receive(s) PROVE PresenceInv'
<1>1. PICK next : next = Presence!Apply(view[s], Head(inbox[s]))
  OBVIOUS
<1>2. PICK rest : rest = Tail(inbox[s])
  OBVIOUS
<1>3. /\ view' = [view EXCEPT ![s] = next] /\ inbox' = [inbox EXCEPT ![s] = rest]
      /\ inbox[s] # <<>> /\ link[s] = "open"
      /\ UNCHANGED <<link, userId, onlineUsers, listing, restarts>>
  BY <1>1, <1>2, Zenon DEF Presence!Receive
<1>4. /\ view[s] \in (SUBSET User) \cup {Unknown} /\ inbox[s] \in Seq(Presence!Message)
      /\ s \in Presence!Open
  BY <1>3, SocketsAssumption DEF PresenceInv, Presence!TypeOK, Presence!Open, Presence!SocketsFit
<1>5. /\ next \in (SUBSET User) \cup {Unknown} /\ rest \in Seq(Presence!Message)
      /\ next # Unknown \/ Presence!HasList(rest) <=> Presence!Known(s)
  <2>1. /\ next \in (SUBSET User) \cup {Unknown}
        /\ next # Unknown \/ Presence!HasList(rest)
             <=> view[s] # Unknown \/ Presence!HasList(inbox[s])
    BY <1>1, <1>2, <1>3, <1>4, KnownAfterReceive, Zenon
  <2>2. rest \in Seq(Presence!Message)
    BY <1>2, <1>3, <1>4
  <2> QED BY <2>1, <2>2 DEF Presence!Known
<1>6. Presence!TypeOK'
  BY <1>3, <1>4, <1>5 DEF PresenceInv, Presence!TypeOK, Presence!Connected, Presence!Open
<1>7. ASSUME NEW w \in Watching, Presence!Known(w)', NEW u \in User
      PROVE  Presence!WillShow(view'[w], inbox'[w], u) <=> u \in Presence!ConnectedUsers
  <2>1. CASE w = s
    <3>1. view'[s] = next /\ inbox'[s] = rest
      BY <1>3 DEF PresenceInv, Presence!TypeOK
    <3>2. Presence!Known(s)
      BY <1>5, <1>7, <2>1, <3>1 DEF Presence!Known
    <3>3. Presence!WillShow(next, rest, u) <=> Presence!WillShow(view[s], inbox[s], u)
      BY <1>1, <1>2, <1>3, <1>4, <3>2, ShownAfterReceive DEF Presence!Known
    <3> QED BY <2>1, <3>1, <3>2, <3>3 DEF PresenceInv, Presence!ViewsConverge
  <2>2. CASE w # s
    <3>1. view'[w] = view[w] /\ inbox'[w] = inbox[w]
      BY <1>3, <2>2 DEF PresenceInv, Presence!TypeOK
    <3> QED BY <1>7, <3>1 DEF PresenceInv, Presence!ViewsConverge, Presence!Known
  <2> QED BY <2>1, <2>2
<1>8. Presence!ViewsConverge'
  BY <1>3, <1>7 DEF Presence!ViewsConverge, Presence!ConnectedUsers, Presence!Connected
<1> QED BY <1>3, <1>6, <1>8 DEF PresenceInv, SocketsCounted, Presence!Connected

\* What is forgotten is known no more.
LEMMA Forgotten ==
  ASSUME PresenceInv, NEW S \in SUBSET Socket, Presence!Forget(S)
  PROVE  /\ inbox' \in [Watching -> Seq(Presence!Message)]
         /\ view' \in [Watching -> (SUBSET User) \cup {Unknown}]
         /\ listing' = listing \ S
         /\ \A w \in Watching \cap S :
              view'[w] = Unknown /\ inbox'[w] = <<>> /\ ~Presence!Known(w)'
         /\ \A w \in Watching \ S : view'[w] = view[w] /\ inbox'[w] = inbox[w]
<1>1. <<>> \in Seq(Presence!Message) /\ ~Presence!HasList(<<>>)
  BY DEF Presence!HasList
<1>2. /\ inbox \in [Watching -> Seq(Presence!Message)]
      /\ view \in [Watching -> (SUBSET User) \cup {Unknown}]
  BY DEF PresenceInv, Presence!TypeOK
<1> QED BY <1>1, <1>2 DEF Presence!Forget, Presence!Known

LEMMA CutStep ==
  ASSUME PresenceInv, NEW s \in Socket, Presence!Cut(s) PROVE PresenceInv'
<1>1. /\ link[s] = "open" /\ link' = [link EXCEPT ![s] = "cut"] /\ Presence!Forget({s})
      /\ UNCHANGED <<userId, onlineUsers, restarts>>
  BY DEF Presence!Cut
<1>2. /\ link' \in [Socket -> {"unused", "open", "cut", "gone"}]
      /\ Presence!Connected' = Presence!Connected /\ Presence!Open' = Presence!Open \ {s}
  BY <1>1 DEF PresenceInv, Presence!TypeOK, Presence!Connected, Presence!Open
<1>3. PICK S : S = {s}
  OBVIOUS
<1>4. S \in SUBSET Socket /\ Presence!Forget(S) /\ S = {s}
  BY <1>1, <1>3
<1>5. /\ inbox' \in [Watching -> Seq(Presence!Message)]
      /\ view' \in [Watching -> (SUBSET User) \cup {Unknown}]
      /\ listing' = listing \ S
      /\ \A w \in Watching \cap S :
           view'[w] = Unknown /\ inbox'[w] = <<>> /\ ~Presence!Known(w)'
      /\ \A w \in Watching \ S : view'[w] = view[w] /\ inbox'[w] = inbox[w]
  BY <1>4, Forgotten
<1>6. Presence!TypeOK'
  BY <1>1, <1>2, <1>4, <1>5 DEF PresenceInv, Presence!TypeOK
<1>7. Presence!ConnectedUsers' = Presence!ConnectedUsers
  BY <1>1, <1>2 DEF Presence!ConnectedUsers
<1>8. Presence!ViewsConverge'
  BY <1>5, <1>7 DEF PresenceInv, Presence!ViewsConverge, Presence!Known
<1>9. SocketsCounted'
  BY <1>1, <1>2 DEF PresenceInv, SocketsCounted
<1> QED BY <1>6, <1>8, <1>9 DEF PresenceInv

LEMMA RestartStep == ASSUME PresenceInv, Presence!Restart PROVE PresenceInv'
<1>1. /\ link' = [s \in Socket |-> IF s \in Presence!Connected THEN "gone" ELSE link[s]]
      /\ onlineUsers' = [u \in User |-> {}] /\ Presence!Forget(Presence!Connected)
      /\ userId' = userId /\ restarts' = restarts + 1 /\ restarts < Restarts
  BY DEF Presence!Restart
<1>2. /\ link' \in [Socket -> {"unused", "open", "cut", "gone"}]
      /\ Presence!Connected' = {} /\ Presence!Open' = {}
  BY <1>1 DEF PresenceInv, Presence!TypeOK, Presence!Connected, Presence!Open
<1>3. PICK S : S = Presence!Connected
  OBVIOUS
<1>4. S \in SUBSET Socket /\ Presence!Forget(S) /\ Presence!Open \subseteq S
  BY <1>1, <1>3 DEF Presence!Connected, Presence!Open
<1>5. /\ inbox' \in [Watching -> Seq(Presence!Message)]
      /\ view' \in [Watching -> (SUBSET User) \cup {Unknown}]
      /\ listing' = listing \ S
      /\ \A w \in Watching \cap S :
           view'[w] = Unknown /\ inbox'[w] = <<>> /\ ~Presence!Known(w)'
      /\ \A w \in Watching \ S : view'[w] = view[w] /\ inbox'[w] = inbox[w]
  BY <1>4, Forgotten
<1>6. \A w \in Watching : view'[w] = Unknown /\ inbox'[w] = <<>> /\ ~Presence!Known(w)'
  <2>1. ~Presence!HasList(<<>>)
    BY DEF Presence!HasList
  <2>2. \A w \in Watching \ S : view[w] = Unknown /\ inbox[w] = <<>>
    BY <1>4 DEF PresenceInv, Presence!TypeOK
  <2> QED BY <1>5, <2>1, <2>2 DEF Presence!Known
<1>7. Presence!TypeOK'
  <2>1. restarts' \in 0 .. Restarts
    BY <1>1, SocketsAssumption DEF PresenceInv, Presence!TypeOK, Presence!SocketsFit
  <2> QED BY <1>1, <1>2, <1>4, <1>5, <1>6, <2>1 DEF PresenceInv, Presence!TypeOK
<1>8. Presence!ViewsConverge' /\ SocketsCounted'
  BY <1>1, <1>2, <1>6 DEF Presence!ViewsConverge, SocketsCounted
<1> QED BY <1>7, <1>8 DEF PresenceInv

LEMMA PresenceNext == PresenceInv /\ [Presence!Next]_(Presence!vars) => PresenceInv'
<1> SUFFICES ASSUME PresenceInv, [Presence!Next]_(Presence!vars) PROVE PresenceInv'
  OBVIOUS
<1>1. ASSUME UNCHANGED <<userId, onlineUsers, inbox, view, restarts>>,
             link' \in [Socket -> {"unused", "open", "cut", "gone"}],
             Presence!Connected' = Presence!Connected, Presence!Open' = Presence!Open,
             listing' \subseteq Presence!Open
      PROVE  PresenceInv'
  <2>1. Presence!TypeOK'
    BY <1>1 DEF PresenceInv, Presence!TypeOK
  <2>2. Presence!ViewsConverge' /\ SocketsCounted'
    BY <1>1 DEF PresenceInv, Presence!ViewsConverge, SocketsCounted, Presence!Known,
                Presence!ConnectedUsers
  <2> QED BY <2>1, <2>2 DEF PresenceInv
<1>2. ASSUME NEW s \in Socket, Presence!RejectConnection(s) PROVE PresenceInv'
  <2>1. /\ link' \in [Socket -> {"unused", "open", "cut", "gone"}]
        /\ Presence!Connected' = Presence!Connected /\ Presence!Open' = Presence!Open
        /\ listing' \subseteq Presence!Open
    BY <1>2 DEF Presence!RejectConnection, PresenceInv, Presence!TypeOK, Presence!Connected,
                Presence!Open
  <2> QED BY <1>1, <1>2, <2>1 DEF Presence!RejectConnection
<1>3. ASSUME NEW s \in Watching, Presence!OpenPage(s) PROVE PresenceInv'
  <2>1. /\ link' \in [Socket -> {"unused", "open", "cut", "gone"}]
        /\ Presence!Connected' = Presence!Connected /\ Presence!Open' = Presence!Open
        /\ listing' \subseteq Presence!Open
    BY <1>3, SocketsAssumption
    DEF Presence!OpenPage, PresenceInv, Presence!TypeOK, Presence!Connected,
        Presence!Open, Presence!SocketsFit
  <2> QED BY <1>1, <1>3, <2>1 DEF Presence!OpenPage
<1>4. CASE UNCHANGED Presence!vars
  <2>1. /\ link' \in [Socket -> {"unused", "open", "cut", "gone"}]
        /\ Presence!Connected' = Presence!Connected /\ Presence!Open' = Presence!Open
        /\ listing' \subseteq Presence!Open
    BY <1>4 DEF Presence!vars, PresenceInv, Presence!TypeOK, Presence!Connected, Presence!Open
  <2> QED BY <1>1, <1>4, <2>1 DEF Presence!vars
<1> QED BY <1>2, <1>3, <1>4, ConnectStep, DisconnectStep, ListStep, ReceiveStep, CutStep,
           RestartStep DEF Presence!Next

\* Whatever tabs a user opens, and whatever connections fail and come back: once what is on its
\* way to a browser with a snapshot has come, it shows the users who are connected, no more and
\* no fewer.
THEOREM PresenceHolds == Presence!Spec => []PresenceWellFormed
<1>1. PresenceInv => PresenceWellFormed
  BY DEF PresenceInv, PresenceWellFormed
<1> QED BY <1>1, PresenceStart, PresenceNext, PTL DEF Presence!Spec
=============================================================================
