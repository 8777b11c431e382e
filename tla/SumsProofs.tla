------------------------------ MODULE SumsProofs ------------------------------
(***************************************************************************)
(* What reports and indicators add up, for any finite set of things and any   *)
(* whole numbers.  Induction is over a set of cases, which always has a       *)
(* smallest member, so that no operator has to be instantiated.               *)
(***************************************************************************)
EXTENDS Functions, FiniteSetTheorems, WellFoundedInduction, TLAPS

-----------------------------------------------------------------------------
(***************************************************************************)
(* Induction over a set of cases.                                           *)
(***************************************************************************)
Below == {p \in Nat \X Nat : p[1] < p[2]}

LEMMA SmallestOf ==
  ASSUME NEW S \in SUBSET Nat, S # {}
  PROVE  \E m \in S : \A n \in S : m <= n
<1>1. IsWellFoundedOn(Below, Nat)
  BY NatLessThanWellFounded DEF OpToRel, Below
<1>2. PICK m \in S : \A n \in S : <<n, m>> \notin Below
  BY <1>1, WFMin
<1>3. \A n \in S : ~(n < m)
  BY <1>2 DEF Below
<1> QED BY <1>3

LEMMA EveryNumber ==
  ASSUME NEW Good, 0 \in Good, \A n \in Nat : n \in Good => n + 1 \in Good
  PROVE  Nat \subseteq Good
<1> SUFFICES ASSUME NEW k \in Nat \ Good PROVE FALSE
  OBVIOUS
<1>1. PICK n \in Nat \ Good : \A m \in 0 .. n - 1 : m \in Good
  <2> DEFINE Bad == Nat \ Good
  <2>1. Bad \in SUBSET Nat /\ k \in Bad
    OBVIOUS
  <2>2. \E n \in Bad : \A m \in Bad : n <= m
    BY <2>1, SmallestOf
  <2> QED BY <2>2
<1>2. n # 0 /\ n - 1 \in Nat /\ n - 1 \in 0 .. n - 1
  BY <1>1
<1>3. n - 1 \in Good
  BY <1>1, <1>2
<1>4. (n - 1) + 1 = n
  OBVIOUS
<1> QED BY <1>1, <1>2, <1>3, <1>4

LEMMA EverySubset ==
  ASSUME NEW S, IsFiniteSet(S), NEW Good, {} \in Good,
         \A T \in SUBSET S : \A x \in S \ T : T \in Good => T \cup {x} \in Good
  PROVE  S \in Good
<1> DEFINE Sizes == {n \in Nat : \A T \in SUBSET S : Cardinality(T) = n => T \in Good}
<1>1. \A T \in SUBSET S : IsFiniteSet(T) /\ Cardinality(T) \in Nat
  BY FS_Subset, FS_CardinalityType
<1>2. 0 \in Sizes
  BY <1>1, FS_EmptySet
<1>3. ASSUME NEW n \in Nat, n \in Sizes PROVE n + 1 \in Sizes
  <2> SUFFICES ASSUME NEW T \in SUBSET S, Cardinality(T) = n + 1 PROVE T \in Good
    OBVIOUS
  <2>1. PICK x \in T : TRUE
    BY <1>1, FS_EmptySet
  <2>2. Cardinality(T \ {x}) = n /\ T \ {x} \in SUBSET S
    <3>1. IsFiniteSet(T) /\ x \in T
      BY <1>1, <2>1
    <3>2. Cardinality(T \ {x}) = Cardinality(T) - 1
      BY <3>1, FS_RemoveElement
    <3> QED BY <3>2
  <2>3. T \ {x} \in Good
    BY <1>3, <2>2
  <2>4. (T \ {x}) \cup {x} \in Good
    BY <2>2, <2>3
  <2>5. (T \ {x}) \cup {x} = T
    OBVIOUS
  <2> QED BY <2>4, <2>5
<1> HIDE DEF Sizes
<1>4. Nat \subseteq Sizes
  BY <1>2, <1>3, EveryNumber
<1> QED BY <1>1, <1>4 DEF Sizes

-----------------------------------------------------------------------------
(***************************************************************************)
(* A sum adds its terms in an order of its own: one that fits every set of    *)
(* terms exists, and every one gives the same.                               *)
(***************************************************************************)
First(s) == CHOOSE x \in s : TRUE
Adds(g, f, s) == g[s] = IF s = {} THEN 0 ELSE f[First(s)] + g[s \ {First(s)}]
Adding(g, f, S) == \A s \in SUBSET S : Adds(g, f, s)

LEMMA FirstIn == ASSUME NEW s, s # {} PROVE First(s) \in s
BY DEF First

LEMMA Smaller ==
  ASSUME NEW S, IsFiniteSet(S), NEW s \in SUBSET S
  PROVE  /\ IsFiniteSet(s) /\ Cardinality(s) \in Nat
         /\ s # {} => /\ First(s) \in s /\ s \ {First(s)} \in SUBSET S
                      /\ Cardinality(s \ {First(s)}) = Cardinality(s) - 1
                      /\ Cardinality(s) > 0
         /\ Cardinality(s) = 0 <=> s = {}
<1>1. IsFiniteSet(s) /\ Cardinality(s) \in Nat
  BY FS_Subset, FS_CardinalityType
<1>2. Cardinality(s) = 0 <=> s = {}
  BY <1>1, FS_EmptySet
<1>3. ASSUME s # {}
      PROVE  /\ First(s) \in s /\ s \ {First(s)} \in SUBSET S
             /\ Cardinality(s \ {First(s)}) = Cardinality(s) - 1
             /\ Cardinality(s) > 0
  <2>1. First(s) \in s
    BY <1>3, FirstIn
  <2>2. Cardinality(s \ {First(s)}) = Cardinality(s) - 1
    BY <1>1, <2>1, FS_RemoveElement
  <2> QED BY <1>1, <1>2, <1>3, <2>1, <2>2
<1> QED BY <1>1, <1>2, <1>3

LEMMA AddingExists ==
  ASSUME NEW S, IsFiniteSet(S), NEW f
  PROVE  \E g : Adding(g, f, S) /\ g = [s \in SUBSET S |-> g[s]]
<1> DEFINE Small(n) == {s \in SUBSET S : Cardinality(s) <= n}
           Good == {n \in Nat : \E g : \A s \in Small(n) : Adds(g, f, s)}
<1>1. 0 \in Good
  <2> DEFINE g == [s \in SUBSET S |-> 0]
  <2>1. \A s \in Small(0) : Adds(g, f, s)
    <3> SUFFICES ASSUME NEW s \in Small(0) PROVE Adds(g, f, s)
      OBVIOUS
    <3>1. s \in SUBSET S /\ Cardinality(s) <= 0
      OBVIOUS
    <3>2. Cardinality(s) \in Nat /\ (Cardinality(s) = 0 <=> s = {})
      BY <3>1, Smaller
    <3>3. s = {}
      BY <3>1, <3>2
    <3> QED BY <3>3 DEF Adds
  <2> HIDE DEF g
  <2> QED BY <2>1
<1>2. ASSUME NEW n \in Nat, n \in Good PROVE n + 1 \in Good
  <2>1. PICK g : \A s \in Small(n) : Adds(g, f, s)
    BY <1>2
  <2> DEFINE h == [s \in SUBSET S |-> IF s = {} THEN 0 ELSE f[First(s)] + g[s \ {First(s)}]]
  <2>2. \A s \in Small(n) : h[s] = g[s]
    BY <2>1 DEF Adds
  <2>3. ASSUME NEW s \in Small(n + 1) PROVE Adds(h, f, s)
    <3>1. CASE s = {}
      BY <3>1 DEF Adds
    <3>2. CASE s # {}
      <4>1. s \ {First(s)} \in Small(n)
        BY <3>2, Smaller
      <4>2. h[s \ {First(s)}] = g[s \ {First(s)}]
        BY <2>2, <4>1
      <4>3. h[s] = f[First(s)] + g[s \ {First(s)}]
        BY <3>2
      <4> QED BY <3>2, <4>2, <4>3 DEF Adds
    <3> QED BY <3>1, <3>2
  <2> HIDE DEF h
  <2> QED BY <2>3
<1> HIDE DEF Good
<1>3. Nat \subseteq Good
  BY <1>1, <1>2, EveryNumber
<1>4. Cardinality(S) \in Good
  BY <1>3, FS_CardinalityType
<1>5. PICK g : \A s \in Small(Cardinality(S)) : Adds(g, f, s)
  BY <1>4 DEF Good
<1>6. \A s \in SUBSET S : s \in Small(Cardinality(S))
  BY FS_Subset
<1>7. \A s \in SUBSET S : Adds(g, f, s)
  BY <1>5, <1>6
<1> DEFINE h == [s \in SUBSET S |-> g[s]]
<1>8. Adding(h, f, S)
  <2> SUFFICES ASSUME NEW s \in SUBSET S PROVE Adds(h, f, s)
    BY DEF Adding
  <2>1. s \ {First(s)} \in SUBSET S
    OBVIOUS
  <2> QED BY <1>7, <2>1 DEF Adds
<1>9. h = [s \in SUBSET S |-> h[s]]
  OBVIOUS
<1> HIDE DEF h
<1> QED BY <1>8, <1>9

LEMMA SumIs ==
  ASSUME NEW S, IsFiniteSet(S), NEW f
  PROVE  \E g : Adding(g, f, S) /\ SumFunctionOnSet(f, S) = g[S]
<1> DEFINE Step(g) == [s \in SUBSET S |->
                         IF s = {} THEN 0 ELSE f[CHOOSE x \in s : TRUE]
                                                 + g[s \ {CHOOSE x \in s : TRUE}]]
           iter == CHOOSE g : g = Step(g)
<1>1. SumFunctionOnSet(f, S) = iter[S]
  BY DEF SumFunctionOnSet, FoldFunctionOnSet, MapThenFoldSet
<1>2. \E g : g = Step(g)
  <2>1. PICK g : Adding(g, f, S) /\ g = [s \in SUBSET S |-> g[s]]
    BY AddingExists
  <2>2. \A s \in SUBSET S : g[s] = IF s = {} THEN 0 ELSE f[CHOOSE x \in s : TRUE]
                                                         + g[s \ {CHOOSE x \in s : TRUE}]
    BY <2>1 DEF Adding, Adds, First
  <2>3. g = Step(g)
    BY <2>1, <2>2
  <2> QED BY <2>3
<1>3. iter = Step(iter)
  BY <1>2
<1>4. \A s \in SUBSET S : iter[s] = IF s = {} THEN 0 ELSE f[CHOOSE x \in s : TRUE]
                                                 + iter[s \ {CHOOSE x \in s : TRUE}]
  <2> HIDE DEF iter
  <2> QED BY <1>3
<1>5. Adding(iter, f, S)
  BY <1>4 DEF Adding, Adds, First
<1> HIDE DEF iter
<1> QED BY <1>1, <1>5

LEMMA AddingSame ==
  ASSUME NEW S, IsFiniteSet(S), NEW f, NEW g, NEW h,
         Adding(g, f, S), Adding(h, f, S)
  PROVE  g[S] = h[S]
<1> DEFINE Sizes == {n \in Nat : \A s \in SUBSET S : Cardinality(s) = n => g[s] = h[s]}
<1>1. 0 \in Sizes
  BY Smaller DEF Adding, Adds
<1>2. ASSUME NEW n \in Nat, n \in Sizes PROVE n + 1 \in Sizes
  <2> SUFFICES ASSUME NEW s \in SUBSET S, Cardinality(s) = n + 1 PROVE g[s] = h[s]
    OBVIOUS
  <2>1. s # {} /\ s \ {First(s)} \in SUBSET S /\ Cardinality(s \ {First(s)}) = n
    BY Smaller
  <2>2. g[s \ {First(s)}] = h[s \ {First(s)}]
    BY <1>2, <2>1
  <2> QED BY <2>1, <2>2 DEF Adding, Adds
<1> HIDE DEF Sizes
<1>3. Nat \subseteq Sizes
  BY <1>1, <1>2, EveryNumber
<1> QED BY <1>3, FS_CardinalityType DEF Sizes

LEMMA SumEmpty == ASSUME NEW f PROVE SumFunctionOnSet(f, {}) = 0
<1>1. PICK g : Adding(g, f, {}) /\ SumFunctionOnSet(f, {}) = g[{}]
  BY SumIs, FS_EmptySet
<1> QED BY <1>1 DEF Adding, Adds

LEMMA SumFirst ==
  ASSUME NEW S, IsFiniteSet(S), S # {}, NEW f
  PROVE  SumFunctionOnSet(f, S) = f[First(S)] + SumFunctionOnSet(f, S \ {First(S)})
<1> DEFINE R == S \ {First(S)}
<1>1. PICK g : Adding(g, f, S) /\ SumFunctionOnSet(f, S) = g[S]
  BY SumIs
<1>2. IsFiniteSet(R)
  BY FS_RemoveElement
<1>3. PICK h : Adding(h, f, R) /\ SumFunctionOnSet(f, R) = h[R]
  BY <1>2, SumIs
<1>4. Adding(g, f, R)
  BY <1>1 DEF Adding
<1>5. g[R] = h[R]
  BY <1>2, <1>3, <1>4, AddingSame
<1>6. g[S] = f[First(S)] + g[R]
  BY <1>1 DEF Adding, Adds
<1> QED BY <1>1, <1>3, <1>5, <1>6

-----------------------------------------------------------------------------
(***************************************************************************)
(* What holds of every sum of whole numbers.                                *)
(***************************************************************************)
Whole(f, S) == \A x \in S : f[x] \in Int
Always(f, S, n) == \A x \in S : f[x] = n
Matching(f, g, S) == \A x \in S : f[x] = g[x]
Parted(f, part, g, S, P) ==
  /\ \A x \in S : part[x] \in P
  /\ \A p \in P : g[p] = SumFunctionOnSet(f, {x \in S : part[x] = p})

LEMMA SumWhole ==
  ASSUME NEW S, IsFiniteSet(S), NEW f, Whole(f, S)
  PROVE  SumFunctionOnSet(f, S) \in Int
<1> DEFINE Sizes == {n \in Nat : \A s \in SUBSET S :
                                   Cardinality(s) = n => SumFunctionOnSet(f, s) \in Int}
<1>1. 0 \in Sizes
  <2> SUFFICES ASSUME NEW s \in SUBSET S, Cardinality(s) = 0
               PROVE  SumFunctionOnSet(f, s) \in Int
    OBVIOUS
  <2>1. s = {}
    BY Smaller
  <2> QED BY <2>1, SumEmpty
<1>2. ASSUME NEW n \in Nat, n \in Sizes PROVE n + 1 \in Sizes
  <2> SUFFICES ASSUME NEW s \in SUBSET S, Cardinality(s) = n + 1
               PROVE  SumFunctionOnSet(f, s) \in Int
    OBVIOUS
  <2>1. /\ IsFiniteSet(s) /\ s # {} /\ First(s) \in s
        /\ s \ {First(s)} \in SUBSET S /\ Cardinality(s \ {First(s)}) = n
    BY Smaller
  <2>2. SumFunctionOnSet(f, s \ {First(s)}) \in Int /\ f[First(s)] \in Int
    BY <1>2, <2>1 DEF Whole
  <2>3. SumFunctionOnSet(f, s) = f[First(s)] + SumFunctionOnSet(f, s \ {First(s)})
    BY <2>1, SumFirst
  <2> QED BY <2>2, <2>3
<1> HIDE DEF Sizes
<1>3. Nat \subseteq Sizes
  BY <1>1, <1>2, EveryNumber
<1> QED BY <1>3, FS_CardinalityType DEF Sizes

\* A sum may begin with any of its terms.
LEMMA SumWithout ==
  ASSUME NEW S, IsFiniteSet(S), NEW f, Whole(f, S), NEW x \in S
  PROVE  SumFunctionOnSet(f, S) = f[x] + SumFunctionOnSet(f, S \ {x})
<1> DEFINE Sizes == {n \in Nat : \A s \in SUBSET S : Cardinality(s) = n =>
                       \A y \in s : SumFunctionOnSet(f, s) = f[y] + SumFunctionOnSet(f, s \ {y})}
<1>1. 0 \in Sizes
  BY Smaller
<1>2. ASSUME NEW n \in Nat, n \in Sizes PROVE n + 1 \in Sizes
  <2> SUFFICES ASSUME NEW s \in SUBSET S, Cardinality(s) = n + 1, NEW y \in s
               PROVE  SumFunctionOnSet(f, s) = f[y] + SumFunctionOnSet(f, s \ {y})
    OBVIOUS
  <2> DEFINE z == First(s)
  <2>1. /\ IsFiniteSet(s) /\ s # {} /\ z \in s
        /\ s \ {z} \in SUBSET S /\ Cardinality(s \ {z}) = n
    BY Smaller
  <2>2. SumFunctionOnSet(f, s) = f[z] + SumFunctionOnSet(f, s \ {z})
    BY <2>1, SumFirst
  <2> HIDE DEF z
  <2>3. CASE y = z
    BY <2>2, <2>3
  <2>4. CASE y # z
    <3> DEFINE A == s \ {z}
               B == s \ {y}
               C == A \ {y}
    <3>1. y \in A /\ z \in B /\ C = B \ {z} /\ B \in SUBSET S /\ C \in SUBSET S
      BY <2>1, <2>4
    <3>2. Cardinality(B) = n
      BY <2>1, FS_RemoveElement
    <3>3. SumFunctionOnSet(f, A) = f[y] + SumFunctionOnSet(f, C)
      BY <1>2, <2>1, <3>1
    <3>4. SumFunctionOnSet(f, B) = f[z] + SumFunctionOnSet(f, C)
      BY <1>2, <3>1, <3>2
    <3>5. Whole(f, C) /\ IsFiniteSet(C)
      BY <3>1, FS_Subset DEF Whole
    <3>6. SumFunctionOnSet(f, C) \in Int /\ f[y] \in Int /\ f[z] \in Int
      BY <2>1, <3>5, SumWhole DEF Whole
    <3> HIDE DEF C
    <3> QED BY <2>2, <3>3, <3>4, <3>6
  <2> QED BY <2>3, <2>4
<1> HIDE DEF Sizes
<1>3. Nat \subseteq Sizes
  BY <1>1, <1>2, EveryNumber
<1> QED BY <1>3, FS_CardinalityType DEF Sizes

LEMMA SumWith ==
  ASSUME NEW S, IsFiniteSet(S), NEW f, Whole(f, S), NEW x, x \notin S, f[x] \in Int
  PROVE  /\ IsFiniteSet(S \cup {x}) /\ Whole(f, S \cup {x})
         /\ SumFunctionOnSet(f, S \cup {x}) = SumFunctionOnSet(f, S) + f[x]
         /\ SumFunctionOnSet(f, S) \in Int
<1>1. IsFiniteSet(S \cup {x}) /\ Whole(f, S \cup {x})
  BY FS_AddElement DEF Whole
<1>2. SumFunctionOnSet(f, S \cup {x}) = f[x] + SumFunctionOnSet(f, (S \cup {x}) \ {x})
  BY <1>1, SumWithout
<1>3. (S \cup {x}) \ {x} = S
  OBVIOUS
<1>4. SumFunctionOnSet(f, S \cup {x}) = f[x] + SumFunctionOnSet(f, S)
  BY <1>2, <1>3
<1>5. SumFunctionOnSet(f, S) \in Int
  BY SumWhole
<1> QED BY <1>1, <1>4, <1>5

\* A sequence behind one more number.
LEMMA SumBehind ==
  ASSUME NEW n \in Nat, NEW f, NEW g, f[1] \in Int,
         \A i \in 1..n : f[i + 1] = g[i] /\ g[i] \in Int
  PROVE  SumFunctionOnSet(f, 1..(n + 1)) = f[1] + SumFunctionOnSet(g, 1..n)
<1> DEFINE Good == {k \in Nat : k <= n =>
                      SumFunctionOnSet(f, 1..(k + 1)) = f[1] + SumFunctionOnSet(g, 1..k)}
<1>1. 0 \in Good
  <2>1. 1..0 = {} /\ 1..(0 + 1) = {} \cup {1} /\ 1 \notin {}
    OBVIOUS
  <2>2. SumFunctionOnSet(g, {}) = 0 /\ SumFunctionOnSet(f, {}) = 0
    BY SumEmpty
  <2>3. IsFiniteSet({}) /\ Whole(f, {})
    BY FS_EmptySet DEF Whole
  <2>4. SumFunctionOnSet(f, {} \cup {1}) = SumFunctionOnSet(f, {}) + f[1]
    BY <2>1, <2>3, SumWith
  <2> QED BY <2>1, <2>2, <2>4
<1>2. ASSUME NEW k \in Nat, k \in Good PROVE k + 1 \in Good
  <2> SUFFICES ASSUME k + 1 <= n
               PROVE SumFunctionOnSet(f, 1..((k + 1) + 1)) = f[1] + SumFunctionOnSet(g, 1..(k + 1))
    OBVIOUS
  <2>1. SumFunctionOnSet(f, 1..(k + 1)) = f[1] + SumFunctionOnSet(g, 1..k)
    BY <1>2
  <2>2. IsFiniteSet(1..k) /\ IsFiniteSet(1..(k + 1))
    BY FS_Interval
  <2>3. ASSUME NEW i \in 1..((k + 1) + 1) PROVE f[i] \in Int
    <3>1. CASE i = 1
      BY <3>1
    <3>2. CASE i # 1
      <4>1. PICK j \in 1..n : i = j + 1
        BY <3>2
      <4> QED BY <4>1
    <3> QED BY <3>1, <3>2
  <2>4. Whole(g, 1..k) /\ Whole(f, 1..(k + 1)) /\ k + 1 \in 1..n
    BY <2>3 DEF Whole
  <2>0. \A S : IsFiniteSet(S) => \A h : Whole(h, S) => \A x : x \notin S /\ h[x] \in Int =>
          /\ SumFunctionOnSet(h, S \cup {x}) = SumFunctionOnSet(h, S) + h[x]
          /\ SumFunctionOnSet(h, S) \in Int
    BY SumWith
  <2>5. PICK A, B, i, j : A = 1..k /\ B = 1..(k + 1) /\ i = k + 1 /\ j = (k + 1) + 1
    OBVIOUS
  <2>6. f[j] = g[i] /\ g[i] \in Int /\ f[j] \in Int
    BY <2>4, <2>5
  <2>7. 1..(k + 1) = A \cup {i} /\ i \notin A /\ 1..((k + 1) + 1) = B \cup {j} /\ j \notin B
    BY <2>5
  <2>8. /\ IsFiniteSet(A) /\ Whole(g, A) /\ IsFiniteSet(B) /\ Whole(f, B)
        /\ SumFunctionOnSet(f, B) = f[1] + SumFunctionOnSet(g, A)
    BY <2>1, <2>2, <2>4, <2>5
  <2>9. /\ SumFunctionOnSet(g, A \cup {i}) = SumFunctionOnSet(g, A) + g[i]
        /\ SumFunctionOnSet(g, A) \in Int
    BY <2>6, <2>7, <2>8, <2>0
  <2>10. SumFunctionOnSet(f, B \cup {j}) = SumFunctionOnSet(f, B) + f[j]
    BY <2>6, <2>7, <2>8, <2>0
  <2>11. SumFunctionOnSet(f, B \cup {j}) = f[1] + SumFunctionOnSet(g, A \cup {i})
    BY <2>6, <2>8, <2>9, <2>10
  <2> QED BY <2>7, <2>11
<1> HIDE DEF Good
<1>3. n \in Good
  BY <1>1, <1>2, EveryNumber
<1> QED BY <1>3 DEF Good

LEMMA SumSame ==
  ASSUME NEW S, IsFiniteSet(S), NEW f, NEW g, Whole(f, S), Matching(f, g, S)
  PROVE  SumFunctionOnSet(f, S) = SumFunctionOnSet(g, S)
<1> DEFINE Good == {s \in SUBSET S : SumFunctionOnSet(f, s) = SumFunctionOnSet(g, s)}
<1>1. {} \in Good
  BY SumEmpty
<1>2. ASSUME NEW s \in SUBSET S, NEW x \in S \ s, s \in Good PROVE s \cup {x} \in Good
  <2>1. IsFiniteSet(s) /\ Whole(f, s) /\ Whole(g, s) /\ f[x] \in Int /\ g[x] \in Int /\ x \notin s
    BY FS_Subset DEF Whole, Matching
  <2>2. SumFunctionOnSet(f, s \cup {x}) = SumFunctionOnSet(f, s) + f[x]
    BY <2>1, SumWith
  <2>3. SumFunctionOnSet(g, s \cup {x}) = SumFunctionOnSet(g, s) + g[x]
    BY <2>1, SumWith, Zenon
  <2>5. f[x] = g[x]
    BY DEF Matching
  <2>4. SumFunctionOnSet(f, s \cup {x}) = SumFunctionOnSet(g, s \cup {x})
    BY <1>2, <2>2, <2>3, <2>5
  <2> QED BY <2>4
<1> HIDE DEF Good
<1>3. S \in Good
  BY <1>1, <1>2, EverySubset
<1> QED BY <1>3 DEF Good

LEMMA SumOfNone ==
  ASSUME NEW S, IsFiniteSet(S), NEW f, Always(f, S, 0)
  PROVE  SumFunctionOnSet(f, S) = 0
<1> DEFINE Good == {s \in SUBSET S : SumFunctionOnSet(f, s) = 0}
<1>1. {} \in Good
  BY SumEmpty
<1>2. ASSUME NEW s \in SUBSET S, NEW x \in S \ s, s \in Good PROVE s \cup {x} \in Good
  <2>1. IsFiniteSet(s) /\ Whole(f, s) /\ f[x] \in Int /\ f[x] = 0 /\ x \notin s
    BY FS_Subset DEF Whole, Always
  <2> QED BY <1>2, <2>1, SumWith
<1> HIDE DEF Good
<1>3. S \in Good
  BY <1>1, <1>2, EverySubset
<1> QED BY <1>3 DEF Good

\* A sum of two parts, and one that most terms do not change.
LEMMA SumParts ==
  ASSUME NEW A, NEW B, IsFiniteSet(A \cup B), A \cap B = {},
         NEW f, Whole(f, A \cup B)
  PROVE  /\ SumFunctionOnSet(f, A \cup B) = SumFunctionOnSet(f, A) + SumFunctionOnSet(f, B)
         /\ SumFunctionOnSet(f, A) \in Int /\ SumFunctionOnSet(f, B) \in Int
<1> DEFINE Good == {s \in SUBSET B :
                      SumFunctionOnSet(f, A \cup s) = SumFunctionOnSet(f, A) + SumFunctionOnSet(f, s)}
<1>1. /\ IsFiniteSet(A) /\ IsFiniteSet(B) /\ Whole(f, A) /\ Whole(f, B)
      /\ SumFunctionOnSet(f, A) \in Int /\ SumFunctionOnSet(f, B) \in Int
  <2>1. IsFiniteSet(A) /\ IsFiniteSet(B) /\ Whole(f, A) /\ Whole(f, B)
    BY FS_Subset DEF Whole
  <2> QED BY <2>1, SumWhole
<1>2. {} \in Good
  <2>1. A \cup {} = A
    OBVIOUS
  <2> QED BY <1>1, <2>1, SumEmpty
<1>3. ASSUME NEW s \in SUBSET B, NEW x \in B \ s, s \in Good PROVE s \cup {x} \in Good
  <2>1. /\ IsFiniteSet(s) /\ Whole(f, s) /\ f[x] \in Int /\ x \notin s
        /\ IsFiniteSet(A \cup s) /\ Whole(f, A \cup s) /\ x \notin A \cup s
    BY <1>1, FS_Subset DEF Whole
  <2>2. SumFunctionOnSet(f, s \cup {x}) = SumFunctionOnSet(f, s) + f[x]
        /\ SumFunctionOnSet(f, s) \in Int
    BY <2>1, SumWith, Zenon
  <2>3. SumFunctionOnSet(f, (A \cup s) \cup {x}) = SumFunctionOnSet(f, A \cup s) + f[x]
    BY <2>1, SumWith, Zenon
  <2>4. (A \cup s) \cup {x} = A \cup (s \cup {x})
    OBVIOUS
  <2>5. SumFunctionOnSet(f, A \cup s) = SumFunctionOnSet(f, A) + SumFunctionOnSet(f, s)
    BY <1>3
  <2>6. SumFunctionOnSet(f, A \cup (s \cup {x})) = SumFunctionOnSet(f, A \cup s) + f[x]
    BY <2>3, <2>4
  <2> DEFINE all == SumFunctionOnSet(f, A \cup (s \cup {x}))
             some == SumFunctionOnSet(f, s \cup {x})
  <2> HIDE DEF all, some
  <2>7. all = SumFunctionOnSet(f, A \cup s) + f[x] /\ some = SumFunctionOnSet(f, s) + f[x]
    BY <2>2, <2>6 DEF all, some
  <2>8. all = SumFunctionOnSet(f, A) + some
    BY <1>1, <2>1, <2>2, <2>5, <2>7
  <2> QED BY <2>8 DEF all, some
<1> HIDE DEF Good
<1>4. B \in Good
  BY <1>1, <1>2, <1>3, EverySubset
<1> QED BY <1>1, <1>4 DEF Good

\* Terms that differ by at most m each give sums that differ by at most m for each.
LEMMA SumNear ==
  ASSUME NEW S, IsFiniteSet(S), NEW f, NEW g, Whole(f, S), Whole(g, S), NEW m \in Nat,
         NEW k \in Nat, \A x \in S : k * f[x] - g[x] \in -m .. m
  PROVE  k * SumFunctionOnSet(f, S) - SumFunctionOnSet(g, S)
           \in -(m * Cardinality(S)) .. m * Cardinality(S)
<1> DEFINE Off(s) == k * SumFunctionOnSet(f, s) - SumFunctionOnSet(g, s)
           Good == {s \in SUBSET S : Off(s) \in -(m * Cardinality(s)) .. m * Cardinality(s)}
<1>1. {} \in Good
  <2>1. SumFunctionOnSet(f, {}) = 0 /\ SumFunctionOnSet(g, {}) = 0 /\ Cardinality({}) = 0
    BY SumEmpty, FS_EmptySet
  <2>2. k * 0 = 0 /\ m * 0 = 0
    OBVIOUS
  <2> QED BY <2>1, <2>2
<1>2. ASSUME NEW s \in SUBSET S, NEW x \in S \ s, s \in Good PROVE s \cup {x} \in Good
  <2>1. /\ IsFiniteSet(s) /\ Whole(f, s) /\ Whole(g, s)
        /\ f[x] \in Int /\ g[x] \in Int /\ x \notin s
    BY FS_Subset DEF Whole
  <2>2. SumFunctionOnSet(f, s \cup {x}) = SumFunctionOnSet(f, s) + f[x]
        /\ SumFunctionOnSet(f, s) \in Int
    BY <2>1, SumWith, Zenon
  <2>3. SumFunctionOnSet(g, s \cup {x}) = SumFunctionOnSet(g, s) + g[x]
        /\ SumFunctionOnSet(g, s) \in Int
    BY <2>1, SumWith, Zenon
  <2>4. Cardinality(s \cup {x}) = Cardinality(s) + 1 /\ Cardinality(s) \in Nat
    BY <2>1, FS_AddElement, FS_CardinalityType
  <2>5. \A a, b \in Int : k * (a + b) = k * a + k * b
    OBVIOUS
  <2>6. \A n \in Nat : m * (n + 1) = m * n + m /\ m * n \in Nat
    OBVIOUS
  <2>7. k * SumFunctionOnSet(f, s \cup {x}) = k * SumFunctionOnSet(f, s) + k * f[x]
    BY <2>1, <2>2, <2>5
  <2>8. /\ k * SumFunctionOnSet(f, s) \in Int /\ k * f[x] \in Int
    BY <2>1, <2>2
  <2>9. m * Cardinality(s \cup {x}) = m * Cardinality(s) + m /\ m * Cardinality(s) \in Nat
    BY <2>4, <2>6
  <2>10. /\ Off(s) \in -(m * Cardinality(s)) .. m * Cardinality(s)
         /\ k * f[x] - g[x] \in -m .. m
    BY <1>2
  <2>11. Off(s \cup {x}) = Off(s) + (k * f[x] - g[x]) /\ Off(s) \in Int
    BY <2>1, <2>2, <2>3, <2>7, <2>8
  <2> HIDE DEF Off
  <2> QED BY <2>9, <2>10, <2>11
<1> HIDE DEF Good
<1>3. S \in Good
  BY <1>1, <1>2, EverySubset
<1> QED BY <1>3 DEF Good

\* Totals of parts add up to the total, whatever the parts.
LEMMA SumByParts ==
  ASSUME NEW S, IsFiniteSet(S), NEW P, IsFiniteSet(P), NEW f, Whole(f, S),
         NEW part, NEW g, Parted(f, part, g, S, P)
  PROVE  SumFunctionOnSet(g, P) = SumFunctionOnSet(f, S) /\ Whole(g, P)
<1> DEFINE In(Q) == {x \in S : part[x] \in Q}
           Of(p) == {x \in S : part[x] = p}
           Good == {Q \in SUBSET P : SumFunctionOnSet(g, Q) = SumFunctionOnSet(f, In(Q))}
<1>1. \A T \in SUBSET S : IsFiniteSet(T) /\ Whole(f, T)
  BY FS_Subset DEF Whole
<1>2. \A T \in SUBSET S : SumFunctionOnSet(f, T) \in Int
  BY <1>1, SumWhole
<1>3. Whole(g, P)
  BY <1>2 DEF Whole, Parted
<1>4. {} \in Good
  <2>1. In({}) = {}
    OBVIOUS
  <2> QED BY <2>1, SumEmpty
<1>5. ASSUME NEW Q \in SUBSET P, NEW p \in P \ Q, Q \in Good PROVE Q \cup {p} \in Good
  <2>1. IsFiniteSet(Q) /\ Whole(g, Q) /\ g[p] \in Int /\ p \notin Q
    BY <1>3, FS_Subset DEF Whole
  <2>2. SumFunctionOnSet(g, Q \cup {p}) = SumFunctionOnSet(g, Q) + g[p]
    BY <2>1, SumWith, Zenon
  <2>3. /\ In(Q \cup {p}) = In(Q) \cup Of(p) /\ In(Q) \cap Of(p) = {}
        /\ IsFiniteSet(In(Q \cup {p})) /\ Whole(f, In(Q \cup {p}))
    BY <1>1 DEF Parted
  <2>4. SumFunctionOnSet(g, Q) = SumFunctionOnSet(f, In(Q)) /\ g[p] = SumFunctionOnSet(f, Of(p))
    BY <1>5 DEF Parted
  <2> HIDE DEF In, Of
  <2>5. SumFunctionOnSet(f, In(Q \cup {p}))
          = SumFunctionOnSet(f, In(Q)) + SumFunctionOnSet(f, Of(p))
    <3>1. /\ IsFiniteSet(In(Q) \cup Of(p)) /\ Whole(f, In(Q) \cup Of(p))
          /\ In(Q) \cap Of(p) = {}
      BY <2>3
    <3>2. SumFunctionOnSet(f, In(Q) \cup Of(p))
            = SumFunctionOnSet(f, In(Q)) + SumFunctionOnSet(f, Of(p))
      BY <3>1, SumParts, Zenon
    <3> QED BY <2>3, <3>2
  <2>6. SumFunctionOnSet(g, Q \cup {p}) = SumFunctionOnSet(f, In(Q \cup {p}))
    BY <2>2, <2>4, <2>5
  <2> QED BY <2>6
<1> HIDE DEF Good
<1>6. P \in Good
  BY <1>4, <1>5, EverySubset
<1>7. In(P) = S
  BY DEF Parted
<1> QED BY <1>3, <1>6, <1>7 DEF Good

LEMMA SumOfOnes ==
  ASSUME NEW S, IsFiniteSet(S), NEW f, Always(f, S, 1)
  PROVE  SumFunctionOnSet(f, S) = Cardinality(S)
<1> DEFINE Good == {s \in SUBSET S : SumFunctionOnSet(f, s) = Cardinality(s)}
<1>1. {} \in Good
  BY SumEmpty, FS_EmptySet
<1>2. ASSUME NEW s \in SUBSET S, NEW x \in S \ s, s \in Good PROVE s \cup {x} \in Good
  <2>1. IsFiniteSet(s) /\ Whole(f, s) /\ f[x] \in Int /\ x \notin s
    BY FS_Subset DEF Whole, Always
  <2>2. SumFunctionOnSet(f, s \cup {x}) = SumFunctionOnSet(f, s) + f[x]
    BY <2>1, SumWith, Zenon
  <2>3. Cardinality(s \cup {x}) = Cardinality(s) + 1
    BY <2>1, FS_AddElement
  <2>5. f[x] = 1
    BY DEF Always
  <2>4. SumFunctionOnSet(f, s \cup {x}) = Cardinality(s \cup {x})
    BY <1>2, <2>1, <2>2, <2>3, <2>5
  <2> QED BY <2>4
<1> HIDE DEF Good
<1>3. S \in Good
  BY <1>1, <1>2, EverySubset
<1> QED BY <1>3 DEF Good

\* Nothing is taken away by a term that is not negative.
LEMMA SumNatural ==
  ASSUME NEW S, IsFiniteSet(S), NEW f, \A x \in S : f[x] \in Nat
  PROVE  SumFunctionOnSet(f, S) \in Nat
<1> DEFINE Good == {s \in SUBSET S : SumFunctionOnSet(f, s) \in Nat}
<1>1. {} \in Good
  BY SumEmpty
<1>2. ASSUME NEW s \in SUBSET S, NEW x \in S \ s, s \in Good PROVE s \cup {x} \in Good
  <2>1. IsFiniteSet(s) /\ Whole(f, s) /\ f[x] \in Int /\ f[x] \in Nat /\ x \notin s
    BY FS_Subset DEF Whole
  <2>2. SumFunctionOnSet(f, s \cup {x}) = SumFunctionOnSet(f, s) + f[x]
    BY <2>1, SumWith, Zenon
  <2>3. SumFunctionOnSet(f, s \cup {x}) \in Nat
    BY <1>2, <2>1, <2>2
  <2> QED BY <2>3
<1> HIDE DEF Good
<1>3. S \in Good
  BY <1>1, <1>2, EverySubset
<1> QED BY <1>3 DEF Good

LEMMA ImageFinite ==
  ASSUME NEW S, IsFiniteSet(S), NEW f
  PROVE  IsFiniteSet({f[x] : x \in S})
<1> DEFINE T == {f[x] : x \in S}
           g == [x \in S |-> f[x]]
<1>1. g \in Surjection(S, T)
  BY DEF Surjection
<1> HIDE DEF T, g
<1>2. IsFiniteSet(T)
  BY <1>1, FS_Surjection
<1> QED BY <1>2 DEF T

\* A finite set of numbers has a least one.
LEMMA LeastOf ==
  ASSUME NEW S, IsFiniteSet(S), S # {}, S \subseteq Int
  PROVE  \E m \in S : \A n \in S : m <= n
<1> DEFINE Good == {T \in SUBSET S : T = {} \/ \E m \in T : \A n \in T : m <= n}
<1>1. {} \in Good
  OBVIOUS
<1>2. ASSUME NEW T \in SUBSET S, NEW x \in S \ T, T \in Good PROVE T \cup {x} \in Good
  <2>1. x \in Int /\ T \subseteq Int
    OBVIOUS
  <2>2. CASE T = {}
    BY <2>1, <2>2
  <2>3. CASE T # {}
    <3>1. PICK m \in T : \A n \in T : m <= n
      BY <1>2, <2>3
    <3>2. CASE m <= x
      BY <2>1, <3>1, <3>2
    <3>3. CASE x < m
      BY <2>1, <3>1, <3>3
    <3> QED BY <2>1, <3>2, <3>3
  <2> QED BY <2>2, <2>3
<1> HIDE DEF Good
<1>3. S \in Good
  BY <1>1, <1>2, EverySubset
<1> QED BY <1>3 DEF Good
=============================================================================
