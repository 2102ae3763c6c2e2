----------------------------- MODULE FiniteSums -----------------------------
(***************************************************************************)
(* Lemmas about numbers and about folds of finite sets that add up.        *)
(*                                                                         *)
(* MapThenFoldSet of the community modules applies a function defined by   *)
(* recursion on the subsets of the set.  That there is such a function is  *)
(* shown here by induction on their cardinality (SumExists), then that its *)
(* values are natural numbers (SumsAreNat), that any element may be added  *)
(* last (SumsSplit) and that larger numbers have a larger sum              *)
(* (SumsMonotone).                                                         *)
(***************************************************************************)
EXTENDS Integers, FiniteSetTheorems, WellFoundedInduction, TLAPS

\* A bounded set of numbers has a largest one.
LEMMA LargestExists ==
  ASSUME NEW S, NEW lo \in Int, NEW hi \in Int, S \subseteq lo..hi, S # {}
  PROVE  \E n \in S : \A m \in S : m <= n
<1> DEFINE D == {hi - n : n \in S}
           R == {ss \in Nat \X Nat : ss[1] < ss[2]}
<1>1. D \subseteq Nat /\ D # {}
  OBVIOUS
<1>2. IsWellFoundedOn(R, Nat)
  BY NatLessThanWellFounded DEF OpToRel
<1>3. \E d \in D : \A e \in D : ~(<<e, d>> \in R)
  BY <1>1, <1>2, WFMin
<1>4. PICK d \in D : \A e \in D : ~(<<e, d>> \in R)
  BY <1>3
<1>5. PICK m \in S : d = hi - m
  OBVIOUS
<1>6. ASSUME NEW k \in S PROVE k <= m
  <2>1. hi - k \in D /\ hi - k \in Nat /\ hi - m \in Nat
    BY <1>1
  <2>2. ~(hi - k < hi - m)
    BY <1>4, <1>5, <2>1
  <2> QED
    BY <2>2
<1> QED
  BY <1>6

\* The element a fold of a set takes next.
Some(s) == CHOOSE x \in s : TRUE

\* g sums a over the subsets in D.
Sums(g, a, D) == \A s \in D : g[s] = IF s = {} THEN 0 ELSE a[Some(s)] + g[s \ {Some(s)}]

LEMMA SumExists ==
  ASSUME NEW S, IsFiniteSet(S), NEW a \in [S -> Nat]
  PROVE  \E g \in [SUBSET S -> Nat] : Sums(g, a, SUBSET S)
<1> DEFINE D(k) == {s \in SUBSET S : Cardinality(s) <= k}
           P(k) == \E g \in [D(k) -> Nat] : Sums(g, a, D(k))
           B == {k \in Nat : ~P(k)}
<1>1. \A s \in SUBSET S : IsFiniteSet(s) /\ Cardinality(s) \in Nat
  BY FS_Subset, FS_CardinalityType
<1>2. B = {}
  <2> SUFFICES ASSUME B # {} PROVE FALSE
    OBVIOUS
  <2>1. PICK k \in B : \A i \in B : ~(<<i, k>> \in OpToRel(<, Nat))
    <3>1. B \subseteq Nat
      OBVIOUS
    <3> HIDE DEF B
    <3> QED
      BY <3>1, NatLessThanWellFounded, WFMin
  <2>2. k \in Nat /\ ~P(k)
    OBVIOUS
  <2>3. \A i \in Nat : i < k => P(i)
    BY <2>1 DEF OpToRel
  <2>4. CASE k = 0
    <3>1. \A s \in D(0) : s = {}
      BY <1>1, FS_EmptySet
    <3>2. Sums([s \in D(0) |-> 0], a, D(0))
      BY <3>1 DEF Sums
    <3>3. P(0)
      BY <3>2
    <3> QED
      BY <2>2, <2>4, <3>3
  <2>5. CASE k > 0
    <3>1. k - 1 \in Nat /\ k - 1 < k
      BY <2>2, <2>5
    <3>2. P(k - 1)
      <4> HIDE DEF P
      <4> QED
        BY <2>3, <3>1
    <3>3. PICK g \in [D(k - 1) -> Nat] : Sums(g, a, D(k - 1))
      BY <3>2
    <3> DEFINE h == [s \in D(k) |-> IF s = {} THEN 0 ELSE a[Some(s)] + g[s \ {Some(s)}]]
    <3>4. \A s \in D(k) : s # {} => Some(s) \in S /\ s \ {Some(s)} \in D(k - 1)
      <4> SUFFICES ASSUME NEW s \in D(k), s # {} PROVE Some(s) \in S /\ s \ {Some(s)} \in D(k - 1)
        OBVIOUS
      <4>1. Some(s) \in s
        BY DEF Some
      <4>2. Cardinality(s \ {Some(s)}) = Cardinality(s) - 1
        BY <1>1, <4>1, FS_RemoveElement
      <4> QED
        BY <1>1, <2>2, <4>1, <4>2
    <3>5. D(k - 1) \subseteq D(k)
      BY <1>1, <2>2
    <3>6. h \in [D(k) -> Nat]
      <4> SUFFICES ASSUME NEW s \in D(k), s # {} PROVE a[Some(s)] + g[s \ {Some(s)}] \in Nat
        OBVIOUS
      <4>1. g[s \ {Some(s)}] \in Nat /\ a[Some(s)] \in Nat
        BY <3>4
      <4> QED
        BY <4>1
    <3>7. \A s \in D(k - 1) : h[s] = g[s]
      <4> HIDE DEF D
      <4> QED
        BY <3>3, <3>5 DEF Sums
    <3>8. Sums(h, a, D(k))
      <4> SUFFICES ASSUME NEW s \in D(k)
                   PROVE  h[s] = IF s = {} THEN 0 ELSE a[Some(s)] + h[s \ {Some(s)}]
        BY DEF Sums
      <4>1. s # {} => h[s \ {Some(s)}] = g[s \ {Some(s)}]
        <5> HIDE DEF D, h
        <5> QED
          BY <3>4, <3>7
      <4> HIDE DEF D
      <4> QED
        BY <4>1
    <3>9. P(k)
      <4> HIDE DEF h, D
      <4> QED
        BY <3>6, <3>8
    <3> HIDE DEF P
    <3> QED
      BY <2>2, <3>9
  <2> QED
    BY <2>2, <2>4, <2>5
<1>3. Cardinality(S) \in Nat /\ P(Cardinality(S))
  BY <1>1, <1>2
<1>4. D(Cardinality(S)) = SUBSET S
  BY FS_Subset
<1> QED
  BY <1>3, <1>4

\* What sums over the subsets of a finite set is a natural number.
LEMMA SumsAreNat ==
  ASSUME NEW S, IsFiniteSet(S), NEW a \in [S -> Nat], NEW g, Sums(g, a, SUBSET S)
  PROVE  g[S] \in Nat
<1> DEFINE B == {Cardinality(s) : s \in {r \in SUBSET S : g[r] \notin Nat}}
<1>1. \A s \in SUBSET S : IsFiniteSet(s) /\ Cardinality(s) \in Nat
  BY FS_Subset, FS_CardinalityType
<1>2. SUFFICES ASSUME B # {} PROVE FALSE
  OBVIOUS
<1>3. PICK k \in B : \A i \in B : ~(<<i, k>> \in OpToRel(<, Nat))
  <2>1. B \subseteq Nat
    BY <1>1
  <2> HIDE DEF B
  <2> QED
    BY <1>2, <2>1, NatLessThanWellFounded, WFMin
<1>4. PICK s \in SUBSET S : g[s] \notin Nat /\ Cardinality(s) = k
  OBVIOUS
<1>5. s # {} /\ Some(s) \in s /\ g[s] = a[Some(s)] + g[s \ {Some(s)}]
  <2>1. g[s] = IF s = {} THEN 0 ELSE a[Some(s)] + g[s \ {Some(s)}]
    BY DEF Sums
  <2>2. s # {}
    BY <1>4, <2>1
  <2> QED
    BY <2>1, <2>2 DEF Some
<1>6. Cardinality(s \ {Some(s)}) = Cardinality(s) - 1 /\ s \ {Some(s)} \in SUBSET S
  BY <1>1, <1>5, FS_RemoveElement
<1>7. g[s \ {Some(s)}] \in Nat
  <2>1. Cardinality(s \ {Some(s)}) \in Nat /\ k \in Nat /\ Cardinality(s \ {Some(s)}) < k
    BY <1>1, <1>4, <1>6
  <2>2. Cardinality(s \ {Some(s)}) \notin B
    BY <1>3, <2>1 DEF OpToRel
  <2> QED
    BY <1>6, <2>2
<1> QED
  BY <1>4, <1>5, <1>7

LEMMA SumsOfPartsAreNat ==
  ASSUME NEW S, IsFiniteSet(S), NEW a \in [S -> Nat], NEW g, Sums(g, a, SUBSET S)
  PROVE  \A s \in SUBSET S : g[s] \in Nat
<1> SUFFICES ASSUME NEW s \in SUBSET S PROVE g[s] \in Nat
  OBVIOUS
<1> DEFINE b == [x \in s |-> a[x]]
<1>1. IsFiniteSet(s) /\ b \in [s -> Nat]
  BY FS_Subset
<1>2. Sums(g, b, SUBSET s)
  BY DEF Sums, Some
<1> HIDE DEF b
<1> QED
  BY <1>1, <1>2, SumsAreNat

\* It does not matter which element is added last.
LEMMA SumsSplit ==
  ASSUME NEW S, IsFiniteSet(S), NEW a \in [S -> Nat], NEW g, Sums(g, a, SUBSET S)
  PROVE  \A R \in SUBSET S : \A w \in R : g[R] = a[w] + g[R \ {w}]
<1> DEFINE Split(s) == \A x \in s : g[s] = a[x] + g[s \ {x}]
           B == {Cardinality(s) : s \in {r \in SUBSET S : ~Split(r)}}
<1>1. \A s \in SUBSET S : IsFiniteSet(s) /\ Cardinality(s) \in Nat
  BY FS_Subset, FS_CardinalityType
<1>2. \A s \in SUBSET S : g[s] \in Nat
  BY SumsOfPartsAreNat
<1>3. B = {}
  <2> SUFFICES ASSUME B # {} PROVE FALSE
    OBVIOUS
  <2>1. PICK k \in B : \A i \in B : ~(<<i, k>> \in OpToRel(<, Nat))
    <3>1. B \subseteq Nat
      BY <1>1
    <3> HIDE DEF B
    <3> QED
      BY <3>1, NatLessThanWellFounded, WFMin
  <2>2. PICK s \in SUBSET S : ~Split(s) /\ Cardinality(s) = k
    OBVIOUS
  <2>3. PICK x \in s : g[s] # a[x] + g[s \ {x}]
    BY <2>2
  <2> DEFINE y == Some(s)
  <2>4. y \in s /\ g[s] = a[y] + g[s \ {y}]
    <3>1. g[s] = IF s = {} THEN 0 ELSE a[y] + g[s \ {y}]
      BY DEF Sums
    <3> QED
      BY <2>3, <3>1 DEF Some
  <2> HIDE DEF y
  <2>5. x # y
    BY <2>3, <2>4
  <2>6. ASSUME NEW r \in SUBSET S, Cardinality(r) = k - 1 PROVE Split(r)
    <3>1. Cardinality(r) \in Nat /\ k \in Nat /\ Cardinality(r) < k
      BY <1>1, <2>2, <2>6
    <3>2. Cardinality(r) \notin B
      BY <2>1, <3>1 DEF OpToRel
    <3> QED
      BY <3>2
  <2>7. /\ s \ {x} \in SUBSET S /\ Cardinality(s \ {x}) = k - 1
        /\ s \ {y} \in SUBSET S /\ Cardinality(s \ {y}) = k - 1
    BY <1>1, <2>2, <2>4, FS_RemoveElement
  <2>8. /\ g[s \ {x}] = a[y] + g[(s \ {x}) \ {y}]
        /\ g[s \ {y}] = a[x] + g[(s \ {y}) \ {x}]
    BY <2>4, <2>5, <2>6, <2>7
  <2>9. (s \ {x}) \ {y} = (s \ {y}) \ {x} /\ (s \ {x}) \ {y} \in SUBSET S
    OBVIOUS
  <2>10. g[(s \ {x}) \ {y}] \in Nat /\ a[x] \in Nat /\ a[y] \in Nat
    BY <1>2, <2>4, <2>9
  <2>11. /\ g[s] = a[y] + (a[x] + g[(s \ {x}) \ {y}])
         /\ a[x] + g[s \ {x}] = a[x] + (a[y] + g[(s \ {x}) \ {y}])
    BY <2>4, <2>8, <2>9
  <2> QED
    BY <2>3, <2>10, <2>11
<1> QED
  BY <1>3

\* Larger numbers have a larger sum.
LEMMA SumsMonotone ==
  ASSUME NEW S, IsFiniteSet(S), NEW a \in [S -> Nat], NEW b \in [S -> Nat],
         NEW g, Sums(g, a, SUBSET S), NEW h, Sums(h, b, SUBSET S)
  PROVE  \A R \in SUBSET S : (\A x \in R : a[x] <= b[x]) => g[R] <= h[R]
<1> DEFINE Below(s) == (\A x \in s : a[x] <= b[x]) => g[s] <= h[s]
           B == {Cardinality(s) : s \in {r \in SUBSET S : ~Below(r)}}
<1>1. \A s \in SUBSET S : IsFiniteSet(s) /\ Cardinality(s) \in Nat
  BY FS_Subset, FS_CardinalityType
<1>2. \A s \in SUBSET S : g[s] \in Nat /\ h[s] \in Nat
  BY SumsOfPartsAreNat
<1>3. SUFFICES ASSUME B # {} PROVE FALSE
  OBVIOUS
<1>4. PICK k \in B : \A i \in B : ~(<<i, k>> \in OpToRel(<, Nat))
  <2>1. B \subseteq Nat
    BY <1>1
  <2> HIDE DEF B
  <2> QED
    BY <1>3, <2>1, NatLessThanWellFounded, WFMin
<1>5. PICK s \in SUBSET S : ~Below(s) /\ Cardinality(s) = k
  OBVIOUS
<1> DEFINE y == Some(s)
<1>6. /\ g[s] = IF s = {} THEN 0 ELSE a[y] + g[s \ {y}]
      /\ h[s] = IF s = {} THEN 0 ELSE b[y] + h[s \ {y}]
  BY DEF Sums
<1>7. s # {} /\ y \in s
  BY <1>5, <1>6 DEF Some
<1> HIDE DEF y
<1>8. /\ s \ {y} \in SUBSET S /\ Cardinality(s \ {y}) = k - 1
      /\ Cardinality(s \ {y}) \in Nat /\ k \in Nat
  BY <1>1, <1>5, <1>7, FS_RemoveElement
<1>9. Below(s \ {y})
  <2>1. Cardinality(s \ {y}) < k
    BY <1>8
  <2>2. Cardinality(s \ {y}) \notin B
    BY <1>4, <1>8, <2>1 DEF OpToRel
  <2> QED
    BY <1>8, <2>2
<1>10. /\ \A x \in s : a[x] <= b[x]
       /\ ~(g[s] <= h[s])
  BY <1>5
<1>11. g[s \ {y}] <= h[s \ {y}] /\ a[y] <= b[y]
  BY <1>7, <1>9, <1>10
<1>12. g[s \ {y}] \in Nat /\ h[s \ {y}] \in Nat /\ a[y] \in Nat /\ b[y] \in Nat
  BY <1>2, <1>7, <1>8
<1> QED
  BY <1>6, <1>7, <1>10, <1>11, <1>12
=============================================================================
