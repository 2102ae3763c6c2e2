-------------------------- MODULE AdmissionProofs --------------------------
(***************************************************************************)
(* What holds of a pod's way to the scheduling cycle for every value of    *)
(* the constants: the scheduling queue, the nominator and the webhook,     *)
(* which share no state.                                                   *)
(*                                                                         *)
(* The queue.  The slice and the map of the heap agree between two         *)
(* operations when they do not overlap, for a slice holds a set of keys    *)
(* once each (Holds) and every operation adds one to both or takes one     *)
(* from both.                                                              *)
(*                                                                         *)
(* The nominator.  MapsAgree is inductive with TypeOK: each operation is   *)
(* a composition of the two unlocked helpers, so the proof is about the    *)
(* pair <<refs, node>> (Good) and what the helpers do to it; the lemmas    *)
(* are stated once for any pair.                                           *)
(*                                                                         *)
(* The webhook.  A claim says nothing of a tier or all that is written     *)
(* about it is one tier's (Untouched, Settled), and a Pod that has been    *)
(* patched lacks the label or the annotation only if its claim has no tier *)
(* to give (Written).  The points of a tier are a fold over the signals,   *)
(* which FiniteSums makes a sum of seven.                                  *)
(***************************************************************************)
EXTENDS SchedulingQueue, Nominator, Webhook, FiniteSums, SequenceTheorems, FiniteSetTheorems,
        WellFoundedInduction, TLAPS

(* The scheduling queue. *)

\* The slice s holds the keys of S, each once.
Holds(s, S) ==
  /\ s \in Seq(QueuePods)
  /\ \A p \in S : InSeq(p, s)
  /\ \A i \in DOMAIN s : s[i] \in S
  /\ \A i, k \in DOMAIN s : s[i] = s[k] => i = k

\* A slice without repetitions holds as many keys as it is long, and conversely.
LEMMA AgreeHolds ==
  ASSUME queue \in Seq(QueuePods), IsFiniteSet(items)
  PROVE  Agree <=> Holds(queue, items)
<1> DEFINE n == Len(queue)
<1>1. n \in Nat /\ DOMAIN queue = 1..n
  OBVIOUS
<1>2. IsFiniteSet(1..n) /\ Cardinality(1..n) = n
  BY <1>1, FS_Interval
<1>3. ASSUME \A p \in items : InSeq(p, queue), \A i \in DOMAIN queue : queue[i] \in items
      PROVE  queue \in Surjection(1..n, items)
  <2>1. queue \in [1..n -> items]
    BY <1>1, <1>3
  <2> QED
    BY <1>1, <1>3, <2>1 DEF Surjection, InSeq
<1>4. CASE Agree
  <2>1. queue \in Injection(1..n, items)
    BY <1>2, <1>3, <1>4, FS_SurjSameCardinalityImpliesInj DEF Agree
  <2> QED
    BY <1>1, <1>4, <2>1 DEF Agree, Holds, Injection, IsInjective
<1>5. CASE Holds(queue, items)
  <2>1. queue \in Surjection(1..n, items)
    BY <1>3, <1>5 DEF Holds
  <2>2. queue \in Injection(1..n, items)
    BY <1>1, <1>5, <2>1 DEF Holds, Injection, Surjection, IsInjective
  <2>3. Cardinality(items) = n
    BY <1>2, <2>1, <2>2, FS_Surjection
  <2> QED
    BY <1>5, <2>3 DEF Agree, Holds
<1> QED
  BY <1>4, <1>5

\* A key that the slice has not is appended.
LEMMA HoldsAppend ==
  ASSUME NEW s, NEW S, Holds(s, S), NEW p \in QueuePods, p \notin S
  PROVE  Holds(Append(s, p), S \cup {p})
<1> DEFINE t == Append(s, p)
           n == Len(s)
<1>1. s \in Seq(QueuePods) /\ n \in Nat /\ DOMAIN s = 1..n
  BY DEF Holds
<1>2. /\ t \in Seq(QueuePods) /\ DOMAIN t = 1..(n + 1)
      /\ \A i \in 1..n : t[i] = s[i]
      /\ t[n + 1] = p
  BY <1>1, AppendProperties
<1> HIDE DEF t, n
<1>3. \A i \in DOMAIN t : t[i] \in S \cup {p}
  BY <1>1, <1>2 DEF Holds
<1>4. ASSUME NEW q \in S \cup {p} PROVE InSeq(q, t)
  <2>1. CASE q = p
    BY <1>1, <1>2, <2>1 DEF InSeq
  <2>2. CASE q \in S
    <3>1. PICK i \in 1..n : s[i] = q
      BY <1>1, <2>2 DEF Holds, InSeq
    <3>2. i \in DOMAIN t /\ t[i] = q
      BY <1>1, <1>2, <3>1
    <3> QED
      BY <3>2 DEF InSeq
  <2> QED
    BY <2>1, <2>2
<1>5. ASSUME NEW i \in DOMAIN t, NEW k \in DOMAIN t, t[i] = t[k] PROVE i = k
  <2>1. \A a \in 1..n : t[a] # p
    BY <1>1, <1>2 DEF Holds
  <2> QED
    BY <1>1, <1>2, <1>5, <2>1 DEF Holds
<1> QED
  BY <1>2, <1>3, <1>4, <1>5 DEF Holds, t

\* Every set of natural numbers that is not empty has a least element.
LEMMA LeastOf ==
  ASSUME NEW I, I \subseteq Nat, I # {}
  PROVE  \E m \in I : \A k \in I : m <= k
<1> DEFINE R == OpToRel(<, Nat)
<1>1. PICK m \in I : \A k \in I : ~(<<k, m>> \in R)
  <2> HIDE DEF R
  <2>1. IsWellFoundedOn(R, Nat)
    BY NatLessThanWellFounded DEF R
  <2> QED
    BY <2>1, WFMin
<1>2. \A k \in I : m \in Nat /\ k \in Nat /\ ~(k < m)
  BY <1>1 DEF OpToRel
<1> QED
  BY <1>2

\* Without cuts one element out of the slice.
LEMMA WithoutIsCut ==
  ASSUME NEW s \in Seq(QueuePods), NEW p, InSeq(p, s)
  PROVE  \E m \in 1..Len(s) : s[m] = p /\ Without(s, p) = RemoveAt(s, m)
<1> DEFINE I == {i \in 1..Len(s) : s[i] = p}
<1>1. I \subseteq Nat /\ I # {}
  BY DEF InSeq
<1>3. \E m \in I : \A k \in I : m <= k
  <2> HIDE DEF I
  <2> QED
    BY <1>1, LeastOf
<1>4. Min(I) \in I /\ \A k \in I : Min(I) <= k
  BY <1>3 DEF Min
<1>5. Without(s, p) = RemoveAt(s, Min(I))
  BY <1>1 DEF Without, RemoveFirst, SelectInSeq
<1> QED
  BY <1>4, <1>5

\* A key is removed.
LEMMA HoldsWithout ==
  ASSUME NEW s, NEW S, Holds(s, S), NEW p
  PROVE  Holds(Without(s, p), S \ {p})
<1> DEFINE n == Len(s)
<1>1. s \in Seq(QueuePods) /\ n \in Nat /\ DOMAIN s = 1..n /\ \A i \in 1..n : s[i] \in QueuePods
  BY DEF Holds
<1>2. CASE ~InSeq(p, s)
  <2>1. Without(s, p) = s
    BY <1>1, <1>2 DEF Without, RemoveFirst, InSeq
  <2>2. p \notin S
    BY <1>2 DEF Holds
  <2> QED
    BY <2>1, <2>2 DEF Holds
<1>3. CASE InSeq(p, s)
  <2>1. PICK m \in 1..n : s[m] = p /\ Without(s, p) = RemoveAt(s, m)
    BY <1>1, <1>3, WithoutIsCut
  <2> DEFINE a == SubSeq(s, 1, m - 1)
             b == SubSeq(s, m + 1, n)
             t == a \o b
             Old(i) == IF i < m THEN i ELSE i + 1
  <2>2. a \in Seq(QueuePods) /\ Len(a) = m - 1 /\ \A i \in 1..(m - 1) : a[i] = s[i]
    BY <1>1, <2>1, SubSeqProperties
  <2>3. b \in Seq(QueuePods) /\ Len(b) = n - m /\ \A i \in 1..(n - m) : b[i] = s[m + i]
    <3> HIDE DEF n
    <3>1. m \in Int /\ n \in Int /\ m <= n /\ \A i \in (m + 1)..n : s[i] \in QueuePods
      BY <1>1, <2>1
    <3>2. /\ b \in Seq(QueuePods)
          /\ Len(b) = IF m + 1 <= n THEN n - (m + 1) + 1 ELSE 0
          /\ \A i \in 1..(n - (m + 1) + 1) : b[i] = s[m + 1 + i - 1]
      BY <3>1, SubSeqProperties DEF n
    <3> HIDE DEF b
    <3> QED
      BY <3>1, <3>2
  <2>t. Without(s, p) = t
    BY <2>1 DEF RemoveAt
  <2> HIDE DEF a, b
  <2>d. /\ t \in Seq(QueuePods) /\ Len(t) = Len(a) + Len(b)
        /\ \A i \in 1 .. Len(a) + Len(b) : t[i] = IF i <= Len(a) THEN a[i] ELSE b[i - Len(a)]
    <3>1. a \in Seq(QueuePods) /\ b \in Seq(QueuePods)
      BY <2>2, <2>3
    <3> QED
      BY ZenonT(20), <3>1, ConcatProperties
  <2> HIDE DEF t, n
  <2>c. /\ \A i \in 1..Len(a) : t[i] = a[i]
        /\ \A i \in Len(a) + 1 .. Len(a) + Len(b) : t[i] = b[i - Len(a)]
    BY <1>1, <2>1, <2>2, <2>3, <2>d
  <2>4. t \in Seq(QueuePods) /\ Len(t) = n - 1
    BY <1>1, <2>1, <2>2, <2>3, <2>c, <2>d
  <2>5. ASSUME NEW i \in 1..(n - 1) PROVE t[i] = s[Old(i)]
    <3>1. CASE i < m
      BY <1>1, <2>1, <2>2, <2>3, <2>c, <2>d, <3>1
    <3>2. CASE i >= m
      <4>1. t[i] = b[i - (m - 1)] /\ i - (m - 1) \in 1..(n - m)
        BY <1>1, <2>1, <2>2, <2>3, <2>c, <2>d, <3>2
      <4>2. b[i - (m - 1)] = s[m + (i - (m - 1))] /\ m + (i - (m - 1)) = i + 1
        BY <1>1, <2>1, <2>3, <4>1
      <4> QED
        BY <1>1, <2>1, <3>2, <4>1, <4>2
    <3> QED
      BY <1>1, <2>1, <3>1, <3>2
  <2>6. DOMAIN t = 1..(n - 1)
    BY <2>4
  <2>7. \A i \in 1..(n - 1) : Old(i) \in 1..n /\ Old(i) # m
    BY <1>1, <2>1
  <2>8. \A i \in DOMAIN t : t[i] \in S \ {p}
    BY <1>1, <2>1, <2>5, <2>6, <2>7 DEF Holds
  <2>9. ASSUME NEW q \in S \ {p} PROVE InSeq(q, t)
    <3>1. PICK k \in 1..n : s[k] = q /\ k # m
      BY <1>1, <2>1, <2>9 DEF Holds, InSeq
    <3>2. CASE k < m
      BY <1>1, <2>1, <2>5, <2>6, <3>1, <3>2 DEF InSeq
    <3>3. CASE k > m
      <4>1. k - 1 \in 1..(n - 1) /\ Old(k - 1) = k
        BY <1>1, <2>1, <3>1, <3>3
      <4>2. t[k - 1] = q
        BY <2>5, <3>1, <4>1
      <4> QED
        BY <2>6, <4>1, <4>2 DEF InSeq
    <3> QED
      BY <1>1, <2>1, <3>1, <3>2, <3>3
  <2>10. ASSUME NEW i \in DOMAIN t, NEW k \in DOMAIN t, t[i] = t[k] PROVE i = k
    <3>1. s[Old(i)] = s[Old(k)] /\ Old(i) \in DOMAIN s /\ Old(k) \in DOMAIN s
      BY <1>1, <2>5, <2>6, <2>7, <2>10
    <3>2. Old(i) = Old(k)
      <4> HIDE DEF Old
      <4> QED
        BY <3>1 DEF Holds
    <3> QED
      BY <1>1, <2>1, <2>6, <3>2
  <2> QED
    BY <2>t, <2>4, <2>8, <2>9, <2>10 DEF Holds
<1> QED
  BY <1>2, <1>3

\* Of finitely many natural numbers one is the greatest.
LEMMA GreatestAt ==
  ASSUME NEW n \in Nat \ {0}, NEW f, \A i \in 1..n : f[i] \in Nat
  PROVE  \E i \in 1..n : \A k \in 1..n : f[k] <= f[i]
<1> DEFINE P(m) == \E i \in 1..m : \A k \in 1..m : f[k] <= f[i]
           B == {m \in 1..n : ~P(m)}
<1>1. SUFFICES ASSUME B # {} PROVE FALSE
  <2>1. n \in 1..n
    OBVIOUS
  <2> QED
    BY <2>1 DEF B
<1>2. PICK m \in B : \A k \in B : m <= k
  <2>1. B \subseteq Nat
    OBVIOUS
  <2> HIDE DEF B
  <2> QED
    BY <1>1, <2>1, LeastOf
<1>3. m \in 1..n /\ ~P(m)
  OBVIOUS
<1>4. CASE m = 1
  BY <1>3, <1>4
<1>5. CASE m > 1
  <2>1. m - 1 \in 1..n /\ ~(m <= m - 1)
    BY <1>3, <1>5
  <2>2. P(m - 1)
    <3> HIDE DEF P
    <3> QED
      BY <1>2, <2>1
  <2>3. PICK i \in 1..(m - 1) : \A k \in 1..(m - 1) : f[k] <= f[i]
    BY <2>2
  <2>4. CASE f[m] <= f[i]
    BY <1>3, <2>3, <2>4
  <2>5. CASE ~(f[m] <= f[i])
    <3>1. \A k \in 1..m : f[k] <= f[m]
      BY <1>3, <2>3, <2>5
    <3> QED
      BY <1>3, <3>1
  <2> QED
    BY <2>4, <2>5
<1> QED
  BY <1>3, <1>4, <1>5

\* Less is a total order of the heap, so that its root is one of its keys.
LEMMA BestIsThere ==
  ASSUME NEW s \in Seq(QueuePods), Len(s) > 0
  PROVE  InSeq(Best(s), s)
<1> DEFINE n == Len(s)
           f == [i \in 1..n |-> Prio[s[i]]]
           Top == {i \in 1..n : \A k \in 1..n : f[k] <= f[i]}
<1>1. n \in Nat \ {0} /\ DOMAIN s = 1..n /\ \A i \in 1..n : f[i] \in Nat /\ f[i] = Prio[s[i]]
  BY QueueAssumption
<1> HIDE DEF n, f
<1>2. Top \subseteq Nat /\ Top # {}
  <2>1. \E i \in 1..n : \A k \in 1..n : f[k] <= f[i]
    BY <1>1, GreatestAt
  <2> QED
    BY <1>1, <2>1
<1>3. PICK m \in Top : \A k \in Top : m <= k
  <2> HIDE DEF Top
  <2> QED
    BY <1>2, LeastOf
<1>4. \A k \in 1..(m - 1) : f[k] < f[m]
  <2> SUFFICES ASSUME NEW k \in 1..(m - 1), ~(f[k] < f[m]) PROVE FALSE
    OBVIOUS
  <2>1. m \in 1..n /\ k \in 1..n /\ k < m /\ f[k] = f[m]
    BY <1>1, <1>3
  <2>2. k \in Top
    BY <1>1, <1>3, <2>1
  <2> QED
    BY <1>1, <1>3, <2>1, <2>2
<1>5. \E i \in DOMAIN s : /\ \A k \in DOMAIN s : Prio[s[k]] <= Prio[s[i]]
                          /\ \A k \in 1..(i - 1) : Prio[s[k]] < Prio[s[i]]
  <2>1. m \in 1..n /\ \A k \in 1..n : f[k] <= f[m]
    BY <1>3
  <2>2. \A k \in 1..(m - 1) : k \in 1..n
    BY <1>1, <2>1
  <2> QED
    BY <1>1, <1>4, <2>1, <2>2
<1> QED
  BY <1>5 DEF Best, InSeq

-----------------------------------------------------------------------------
(* What ScheduleOne is handed: this needs no lock around the insertion.      *)

\* The slice s holds some keys of S, none twice.
Within(s, S) == \E T \in SUBSET S : Holds(s, T)

DeliverInv ==
  /\ QueueTypeOK
  /\ IsFiniteSet(items)
  /\ wanted = items
  /\ feeder.pc \in {"insert", "store"} => feeder.pod \in QueuePods
  /\ (feeder.pc = "store" /\ popper.pc # "store") => Within(queue, items)
  /\ popper.pc = "store" => /\ popper.pod \in items
                            /\ Within(popper.snap, items \ {popper.pod})

LEMMA WithinGrows ==
  ASSUME NEW s, NEW S, NEW T, Within(s, S), S \subseteq T
  PROVE  Within(s, T)
BY DEF Within

FeederRecords == [pc : {"idle", "insert", "store", "signal"}, pod : QueuePods \cup {NoPod},
                  snap : Seq(QueuePods), wake : BOOLEAN]

LEMMA FeederTypes ==
  /\ FeederIdle \in FeederRecords /\ FeederIdle.pc = "idle"
  /\ \A p \in QueuePods, b \in BOOLEAN :
       LET f == [FeederIdle EXCEPT !.pc = "insert", !.pod = p, !.wake = b]
       IN  f \in FeederRecords /\ f.pc = "insert" /\ f.pod = p
<1>1. <<>> \in Seq(QueuePods)
  OBVIOUS
<1> QED
  BY <1>1 DEF FeederIdle, FeederRecords

PopperRecords == [pc : {"idle", "check", "register", "waiting", "woken", "take", "store",
                        "stopped"},
                  pod : QueuePods \cup {NoPod}, snap : Seq(QueuePods)]

LEMMA AtTypes ==
  ASSUME NEW pc \in {"idle", "check", "register", "waiting", "woken", "take", "store", "stopped"}
  PROVE  At(pc) \in PopperRecords /\ At(pc).pc = pc
<1>1. <<>> \in Seq(QueuePods)
  OBVIOUS
<1> QED
  BY <1>1 DEF At, PopperRecords

LEMMA QueueParts ==
  QueueTypeOK <=> /\ items \subseteq QueuePods /\ queue \in Seq(QueuePods) /\ closed \in BOOLEAN
                  /\ feeder \in FeederRecords /\ popper \in PopperRecords
                  /\ closer \in {"idle", "locked", "flagged", "done"}
                  /\ wanted \subseteq QueuePods /\ ops \in 0..MaxOps
BY DEF QueueTypeOK, FeederRecords, PopperRecords

\* DeliverInv is inductive, one lemma for the steps of each process.
LEMMA DeliverInit == QueueInit => DeliverInv
<1> SUFFICES ASSUME QueueInit PROVE DeliverInv
  OBVIOUS
<1>1. IsFiniteSet({})
  BY FS_EmptySet
<1>2. At("idle") \in PopperRecords /\ At("idle").pc = "idle"
  BY AtTypes
<1>3. QueueTypeOK
  <2>1. <<>> \in Seq(QueuePods) /\ 0 \in 0..MaxOps
    BY QueueAssumption
  <2> QED
    BY <1>2, <2>1, FeederTypes, QueueParts DEF QueueInit
<1> QED
  BY <1>1, <1>2, <1>3, FeederTypes DEF QueueInit, DeliverInv

\* An operation of the feeder begins, or is done in one step.
LEMMA DeliverFeeds ==
  ASSUME DeliverInv, NEW p \in QueuePods, Add(p) \/ Update(p) \/ Delete(p)
  PROVE  DeliverInv'
<1> USE DEF DeliverInv
<1>0. ops' \in 0..MaxOps
  BY QueueAssumption DEF Add, Update, Delete, FeederMayStart, QueueTypeOK
<1>1. feeder' \in FeederRecords /\ (feeder'.pc = "insert" => feeder'.pod \in QueuePods)
      /\ feeder'.pc \in {"idle", "insert"}
  <2>1. feeder' = feeder \/ \E b \in BOOLEAN :
          feeder' = [FeederIdle EXCEPT !.pc = "insert", !.pod = p, !.wake = b]
    BY DEF Add, Update, Delete
  <2>2. feeder.pc = "idle" /\ feeder \in FeederRecords
    BY QueueParts DEF Add, Update, Delete, FeederMayStart
  <2>3. ASSUME NEW b \in BOOLEAN,
               feeder' = [FeederIdle EXCEPT !.pc = "insert", !.pod = p, !.wake = b]
        PROVE  feeder' \in FeederRecords /\ feeder'.pc = "insert" /\ feeder'.pod = p
    BY <2>3, FeederTypes
  <2> QED
    BY <2>1, <2>2, <2>3
<1>2. CASE Add(p) \/ Update(p)
  <2>1. wanted' = items' /\ UNCHANGED <<items, queue, closed, popper, closer>>
    BY <1>2 DEF Add, Update
  <2> QED
    BY <1>0, <1>1, <2>1 DEF QueueTypeOK, FeederRecords, PopperRecords
<1>3. CASE Delete(p)
  <2>1. /\ popper.pc # "store" /\ feeder.pc = "idle" /\ Agree
        /\ items' = items \ {p} /\ queue' = Without(queue, p) /\ wanted' = items'
        /\ UNCHANGED <<closed, feeder, popper, closer>>
    BY <1>3 DEF Delete, FeederMayStart, Usable, AtRest, AqFree
  <2>2. queue' \in Seq(QueuePods)
    <3>1. Holds(queue, items)
      BY <2>1, AgreeHolds DEF QueueTypeOK
    <3>2. Holds(Without(queue, p), items \ {p})
      BY <3>1, HoldsWithout
    <3> QED
      BY <2>1, <3>2 DEF Holds
  <2>3. IsFiniteSet(items')
    BY <2>1, FS_RemoveElement
  <2> QED
    BY <1>0, <2>1, <2>2, <2>3 DEF QueueTypeOK
<1> QED
  BY <1>2, <1>3

LEMMA DeliverInserts ==
  ASSUME DeliverInv, Insert \/ InsertStore \/ Signal
  PROVE  DeliverInv'
<1> USE DEF DeliverInv
<1>1. CASE Insert
  <2>1. /\ feeder.pc = "insert" /\ feeder.pod \in QueuePods
        /\ items' = items \cup {feeder.pod} /\ wanted' = items'
        /\ UNCHANGED <<queue, closed, popper, closer, ops>>
        /\ AtRest => Agree
    BY <1>1 DEF Insert, Usable
  <2>2. /\ feeder' \in FeederRecords /\ feeder'.pc \in {"signal", "store"}
        /\ feeder'.pod = feeder.pod
    BY <1>1 DEF Insert, QueueTypeOK, FeederRecords
  <2>3. IsFiniteSet(items')
    BY <2>1, FS_AddElement
  <2>4. popper.pc # "store" => Within(queue', items')
    <3> SUFFICES ASSUME popper.pc # "store" PROVE Within(queue, items')
      BY <2>1
    <3>1. Holds(queue, items)
      BY <2>1, AgreeHolds DEF AtRest, QueueTypeOK
    <3> QED
      BY <2>1, <3>1 DEF Within
  <2>5. popper.pc = "store" => /\ popper.pod \in items'
                              /\ Within(popper.snap, items' \ {popper.pod})
    BY <2>1, WithinGrows
  <2>6. QueueTypeOK'
    BY <2>1, <2>2 DEF QueueTypeOK, FeederRecords, PopperRecords
  <2> QED
    BY <2>1, <2>2, <2>3, <2>4, <2>5, <2>6
<1>2. CASE InsertStore
  <2>1. /\ feeder.pc = "store" /\ feeder.pod \in QueuePods
        /\ queue' = Append(feeder.snap, feeder.pod)
        /\ feeder' = [feeder EXCEPT !.pc = "signal", !.snap = <<>>]
        /\ UNCHANGED <<items, closed, popper, closer, wanted, ops>>
    BY <1>2 DEF InsertStore
  <2>2. queue' \in Seq(QueuePods)
    BY <2>1 DEF QueueTypeOK
  <2>3. feeder' \in FeederRecords /\ feeder'.pc = "signal"
    <3>1. <<>> \in Seq(QueuePods) /\ feeder \in FeederRecords
      BY QueueParts
    <3> QED
      BY <2>1, <3>1 DEF FeederRecords
  <2> QED
    BY <2>1, <2>2, <2>3 DEF QueueTypeOK, FeederRecords, PopperRecords
<1>3. CASE Signal
  <2>1. /\ popper' \in {popper, At("woken")} /\ (popper' # popper => popper.pc = "waiting")
        /\ feeder' = FeederIdle /\ UNCHANGED <<items, queue, closed, closer, wanted, ops>>
    BY <1>3 DEF Signal, Broadcast
  <2>2. QueueTypeOK'
    <3>1. popper' \in PopperRecords /\ feeder' \in FeederRecords
      BY <2>1, AtTypes, FeederTypes, QueueParts
    <3> QED
      BY <2>1, <3>1 DEF QueueTypeOK, PopperRecords, FeederRecords
  <2> QED
    BY <2>1, <2>2, AtTypes, FeederTypes
<1> QED
  BY <1>1, <1>2, <1>3

LEMMA DeliverPops ==
  ASSUME DeliverInv, Pop
  PROVE  DeliverInv'
<1> USE DEF DeliverInv
<1>1. CASE PopEnter \/ PopCheck \/ PopWait \/ PopRelock \/ PopStop
  <2>1. /\ popper.pc # "store" /\ UNCHANGED <<items, queue, closed, feeder, closer, wanted, ops>>
        /\ popper' \in {At(pc) : pc \in {"idle", "check", "register", "waiting", "take", "stopped"}}
    BY <1>1 DEF PopEnter, PopCheck, PopWait, PopRelock, PopStop
  <2>2. popper'.pc # "store" /\ QueueTypeOK'
    <3>1. popper' \in PopperRecords /\ popper'.pc # "store"
      BY <2>1, AtTypes
    <3>2. queue' \in Seq(QueuePods)
      BY <2>1, QueueParts DEF PopperRecords
    <3> QED
      BY <2>1, <3>1, <3>2 DEF QueueTypeOK, PopperRecords
  <2> QED
    BY <2>1, <2>2
<1>2. CASE PopTake
  <2> DEFINE p == Best(queue)
  <2>1. /\ popper.pc = "take" /\ Len(queue) > 0 /\ (AtRest => Agree)
        /\ popper' = [pc |-> "store", pod |-> p, snap |-> Without(queue, p)]
        /\ UNCHANGED <<items, queue, closed, feeder, closer, wanted, ops>>
    BY <1>2 DEF PopTake, Usable
  <2>2. PICK T \in SUBSET items : Holds(queue, T)
    BY <2>1, AgreeHolds DEF AtRest, Within, QueueTypeOK
  <2>3. p \in T
    BY <2>1, <2>2, BestIsThere DEF Holds, InSeq
  <2> HIDE DEF p
  <2>4. Holds(Without(queue, p), T \ {p})
    BY <2>2, HoldsWithout
  <2>5. Within(popper'.snap, items' \ {p}) /\ popper'.pod = p /\ p \in items'
    BY <2>1, <2>2, <2>3, <2>4 DEF Within
  <2>6. QueueTypeOK'
    BY <2>1, <2>2, <2>3, <2>4 DEF QueueTypeOK, Holds
  <2> QED
    BY <2>1, <2>5, <2>6
<1>3. CASE PopStore
  <2>1. /\ popper.pc = "store" /\ queue' = popper.snap /\ items' = items \ {popper.pod}
        /\ wanted' = items' /\ popper' = At("idle") /\ UNCHANGED <<closed, feeder, closer, ops>>
    BY <1>3 DEF PopStore
  <2>2. IsFiniteSet(items')
    BY <2>1, FS_RemoveElement
  <2>3. QueueTypeOK' /\ popper'.pc = "idle"
    <3>1. popper' \in PopperRecords /\ popper'.pc = "idle"
      BY <2>1, AtTypes
    <3>2. queue' \in Seq(QueuePods)
      BY <2>1, QueueParts DEF PopperRecords
    <3> QED
      BY <2>1, <3>1, <3>2 DEF QueueTypeOK, PopperRecords
  <2> QED
    BY <2>1, <2>2, <2>3
<1> QED
  BY <1>1, <1>2, <1>3 DEF Pop

LEMMA DeliverCloses ==
  ASSUME DeliverInv, CloseLock \/ CloseFlag \/ CloseBroadcast \/ UNCHANGED queueVars
  PROVE  DeliverInv'
<1> USE DEF DeliverInv
<1>1. /\ popper' \in {popper, At("woken")} /\ (popper' # popper => popper.pc = "waiting")
      /\ UNCHANGED <<items, queue, feeder, wanted, ops>>
  BY DEF CloseLock, CloseFlag, CloseBroadcast, Broadcast, queueVars
<1>2. closed' \in BOOLEAN /\ closer' \in {"idle", "locked", "flagged", "done"}
  BY DEF CloseLock, CloseFlag, CloseBroadcast, Broadcast, queueVars, QueueTypeOK
<1>3. QueueTypeOK'
  <2>1. popper' \in PopperRecords
    BY <1>1, AtTypes, QueueParts
  <2> QED
    BY <1>1, <1>2, <2>1 DEF QueueTypeOK, PopperRecords
<1> QED
  BY <1>1, <1>3, AtTypes

LEMMA DeliverNext == DeliverInv /\ [QueueNext]_queueVars => DeliverInv'
BY DeliverFeeds, DeliverInserts, DeliverPops, DeliverCloses DEF QueueNext, Pop

\* ScheduleOne is handed only pods that are still asked for, each once, whichever locks are
\* taken (queue.go, activeQueue.pop).
THEOREM QueueDeliversOnlyWanted == QueueSpec => []DeliversOnlyWanted
<1>1. DeliverInv => DeliversOnlyWanted
  BY DEF DeliverInv, DeliversOnlyWanted
<1> QED
  BY DeliverInit, DeliverNext, <1>1, PTL DEF QueueSpec

-----------------------------------------------------------------------------
(* What the heap needs: that an insertion and a pop do not overlap.          *)

\* Half an insertion, or half a pop, leaves the slice to be written without its key.
AgreeInv ==
  /\ DeliverInv
  /\ Atomic => /\ ~(feeder.pc = "store" /\ popper.pc = "store")
               /\ AtRest => Holds(queue, items)
               /\ feeder.pc = "store" =>
                    /\ feeder.pod \in items
                    /\ Holds(feeder.snap, items \ {feeder.pod})
               /\ popper.pc = "store" => Holds(popper.snap, items \ {popper.pod})

\* AgreeInv is inductive, one lemma for the steps of each process.
LEMMA AgreeInit == QueueInit => AgreeInv
<1> SUFFICES ASSUME QueueInit PROVE AgreeInv
  OBVIOUS
<1>1. feeder.pc = "idle" /\ popper.pc = "idle"
  BY FeederTypes, AtTypes DEF QueueInit
<1>2. Holds(<<>>, {})
  BY DEF Holds
<1> QED
  BY <1>1, <1>2, DeliverInit DEF AgreeInv, QueueInit

LEMMA AgreeFeeds ==
  ASSUME AgreeInv, Atomic, NEW p \in QueuePods, Add(p) \/ Update(p) \/ Delete(p)
  PROVE  AgreeInv'
<1> USE DEF AgreeInv
<1>0. DeliverInv'
  BY DeliverFeeds
<1>1. feeder.pc = "idle" /\ feeder'.pc \in {"idle", "insert"} /\ popper' = popper
  <2>1. feeder' = feeder \/ \E b \in BOOLEAN :
          feeder' = [FeederIdle EXCEPT !.pc = "insert", !.pod = p, !.wake = b]
    BY DEF Add, Update, Delete
  <2>2. ASSUME NEW b \in BOOLEAN,
               feeder' = [FeederIdle EXCEPT !.pc = "insert", !.pod = p, !.wake = b]
        PROVE  feeder'.pc = "insert"
    BY <2>2, FeederTypes
  <2> QED
    BY <2>1, <2>2 DEF Add, Update, Delete, FeederMayStart
<1>2. CASE Add(p) \/ Update(p)
  <2>1. UNCHANGED <<items, queue>>
    BY <1>2 DEF Add, Update
  <2> QED
    BY <1>0, <1>1, <2>1 DEF AtRest
<1>3. CASE Delete(p)
  <2>1. popper.pc # "store" /\ items' = items \ {p} /\ queue' = Without(queue, p)
    BY <1>3 DEF Delete, AqFree
  <2>2. Holds(queue', items')
    BY <1>1, <2>1, HoldsWithout DEF AtRest
  <2> QED
    BY <1>0, <1>1, <2>1, <2>2 DEF AtRest
<1> QED
  BY <1>2, <1>3

LEMMA AgreeInserts ==
  ASSUME AgreeInv, Atomic, Insert \/ InsertStore \/ Signal
  PROVE  AgreeInv'
<1> USE DEF AgreeInv
<1>0. DeliverInv'
  BY DeliverInserts
<1>t. feeder \in FeederRecords /\ popper \in PopperRecords
  BY QueueParts DEF DeliverInv
<1>1. CASE Insert
  <2>1. /\ feeder.pc = "insert" /\ popper.pc # "store" /\ feeder.pod \in QueuePods
        /\ UNCHANGED <<queue, popper>>
        /\ Holds(queue, items)
    BY <1>1 DEF Insert, Mutex, AtRest, DeliverInv
  <2>2. CASE feeder.pod \in items
    <3>1. items' = items /\ feeder' = [feeder EXCEPT !.pc = "signal"]
      BY <1>1, <2>2 DEF Insert
    <3>2. feeder'.pc = "signal"
      BY <1>t, <3>1 DEF FeederRecords
    <3> QED
      BY <1>0, <2>1, <3>1, <3>2
  <2>3. CASE feeder.pod \notin items
    <3>1. /\ items' = items \cup {feeder.pod}
          /\ feeder' = [feeder EXCEPT !.pc = "store", !.snap = queue]
      BY <1>1, <2>3 DEF Insert
    <3>2. feeder'.pc = "store" /\ feeder'.snap = queue /\ feeder'.pod = feeder.pod
      BY <1>t, <3>1 DEF FeederRecords
    <3>3. items' \ {feeder'.pod} = items
      BY <2>3, <3>1, <3>2
    <3> QED
      BY <1>0, <2>1, <3>1, <3>2, <3>3 DEF AtRest
  <2> QED
    BY <2>2, <2>3
<1>2. CASE InsertStore
  <2>1. /\ feeder.pc = "store" /\ popper.pc # "store" /\ popper' = popper /\ items' = items
        /\ feeder.pod \in items /\ feeder.pod \in QueuePods
        /\ Holds(feeder.snap, items \ {feeder.pod})
        /\ queue' = Append(feeder.snap, feeder.pod)
        /\ feeder' = [feeder EXCEPT !.pc = "signal", !.snap = <<>>]
    BY <1>2 DEF InsertStore, DeliverInv
  <2>2. feeder'.pc = "signal"
    BY <1>t, <2>1 DEF FeederRecords
  <2>3. Holds(queue', (items \ {feeder.pod}) \cup {feeder.pod})
    BY <2>1, HoldsAppend
  <2>4. (items \ {feeder.pod}) \cup {feeder.pod} = items'
    BY <2>1
  <2>5. Holds(queue', items')
    BY <2>3, <2>4
  <2> QED
    BY <1>0, <2>1, <2>2, <2>5
<1>3. CASE Signal
  <2>1. /\ popper' \in {popper, At("woken")} /\ (popper' # popper => popper.pc = "waiting")
        /\ feeder.pc = "signal" /\ feeder' = FeederIdle /\ UNCHANGED <<items, queue>>
    BY <1>3 DEF Signal, Broadcast
  <2> QED
    BY <1>0, <2>1, AtTypes, FeederTypes DEF AtRest
<1> QED
  BY <1>1, <1>2, <1>3

LEMMA AgreePops ==
  ASSUME AgreeInv, Atomic, Pop
  PROVE  AgreeInv'
<1> USE DEF AgreeInv
<1>0. DeliverInv'
  BY DeliverPops DEF AgreeInv
<1>1. CASE PopEnter \/ PopCheck \/ PopWait \/ PopRelock \/ PopStop
  <2>1. /\ popper.pc # "store" /\ UNCHANGED <<items, queue, feeder>>
        /\ popper' \in {At(pc) : pc \in {"idle", "check", "register", "waiting", "take", "stopped"}}
    BY <1>1 DEF PopEnter, PopCheck, PopWait, PopRelock, PopStop
  <2>2. popper'.pc # "store"
    BY <2>1, AtTypes
  <2> QED
    BY <1>0, <2>1, <2>2 DEF AtRest
<1>2. CASE PopTake
  <2> DEFINE p == Best(queue)
  <2>1. /\ popper.pc = "take" /\ feeder.pc # "store" /\ UNCHANGED <<items, queue, feeder>>
        /\ popper' = [pc |-> "store", pod |-> p, snap |-> Without(queue, p)]
    BY <1>2 DEF PopTake, Mutex
  <2>2. Holds(Without(queue, p), items \ {p})
    BY <2>1, HoldsWithout DEF AtRest
  <2> HIDE DEF p
  <2>3. popper'.pc = "store" /\ popper'.pod = p /\ popper'.snap = Without(queue, p)
    BY <2>1
  <2> QED
    BY <1>0, <2>1, <2>2, <2>3 DEF AtRest
<1>3. CASE PopStore
  <2>1. /\ popper.pc = "store" /\ queue' = popper.snap /\ items' = items \ {popper.pod}
        /\ popper' = At("idle") /\ feeder' = feeder
    BY <1>3 DEF PopStore
  <2> QED
    BY <1>0, <2>1, AtTypes DEF AtRest
<1> QED
  BY <1>1, <1>2, <1>3 DEF Pop

LEMMA AgreeCloses ==
  ASSUME AgreeInv, Atomic, CloseLock \/ CloseFlag \/ CloseBroadcast \/ UNCHANGED queueVars
  PROVE  AgreeInv'
<1> USE DEF AgreeInv
<1>0. DeliverInv'
  BY DeliverCloses
<1>1. /\ popper' \in {popper, At("woken")} /\ (popper' # popper => popper.pc = "waiting")
      /\ UNCHANGED <<items, queue, feeder>>
  BY DEF CloseLock, CloseFlag, CloseBroadcast, Broadcast, queueVars
<1> QED
  BY <1>0, <1>1, AtTypes DEF AtRest

LEMMA AgreeNext == AgreeInv /\ [QueueNext]_queueVars => AgreeInv'
<1>1. CASE Atomic
  BY <1>1, AgreeFeeds, AgreeInserts, AgreePops, AgreeCloses DEF QueueNext, Pop
<1>2. CASE ~Atomic
  BY <1>2, DeliverNext DEF AgreeInv
<1> QED
  BY <1>1, <1>2

\* Were activeQueue.lock held around the insertion, the heap's map and slice would always hold
\* the same keys (heap.go:25), for any pods and any interleaving.
THEOREM QueueHeapAgrees == QueueSpec => [](Atomic => HeapAgrees)
<1>1. AgreeInv => (Atomic => HeapAgrees)
  BY AgreeHolds DEF AgreeInv, DeliverInv, QueueTypeOK, HeapAgrees
<1> QED
  BY AgreeInit, AgreeNext, <1>1, PTL DEF QueueSpec

\* The state of the queue keeps its types: no handler leaves a step with a pod that is not a
\* key, nor counts an event beyond the bound.
THEOREM QueueTypeCorrect == QueueSpec => []QueueTypeOK
<1>1. DeliverInv => QueueTypeOK
  BY DEF DeliverInv
<1> QED
  BY DeliverInit, DeliverNext, <1>1, PTL DEF QueueSpec

-----------------------------------------------------------------------------
(* The nominator. *)

\* The pairs of maps the nominator may hold.
MapPairs == [refs : [Names -> [Pods -> Nat]], node : [Pods -> Names \cup {Unset}]]

Good(m) == /\ m \in MapPairs
           /\ \A p \in Pods, n \in Names :
                m.refs[n][p] = IF m.node[p] = n THEN 1 ELSE 0

\* deleteUnlocked leaves a good pair good and the pod without an entry: the
\* reference it drops is the only one.
LEMMA DeleteGood ==
  ASSUME NEW m, Good(m), NEW p \in Pods
  PROVE  Good(DeleteUnlocked(m, p)) /\ DeleteUnlocked(m, p).node[p] = Unset
<1>1. CASE m.node[p] = Unset
  BY <1>1 DEF DeleteUnlocked
<1>2. CASE m.node[p] # Unset
  <2> DEFINE n == m.node[p]
             d == [refs |-> [m.refs EXCEPT ![n][p] = @ - 1],
                   node |-> [m.node EXCEPT ![p] = Unset]]
  <2>1. n \in Names /\ m.refs[n][p] = 1
    BY <1>2 DEF Good, MapPairs
  <2>2. DeleteUnlocked(m, p) = d
    BY <1>2, <2>1 DEF DeleteUnlocked
  <2>3. d \in MapPairs
    BY <2>1 DEF Good, MapPairs
  <2>4. ASSUME NEW q \in Pods, NEW k \in Names
        PROVE  d.refs[k][q] = IF d.node[q] = k THEN 1 ELSE 0
    <3>1. Unset # k
      BY NominatorAssumption DEF Names
    <3> QED
      BY <2>1, <3>1 DEF Good, MapPairs
  <2> QED
    BY <2>2, <2>3, <2>4 DEF Good, MapPairs
<1> QED
  BY <1>1, <1>2

\* The tail of addNominatedPodUnlocked keeps a good pair good when the pod has no
\* entry: that is what its leading deleteUnlocked is for.
LEMMA PutGood ==
  ASSUME NEW m, Good(m), NEW p \in Pods, m.node[p] = Unset, NEW n \in Names
  PROVE  Good(Put(m, p, n))
<1> DEFINE d == [refs |-> [m.refs EXCEPT ![n][p] = @ + 1],
                 node |-> [m.node EXCEPT ![p] = n]]
<1>1. \A k \in Names : m.refs[k][p] = 0
  BY NominatorAssumption DEF Good, Names
<1>2. Put(m, p, n) = d
  BY <1>1 DEF Put
<1>3. d \in MapPairs
  BY DEF Good, MapPairs
<1>4. ASSUME NEW q \in Pods, NEW k \in Names
      PROVE  d.refs[k][q] = IF d.node[q] = k THEN 1 ELSE 0
  BY <1>1 DEF Good, MapPairs
<1> QED
  BY <1>2, <1>3, <1>4 DEF Good

\* addNominatedPodUnlocked keeps a good pair good, whether it nominates or returns
\* early.
LEMMA AddGood ==
  ASSUME NEW m, Good(m), NEW p \in Pods, NEW mode,
         NEW override \in Names, NEW name \in Names
  PROVE  Good(AddUnlocked(m, mode, override, p, name))
<1> DEFINE d == DeleteUnlocked(m, p)
<1>1. Good(d) /\ d.node[p] = Unset
  BY DeleteGood
<1>2. ChosenName(mode, override, name) \in Names
  BY DEF ChosenName
<1>3. Good(Put(d, p, ChosenName(mode, override, name)))
  BY <1>1, <1>2, PutGood
<1> QED
  BY <1>1, <1>3 DEF AddUnlocked

Inv == TypeOK /\ MapsAgree

LEMMA InvIsGood == Inv => Good(Maps)
BY DEF Inv, TypeOK, MapsAgree, Good, MapPairs, Maps

\* What Install(m) establishes of a good pair.
LEMMA InstallGood ==
  ASSUME NEW m, Good(m), Install(m)
  PROVE  /\ refs' \in [Names -> [Pods -> Nat]]
         /\ node' \in [Pods -> Names \cup {Unset}]
         /\ MapsAgree'
BY DEF Good, MapPairs, Install, MapsAgree

LEMMA InitInv == Init => Inv
BY NominatorAssumption DEF Init, Inv, TypeOK, MapsAgree, Listed, Names

LEMMA NextInv == Inv /\ [Next]_vars => Inv'
<1> SUFFICES ASSUME Inv, [Next]_vars
             PROVE  Inv'
  OBVIOUS
<1>0. Good(Maps) /\ TypeOK
  BY InvIsGood DEF Inv
<1>1. ASSUME NEW p \in Pods, NEW n \in Names, NEW mode \in Modes,
             AddNominatedPod(p, mode, n)
      PROVE  Inv'
  <2>1. Good(AddUnlocked(Maps, mode, n, p, status[p]))
    BY <1>0, AddGood DEF TypeOK
  <2> QED
    BY <1>0, <1>1, <2>1, InstallGood DEF AddNominatedPod, Inv, TypeOK
<1>2. ASSUME NEW p \in Pods, NEW new \in Names, UpdateNominatedPod(p, new)
      PROVE  Inv'
  <2> DEFINE keep == status[p] = NoNode /\ new = NoNode /\ node[p] # Unset
             d    == DeleteUnlocked(Maps, p)
             r    == IF keep THEN AddUnlocked(d, "override", node[p], p, new)
                             ELSE AddUnlocked(d, "noop", NoNode, p, new)
  <2>1. Good(d)
    BY <1>0, DeleteGood
  <2>2. keep => node[p] \in Names
    BY <1>0 DEF TypeOK
  <2>3. keep => Good(AddUnlocked(d, "override", node[p], p, new))
    BY <2>1, <2>2, AddGood
  <2>4. Good(AddUnlocked(d, "noop", NoNode, p, new))
    BY <2>1, AddGood DEF Names
  <2>5. Good(r) /\ Install(r) /\ status' = [status EXCEPT ![p] = new] /\ lister' = lister
    BY <1>2, <2>3, <2>4 DEF UpdateNominatedPod
  <2>6. /\ refs' \in [Names -> [Pods -> Nat]]
        /\ node' \in [Pods -> Names \cup {Unset}]
        /\ MapsAgree'
    BY <2>5, InstallGood
  <2> QED
    BY <1>0, <2>5, <2>6 DEF Inv, TypeOK
<1>3. ASSUME NEW p \in Pods, DeleteNominatedPodIfExists(p)
      PROVE  Inv'
  <2>1. Good(DeleteUnlocked(Maps, p))
    BY <1>0, DeleteGood
  <2> QED
    BY <1>0, <1>3, <2>1, InstallGood DEF DeleteNominatedPodIfExists, Inv, TypeOK
<1>4. ASSUME NEW p \in Pods, ListerChanges(p)
      PROVE  Inv'
  BY <1>4 DEF Inv, TypeOK, MapsAgree, ListerChanges, Listed
<1>5. CASE UNCHANGED vars
  BY <1>5 DEF Inv, TypeOK, MapsAgree, vars
<1> QED
  BY <1>1, <1>2, <1>3, <1>4, <1>5 DEF Next

\* The two maps of the nominator always say the same thing, for any pods and nodes
\* (nominator.go:55).
THEOREM NominatorMapsAgree == Spec => []MapsAgree
<1>1. Inv => MapsAgree
  BY DEF Inv
<1> QED
  BY InitInv, NextInv, <1>1, PTL DEF Spec

\* deleteUnlocked gives no pod a new reservation, and addNominatedPodUnlocked only a
\* pod the lister knows to be pending.
LEMMA DeleteNames ==
  ASSUME NEW m, Good(m), NEW p \in Pods, NEW q \in Pods
  PROVE  DeleteUnlocked(m, p).node[q] \in {m.node[q], Unset}
<1>1. m.node \in [Pods -> Names \cup {Unset}]
  BY DEF Good, MapPairs
<1> QED
  BY <1>1 DEF DeleteUnlocked

LEMMA AddNames ==
  ASSUME NEW m, Good(m), NEW p \in Pods, NEW q \in Pods, NEW mode,
         NEW override, NEW name
  PROVE  \/ AddUnlocked(m, mode, override, p, name).node[q] \in {m.node[q], Unset}
         \/ lister[q] = "unassigned"
<1> DEFINE d == DeleteUnlocked(m, p)
           n == ChosenName(mode, override, name)
<1>1. d.node[q] \in {m.node[q], Unset}
  BY DeleteNames
<1>2. d.node \in [Pods -> Names \cup {Unset}]
  BY DeleteGood DEF Good, MapPairs
<1>3. Put(d, p, n).node = [d.node EXCEPT ![p] = n]
  BY DEF Put
<1>4. Nominates(mode, p, name) => lister[p] = "unassigned"
  BY DEF Nominates
<1> QED
  BY <1>1, <1>2, <1>3, <1>4 DEF AddUnlocked

\* A reservation is only ever made for a pod the lister knows to be pending
\* (nominator.go:70).
THEOREM NominatorOnlyPending == Spec => NominatesOnlyPending
<1> DEFINE A == \A p \in Pods :
                  (node'[p] # node[p] /\ node'[p] # Unset) => lister[p] = "unassigned"
<1>1. Inv /\ [Next]_vars => [A]_vars
  <2> SUFFICES ASSUME Inv, Next, NEW q \in Pods, node'[q] # node[q], node'[q] # Unset
               PROVE  lister[q] = "unassigned"
    OBVIOUS
  <2>0. Good(Maps) /\ Maps.node = node
    BY InvIsGood DEF Maps
  <2>1. ASSUME NEW p \in Pods, NEW n \in Names, NEW mode \in Modes,
               AddNominatedPod(p, mode, n)
        PROVE  lister[q] = "unassigned"
    <3>1. node' = AddUnlocked(Maps, mode, n, p, status[p]).node
      BY <2>1 DEF AddNominatedPod, Install
    <3> QED
      BY <2>0, <3>1, AddNames
  <2>2. ASSUME NEW p \in Pods, NEW new \in Names, UpdateNominatedPod(p, new)
        PROVE  lister[q] = "unassigned"
    <3> DEFINE d == DeleteUnlocked(Maps, p)
    <3>1. \/ node' = AddUnlocked(d, "override", node[p], p, new).node
          \/ node' = AddUnlocked(d, "noop", NoNode, p, new).node
      BY <2>2 DEF UpdateNominatedPod, Install
    <3>2. Good(d) /\ d.node[q] \in {node[q], Unset}
      BY <2>0, DeleteGood, DeleteNames
    <3> HIDE DEF d
    <3> QED
      BY <3>1, <3>2, AddNames
  <2>3. ASSUME NEW p \in Pods, DeleteNominatedPodIfExists(p)
        PROVE  lister[q] = "unassigned"
    <3>1. node' = DeleteUnlocked(Maps, p).node
      BY <2>3 DEF DeleteNominatedPodIfExists, Install
    <3> QED
      BY <2>0, <3>1, DeleteNames
  <2>4. ASSUME NEW p \in Pods, ListerChanges(p)
        PROVE  lister[q] = "unassigned"
    BY <2>4 DEF ListerChanges
  <2> QED
    BY <2>1, <2>2, <2>3, <2>4 DEF Next
<1> QED
  BY InitInv, NextInv, <1>1, PTL DEF Spec, NominatesOnlyPending

\* Forgetting a reserved pod and adding it again with its own node changes nothing.
LEMMA ReAddKept ==
  ASSUME NEW m, Good(m), NEW p \in Pods, m.node[p] # Unset, NEW name
  PROVE  lister[p] = "unassigned" =>
           AddUnlocked(DeleteUnlocked(m, p), "override", m.node[p], p, name).node = m.node
<1> SUFFICES ASSUME lister[p] = "unassigned"
             PROVE  AddUnlocked(DeleteUnlocked(m, p), "override", m.node[p], p, name).node = m.node
  OBVIOUS
<1> DEFINE d == DeleteUnlocked(m, p)
<1>1. m.node \in [Pods -> Names \cup {Unset}]
  BY DEF Good, MapPairs
<1>2. d.node = [m.node EXCEPT ![p] = Unset]
  BY DEF DeleteUnlocked
<1>3. d.node[p] = Unset
  BY <1>1, <1>2
<1>4. DeleteUnlocked(d, p) = d
  <2> HIDE DEF d
  <2> QED
    BY <1>3 DEF DeleteUnlocked
<1> HIDE DEF d
<1>5. AddUnlocked(d, "override", m.node[p], p, name).node = [d.node EXCEPT ![p] = m.node[p]]
  BY <1>4 DEF AddUnlocked, Nominates, ChosenName, Put
<1> QED
  BY <1>1, <1>2, <1>5 DEF d

\* A status update without a node leaves the reservation of a pending pod alone
\* (nominator.go:96-98).
THEOREM NominatorReservationKept == Spec => ReservationKept
<1> DEFINE A == \A p \in Pods :
                  (/\ UpdateNominatedPod(p, NoNode)
                   /\ status[p] = NoNode
                   /\ lister[p] = "unassigned")
                    => node' = node
<1>1. Inv /\ [Next]_vars => [A]_vars
  <2> SUFFICES ASSUME Inv, NEW p \in Pods, UpdateNominatedPod(p, NoNode), status[p] = NoNode,
                      lister[p] = "unassigned"
               PROVE  node' = node
    OBVIOUS
  <2>0. Good(Maps) /\ Maps.node = node
    BY InvIsGood DEF Maps
  <2> DEFINE d == DeleteUnlocked(Maps, p)
  <2>1. CASE node[p] # Unset
    <3>1. node' = AddUnlocked(d, "override", node[p], p, NoNode).node
      BY <2>1 DEF UpdateNominatedPod, Install
    <3> QED
      BY <2>0, <2>1, <3>1, ReAddKept
  <2>2. CASE node[p] = Unset
    <3>1. d = Maps
      BY <2>0, <2>2 DEF DeleteUnlocked
    <3> HIDE DEF d
    <3>2. node' = AddUnlocked(d, "noop", NoNode, p, NoNode).node
      BY <2>2 DEF UpdateNominatedPod, Install, d
    <3>3. AddUnlocked(d, "noop", NoNode, p, NoNode) = DeleteUnlocked(d, p)
      BY DEF AddUnlocked, Nominates
    <3>4. DeleteUnlocked(d, p) = d
      BY <2>0, <2>2, <3>1 DEF DeleteUnlocked
    <3> QED
      BY <2>0, <3>1, <3>2, <3>3, <3>4
  <2> QED
    BY <2>1, <2>2
<1> QED
  BY InitInv, NextInv, <1>1, PTL DEF Spec, ReservationKept

-----------------------------------------------------------------------------
(* The webhook: the tables of points. *)

\* The signals of each table.
LEMMA RuleSignalsAre ==
  RuleSignals = {"role", "workload", "access", "latency", "io", "priority", "weight"}
BY DEF RuleSignals, RulePoints

LEMMA LegacySignalsAre ==
  DOMAIN LegacyPoints =
    {"type", "gpu", "kind", "mount", "framework", "readonly", "pvcs", "replicas"}
BY DEF LegacyPoints

\* Each value of a signal gives a natural number of points, in both tables.
LEMMA RulePointsAreNat ==
  ASSUME NEW s \in RuleSignals, NEW v \in DOMAIN RulePoints[s], NEW i \in 1..4
  PROVE  RulePoints[s][v][i] \in Nat
<1>1. i \in {1, 2, 3, 4}
  OBVIOUS
<1>2. CASE s = "role"
  BY <1>1, <1>2 DEF RulePoints, Table, Zero
<1>3. CASE s = "workload"
  BY <1>1, <1>3 DEF RulePoints, Table, Zero
<1>4. CASE s = "access"
  BY <1>1, <1>4 DEF RulePoints, Table, Zero
<1>5. CASE s = "latency"
  BY <1>1, <1>5 DEF RulePoints, Table, Zero
<1>6. CASE s = "io"
  BY <1>1, <1>6 DEF RulePoints, Table, Zero
<1>7. CASE s = "priority"
  BY <1>1, <1>7 DEF RulePoints, Table, Zero
<1>8. CASE s = "weight"
  BY <1>1, <1>8 DEF RulePoints, Table, Zero
<1> QED
  BY <1>2, <1>3, <1>4, <1>5, <1>6, <1>7, <1>8, RuleSignalsAre

LEMMA LegacyPointsAreNat ==
  ASSUME NEW s \in DOMAIN LegacyPoints, NEW v \in DOMAIN LegacyPoints[s], NEW i \in 1..4
  PROVE  LegacyPoints[s][v][i] \in Nat
<1>1. i \in {1, 2, 3, 4}
  OBVIOUS
<1>2. CASE s = "type"
  BY <1>1, <1>2 DEF LegacyPoints, Table, Zero
<1>3. CASE s = "gpu"
  BY <1>1, <1>3 DEF LegacyPoints, Table, Zero
<1>4. CASE s = "kind"
  BY <1>1, <1>4 DEF LegacyPoints, Table, Zero
<1>5. CASE s = "mount"
  BY <1>1, <1>5 DEF LegacyPoints, Table, Zero
<1>6. CASE s = "framework"
  BY <1>1, <1>6 DEF LegacyPoints, Table, Zero
<1>7. CASE s = "readonly"
  BY <1>1, <1>7 DEF LegacyPoints, Table, Zero
<1>8. CASE s = "pvcs"
  BY <1>1, <1>8 DEF LegacyPoints, Table, Zero
<1>9. CASE s = "replicas"
  BY <1>1, <1>9 DEF LegacyPoints, Table, Zero
<1> QED
  BY <1>2, <1>3, <1>4, <1>5, <1>6, <1>7, <1>8, <1>9, LegacySignalsAre

\* The points of a claim are a sum, whatever order its signals are taken in.
LEMMA PointsAreSums ==
  ASSUME NEW table, NEW c, NEW i, IsFiniteSet(DOMAIN table),
         \A s \in DOMAIN table : table[s][c[s]][i] \in Nat
  PROVE  \E g : /\ Sums(g, [s \in DOMAIN table |-> table[s][c[s]][i]], SUBSET DOMAIN table)
                /\ Points(table, c, i) = g[DOMAIN table]
<1> DEFINE S == DOMAIN table
           a == [s \in S |-> table[s][c[s]][i]]
           Step(g, s) == IF s = {} THEN 0
                         ELSE table[Some(s)][c[Some(s)]][i] + g[s \ {Some(s)}]
           iter == CHOOSE g : g = [s \in SUBSET S |-> Step(g, s)]
<1>1. a \in [S -> Nat]
  OBVIOUS
<1>2. Points(table, c, i) = iter[S]
  BY DEF Points, MapThenSumSet, MapThenFoldSet, Some
<1>3. \A s \in SUBSET S : s # {} => Some(s) \in S /\ a[Some(s)] = table[Some(s)][c[Some(s)]][i]
  BY DEF Some
<1>4. \E g : g = [s \in SUBSET S |-> Step(g, s)]
  <2> HIDE DEF a
  <2>1. PICK g \in [SUBSET S -> Nat] : Sums(g, a, SUBSET S)
    BY <1>1, SumExists
  <2>2. g = [s \in SUBSET S |-> Step(g, s)]
    BY <1>3, <2>1 DEF Sums
  <2> QED
    BY <2>2
<1>5. iter = [s \in SUBSET S |-> Step(iter, s)]
  <2> HIDE DEF Step
  <2> QED
    BY <1>4
<1> HIDE DEF iter
<1>6. Sums(iter, a, SUBSET S)
  <2> HIDE DEF a
  <2> QED
    BY <1>3, <1>5 DEF Sums
<1> QED
  BY <1>2, <1>6

\* The scores are natural numbers.
LEMMA PointsAreNat ==
  ASSUME NEW table, NEW c, NEW i, IsFiniteSet(DOMAIN table),
         \A s \in DOMAIN table : table[s][c[s]][i] \in Nat
  PROVE  Points(table, c, i) \in Nat
<1> DEFINE a == [s \in DOMAIN table |-> table[s][c[s]][i]]
<1>1. PICK g : Sums(g, a, SUBSET DOMAIN table) /\ Points(table, c, i) = g[DOMAIN table]
  BY PointsAreSums
<1>2. a \in [DOMAIN table -> Nat]
  OBVIOUS
<1> HIDE DEF a
<1> QED
  BY <1>1, <1>2, SumsAreNat

\* Of four scores, or some of them, one is the highest.
LEMMA HighestExists ==
  ASSUME NEW score \in [1..4 -> Nat], NEW S \in SUBSET (1..4), S # {}
  PROVE  Highest(score, S) \subseteq 1..4 /\ Highest(score, S) # {}
<1>0. 1..4 = {1, 2, 3, 4}
  OBVIOUS
<1> DEFINE M(T) == T = {} \/ \E i \in T : \A j \in T : score[j] <= score[i]
<1>1. ASSUME NEW T \in SUBSET (1..4), NEW k \in 1..4, M(T) PROVE M(T \cup {k})
  BY <1>1
<1>2. M({}) /\ \A T \in SUBSET (1..4) : \A k \in 1..4 : M(T) => M(T \cup {k})
  BY <1>1
<1>3. \A T \in SUBSET (1..4) : \A k \in 1..4 : M(T) => M(T \cup (S \cap {k}))
  <2> SUFFICES ASSUME NEW T \in SUBSET (1..4), NEW k \in 1..4, M(T)
               PROVE  M(T \cup (S \cap {k}))
    OBVIOUS
  <2>1. T \cup (S \cap {k}) = T \/ T \cup (S \cap {k}) = T \cup {k}
    OBVIOUS
  <2> HIDE DEF M
  <2> QED
    BY <1>2, <2>1
<1> HIDE DEF M
<1>4. M(S \cap {1})
  <2>1. {} \cup (S \cap {1}) = S \cap {1}
    OBVIOUS
  <2> QED
    BY <1>2, <1>3, <2>1
<1>5. M(S \cap {1, 2})
  <2>1. (S \cap {1}) \cup (S \cap {2}) = S \cap {1, 2} /\ S \cap {1} \in SUBSET (1..4) /\ 2 \in 1..4
    BY <1>0
  <2>2. M((S \cap {1}) \cup (S \cap {2}))
    BY <1>3, <1>4, <2>1
  <2> QED
    BY <2>1, <2>2
<1>6. M(S \cap {1, 2, 3})
  <2>1. /\ (S \cap {1, 2}) \cup (S \cap {3}) = S \cap {1, 2, 3}
        /\ S \cap {1, 2} \in SUBSET (1..4) /\ 3 \in 1..4
    BY <1>0
  <2>2. M((S \cap {1, 2}) \cup (S \cap {3}))
    BY <1>3, <1>5, <2>1
  <2> QED
    BY <2>1, <2>2
<1>7. M(S)
  <2>1. (S \cap {1, 2, 3}) \cup (S \cap {4}) = S /\ S \cap {1, 2, 3} \in SUBSET (1..4) /\ 4 \in 1..4
    BY <1>0
  <2>2. M((S \cap {1, 2, 3}) \cup (S \cap {4}))
    BY <1>3, <1>6, <2>1
  <2> QED
    BY <2>1, <2>2
<1> QED
  BY <1>7 DEF M, Highest

\* The first of a list that holds all four of them.
LEMMA FirstIsThere ==
  ASSUME NEW n \in Nat, NEW order \in [1..n -> 1..4], NEW S \in SUBSET (1..4), S # {},
         \A i \in 1..4 : \E k \in 1..n : order[k] = i
  PROVE  \E k \in 1..n : /\ FirstOf(order, S) = order[k] /\ order[k] \in S
                         /\ \A l \in 1..n : order[l] \in S => k <= l
<1> DEFINE K == {k \in 1..n : order[k] \in S}
<1>1. K # {} /\ K \subseteq 1..n
  OBVIOUS
<1>2. \E k \in K : \A l \in K : k <= l
  <2> DEFINE L == {n - k : k \in K}
  <2>1. L # {} /\ L \subseteq 0..n
    BY <1>1
  <2>2. PICK m \in L : \A l \in L : l <= m
    <3>1. 0 \in Int /\ n \in Int
      OBVIOUS
    <3> HIDE DEF L
    <3> QED
      BY <2>1, <3>1, LargestExists
  <2>3. PICK k \in K : m = n - k
    OBVIOUS
  <2>4. ASSUME NEW l \in K PROVE k <= l
    <3>1. n - l <= n - k /\ k \in 1..n /\ l \in 1..n
      BY <2>2, <2>3
    <3> QED
      BY <3>1
  <2> QED
    BY <2>4
<1>3. Min(K) \in K /\ \A l \in K : Min(K) <= l
  <2> HIDE DEF K
  <2> QED
    BY <1>2 DEF Min
<1>4. FirstOf(order, S) = order[Min(K)]
  BY DEF FirstOf
<1> QED
  BY <1>3, <1>4

\* pickTierByScore picks a tier whose score is the highest, the earlier of its list in a tie.
LEMMA PickedIsHighest ==
  ASSUME NEW score \in [1..4 -> Nat]
  PROVE  \E i \in 1..4 : /\ PickTierByScore(score) = TierOrder[i]
                         /\ \A j \in 1..4 : score[j] <= score[i]
                         /\ i = 1 => score[2] < score[1]
<1> DEFINE S == Highest(score, 1..4)
           order == <<2, 3, 1, 4>>
<1>1. S \subseteq 1..4 /\ S # {}
  BY HighestExists
<1>2. order \in [1..4 -> 1..4] /\ order[1] = 2 /\ order[2] = 3 /\ order[3] = 1 /\ order[4] = 4
  OBVIOUS
<1>3. \A i \in 1..4 : \E k \in 1..4 : order[k] = i
  <2>1. \A i \in 1..4 : i = 1 \/ i = 2 \/ i = 3 \/ i = 4
    OBVIOUS
  <2> QED
    BY <1>2, <2>1
<1> HIDE DEF S
<1>4. PICK k \in 1..4 : /\ FirstOf(order, S) = order[k] /\ order[k] \in S
                        /\ \A l \in 1..4 : order[l] \in S => k <= l
  <2> DEFINE n == 4
  <2>1. /\ n \in Nat /\ S \in SUBSET (1..4) /\ S # {} /\ order \in [1..n -> 1..4]
        /\ \A i \in 1..4 : \E k \in 1..n : order[k] = i
    BY <1>1, <1>2, <1>3
  <2> HIDE DEF order, n
  <2>2. \E k \in 1..n : /\ FirstOf(order, S) = order[k] /\ order[k] \in S
                        /\ \A l \in 1..n : order[l] \in S => k <= l
    BY <2>1, FirstIsThere
  <2> QED
    BY <2>2 DEF n
<1>5. PickTierByScore(score) = TierOrder[order[k]]
  BY <1>4 DEF PickTierByScore, S
<1>6. \A j \in 1..4 : score[j] <= score[order[k]]
  BY <1>4 DEF S, Highest
<1>7. order[k] = 1 => score[2] < score[1]
  <2> SUFFICES ASSUME order[k] = 1, ~(score[2] < score[1]) PROVE FALSE
    OBVIOUS
  <2>1. k = 3
    BY <1>2
  <2>2. score[1] \in Nat /\ score[2] \in Nat
    OBVIOUS
  <2>3. 2 \in S
    BY <1>6, <2>2 DEF S, Highest
  <2> QED
    BY <1>2, <1>4, <2>1, <2>3
<1> QED
  BY <1>2, <1>5, <1>6, <1>7

\* TierOrder names each tier once.
LEMMA OrderOfTiers ==
  /\ TierOrder[1] = "L1" /\ TierOrder[2] = "L2" /\ TierOrder[3] = "L3" /\ TierOrder[4] = "S3"
  /\ \A i \in 1..4 : TierOrder[i] \in Tiers
  /\ \A t \in Tiers : \E i \in 1..4 : TierOrder[i] = t
<1>1. TierOrder[1] = "L1" /\ TierOrder[2] = "L2" /\ TierOrder[3] = "L3" /\ TierOrder[4] = "S3"
  BY DEF TierOrder
<1>2. \A i \in 1..4 : i = 1 \/ i = 2 \/ i = 3 \/ i = 4
  OBVIOUS
<1>3. 1 \in 1..4 /\ 2 \in 1..4 /\ 3 \in 1..4 /\ 4 \in 1..4
  OBVIOUS
<1> QED
  BY <1>1, <1>2, <1>3 DEF Tiers

\* A table has finitely many signals.
LEMMA TablesAreFinite == IsFiniteSet(RuleSignals) /\ IsFiniteSet(DOMAIN LegacyPoints)
<1>1. IsFiniteSet({"role", "workload", "access", "latency"} \cup {"io", "priority", "weight"})
  <2>1. IsFiniteSet({"role"}) /\ IsFiniteSet({"workload"}) /\ IsFiniteSet({"access"})
        /\ IsFiniteSet({"latency"}) /\ IsFiniteSet({"io"}) /\ IsFiniteSet({"priority"})
        /\ IsFiniteSet({"weight"})
    BY FS_Singleton
  <2>2. {"role", "workload", "access", "latency"} \cup {"io", "priority", "weight"}
        = {"role"} \cup ({"workload"} \cup ({"access"} \cup ({"latency"} \cup ({"io"} \cup
          ({"priority"} \cup {"weight"})))))
    OBVIOUS
  <2> QED
    BY <2>1, <2>2, FS_Union
<1>2. IsFiniteSet({"type", "gpu", "kind", "mount"}
                    \cup {"framework", "readonly", "pvcs", "replicas"})
  <2>1. IsFiniteSet({"type"}) /\ IsFiniteSet({"gpu"}) /\ IsFiniteSet({"kind"})
        /\ IsFiniteSet({"mount"}) /\ IsFiniteSet({"framework"}) /\ IsFiniteSet({"readonly"})
        /\ IsFiniteSet({"pvcs"}) /\ IsFiniteSet({"replicas"})
    BY FS_Singleton
  <2>2. {"type", "gpu", "kind", "mount"} \cup {"framework", "readonly", "pvcs", "replicas"}
        = {"type"} \cup ({"gpu"} \cup ({"kind"} \cup ({"mount"} \cup ({"framework"} \cup
          ({"readonly"} \cup ({"pvcs"} \cup {"replicas"}))))))
    OBVIOUS
  <2> QED
    BY <2>1, <2>2, FS_Union
<1>3. RuleSignals = {"role", "workload", "access", "latency"} \cup {"io", "priority", "weight"}
  BY RuleSignalsAre
<1>4. DOMAIN LegacyPoints =
        {"type", "gpu", "kind", "mount"} \cup {"framework", "readonly", "pvcs", "replicas"}
  BY LegacySignalsAre
<1> QED
  BY <1>1, <1>2, <1>3, <1>4

\* Every claim with known values has a score for each tier.
LEMMA ScoresAreNat ==
  ASSUME NEW c, \A s \in RuleSignals : c[s] \in DOMAIN RulePoints[s], NEW i \in 1..4
  PROVE  Points(RulePoints, c, i) \in Nat
<1>1. \A s \in DOMAIN RulePoints : RulePoints[s][c[s]][i] \in Nat
  BY RulePointsAreNat DEF RuleSignals
<1>2. IsFiniteSet(DOMAIN RulePoints)
  BY TablesAreFinite DEF RuleSignals
<1> QED
  BY <1>1, <1>2, PointsAreNat

LEMMA LegacyScoresAreNat ==
  ASSUME NEW c, \A s \in DOMAIN LegacyPoints : c[s] \in DOMAIN LegacyPoints[s], NEW i \in 1..4
  PROVE  Points(LegacyPoints, c, i) \in Nat
<1>1. \A s \in DOMAIN LegacyPoints : LegacyPoints[s][c[s]][i] \in Nat
  BY LegacyPointsAreNat
<1> QED
  BY <1>1, TablesAreFinite, PointsAreNat

\* Whatever rule decides, what it selects is a tier.
LEMMA ScoreIsTier == \A c : HasValues(c) => ScoreRule(c) \in Tiers
<1> SUFFICES ASSUME NEW c, HasValues(c) PROVE ScoreRule(c) \in Tiers
  OBVIOUS
<1> DEFINE score == [i \in 1..4 |-> Points(RulePoints, c, i)]
<1>1. score \in [1..4 -> Nat]
  BY ScoresAreNat DEF HasValues
<1>2. ScoreRule(c) = PickTierByScore(score)
  BY DEF ScoreRule
<1> HIDE DEF score
<1> QED
  BY <1>1, <1>2, PickedIsHighest, OrderOfTiers

LEMMA NormalIsTier == \A raw : NormalTier(raw) \in Tiers \cup {None}
BY DEF NormalTier, Tiers, None

LEMMA NamedIsTier == \A raw : NamedTier(raw) \in Tiers \cup {None}
BY NormalIsTier DEF NamedTier, TierOfClass, Tiers

\* A list of tiers to prefer, followed by all four, is a list that holds all four.
LEMMA ListHasAllTiers ==
  ASSUME NEW s \in Seq(1..4)
  PROVE  /\ Len(s \o <<4, 1, 2, 3>>) \in Nat
         /\ s \o <<4, 1, 2, 3>> \in [1..Len(s \o <<4, 1, 2, 3>>) -> 1..4]
         /\ \A i \in 1..4 : \E k \in 1..Len(s \o <<4, 1, 2, 3>>) : (s \o <<4, 1, 2, 3>>)[k] = i
<1> DEFINE t == <<4, 1, 2, 3>>
           r == s \o t
<1>1. t \in Seq(1..4) /\ Len(t) = 4 /\ t[1] = 4 /\ t[2] = 1 /\ t[3] = 2 /\ t[4] = 3
  OBVIOUS
<1> HIDE DEF t
<1>2. /\ r \in Seq(1..4) /\ Len(r) = Len(s) + 4
      /\ r[Len(s) + 1] = 4 /\ r[Len(s) + 2] = 1 /\ r[Len(s) + 3] = 2 /\ r[Len(s) + 4] = 3
  BY <1>1, ConcatProperties DEF t
<1> HIDE DEF r
<1>3. Len(s) \in Nat /\ Len(r) \in Nat /\ r \in [1..Len(r) -> 1..4]
  BY <1>2
<1>4. \A i \in 1..4 : i = 1 \/ i = 2 \/ i = 3 \/ i = 4
  OBVIOUS
<1>5. \A j \in 1..4 : Len(s) + j \in 1..Len(r)
  BY <1>2, <1>3
<1>6. \A i \in 1..4 : \E k \in 1..Len(r) : r[k] = i
  BY <1>2, <1>4, <1>5
<1> QED
  BY <1>3, <1>6 DEF r, t

LEMMA LegacyIsTier == \A c : HasValues(c) => LegacySelect(c) \in Tiers
<1> SUFFICES ASSUME NEW c, HasValues(c) PROVE LegacySelect(c) \in Tiers
  OBVIOUS
<1> DEFINE typed == [c EXCEPT !.type = WorkloadType(c)]
           explicit == NormalTier(c.storageTier)
           score == [i \in 1..4 |-> Points(LegacyPoints, typed, i)]
           allowed == {i \in 1..4 : explicit \in {None, TierOrder[i]}}
           top == Highest(score, allowed)
           liked == [preprocess |-> <<1>>, train |-> <<2>>, inference |-> <<3>>, other |-> <<>>]
           order == liked[typed.type] \o <<4, 1, 2, 3>>
<1>0. DOMAIN c = ClaimFields /\ "type" \in ClaimFields
  BY DEF HasValues, ClaimFields, LabelSignals, LegacyPoints
<1>1. /\ typed.type = WorkloadType(c) /\ WorkloadType(c) \in Stages \cup {"other"}
      /\ \A f \in ClaimFields \ {"type"} : typed[f] = c[f]
  BY <1>0 DEF HasValues, WorkloadType
<1>2. \A s \in DOMAIN LegacyPoints : typed[s] \in DOMAIN LegacyPoints[s]
  <2>1. typed.type \in DOMAIN LegacyPoints.type
    BY <1>1 DEF Stages, LegacyPoints, Table
  <2>2. DOMAIN LegacyPoints \subseteq ClaimFields
    BY DEF ClaimFields, LabelSignals
  <2> HIDE DEF typed
  <2> QED
    BY <1>1, <2>1, <2>2 DEF HasValues
<1>3. score \in [1..4 -> Nat]
  <2> HIDE DEF typed
  <2> QED
    BY <1>2, LegacyScoresAreNat
<1>4. allowed \in SUBSET (1..4) /\ allowed # {}
  <2>1. explicit \in Tiers \cup {None}
    BY NormalIsTier
  <2> HIDE DEF explicit
  <2>2. 1 \in 1..4
    OBVIOUS
  <2> QED
    BY <2>1, <2>2, OrderOfTiers
<1> HIDE DEF score, allowed
<1>5. top \in SUBSET (1..4) /\ top # {}
  <2>1. top \subseteq 1..4 /\ top # {}
    BY <1>3, <1>4, HighestExists
  <2> QED
    BY <2>1
<1>6. \E n \in Nat : /\ order \in [1..n -> 1..4]
                     /\ \A i \in 1..4 : \E k \in 1..n : order[k] = i
  <2>1. liked[typed.type] \in Seq(1..4)
    <3>1. typed.type \in {"preprocess", "train", "inference", "other"}
      BY <1>1 DEF Stages
    <3>2. <<1>> \in Seq(1..4) /\ <<2>> \in Seq(1..4) /\ <<3>> \in Seq(1..4) /\ <<>> \in Seq(1..4)
      OBVIOUS
    <3>3. /\ liked["preprocess"] = <<1>> /\ liked["train"] = <<2>>
          /\ liked["inference"] = <<3>> /\ liked["other"] = <<>>
      OBVIOUS
    <3> HIDE DEF typed, liked
    <3> QED
      BY <3>1, <3>2, <3>3
  <2> HIDE DEF typed, liked
  <2> QED
    BY <2>1, ListHasAllTiers
<1> HIDE DEF order, top
<1>7. PICK n \in Nat : /\ order \in [1..n -> 1..4]
                       /\ \A i \in 1..4 : \E k \in 1..n : order[k] = i
  BY <1>6
<1>8. FirstOf(order, top) \in 1..4
  BY <1>5, <1>7, FirstIsThere
<1>9. LegacySelect(c) = TierOrder[FirstOf(order, top)]
  BY DEF LegacySelect, order, top, score, allowed
<1> QED
  BY <1>8, <1>9, OrderOfTiers

\* createPVCPatch selects a tier, and the one that is named already if one is.
LEMMA SelectionIsTier ==
  ASSUME NEW c, HasValues(c)
  PROVE  /\ Selection(c)[2] \in Tiers /\ Selection(c)[1] # None
         /\ ExistingTier(c) # None => Selection(c)[2] = ExistingTier(c)
<1>1. ExistingTier(c) \in Tiers \cup {None}
  BY NamedIsTier DEF ExistingTier, Or
<1>2. HardRule(c) \in Tiers \cup {None}
  BY NormalIsTier DEF HardRule, Tiers
<1>3. ScoreRule(c) \in Tiers /\ LegacySelect(c) \in Tiers /\ "L2" \in Tiers
  BY ScoreIsTier, LegacyIsTier DEF Tiers
<1>4. \E w \in {"existing", "hard", "score", "legacy", "default"} :
        \E t \in Tiers : /\ Selection(c) = <<w, t>>
                         /\ ExistingTier(c) # None => t = ExistingTier(c)
  <2>1. CASE ExistingTier(c) # None
    BY <1>1, <2>1 DEF Selection
  <2>2. CASE ExistingTier(c) = None /\ HardRule(c) # None
    BY <1>2, <2>2 DEF Selection
  <2>3. CASE ExistingTier(c) = None /\ HardRule(c) = None /\ HasRuleInput(c)
    BY <1>3, <2>3 DEF Selection
  <2>4. CASE ExistingTier(c) = None /\ HardRule(c) = None /\ ~HasRuleInput(c) /\ HasScoreSignals(c)
    BY <1>3, <2>4 DEF Selection
  <2>5. CASE ExistingTier(c) = None /\ HardRule(c) = None /\ ~HasRuleInput(c) /\ ~HasScoreSignals(c)
    BY <1>3, <2>5 DEF Selection
  <2> QED
    BY <2>1, <2>2, <2>3, <2>4, <2>5
<1>5. /\ "existing" # None /\ "hard" # None /\ "score" # None /\ "legacy" # None
      /\ "default" # None
  BY DEF None
<1> QED
  BY <1>4, <1>5

-----------------------------------------------------------------------------
(* The claim. *)

\* The names of a tier, of its class and of none.
LEMMA TierNames ==
  /\ \A t \in Tiers : /\ t # None /\ NormalTier(t) = t /\ NamedTier(t) = t
                      /\ ClassOf[t] # None /\ NormalTier(ClassOf[t]) = None
                      /\ ClassOf[t] \in FinalClass
                      /\ ClassOf[t] \notin LegacyClass \cup Replaceable
                      /\ TierOfClass(ClassOf[t]) = t /\ NamedTier(ClassOf[t]) = t
  /\ NormalTier(None) = None /\ NamedTier(None) = None
<1>1. ClassOf["L1"] = "storage-l1" /\ ClassOf["L2"] = "storage-l2"
      /\ ClassOf["L3"] = "storage-l3" /\ ClassOf["S3"] = "storage-s3"
  BY DEF ClassOf
<1>2. FinalClass = {"storage-l1", "storage-l2", "storage-l3", "storage-s3"}
  BY <1>1 DEF FinalClass, Tiers
<1>3. \A t \in Tiers : /\ t # None /\ NormalTier(t) = t /\ NamedTier(t) = t
  BY DEF Tiers, None, NormalTier, NamedTier
<1>4. \A t \in Tiers : /\ ClassOf[t] # None /\ NormalTier(ClassOf[t]) = None
                       /\ TierOfClass(ClassOf[t]) = t
  BY <1>1 DEF Tiers, None, NormalTier, TierOfClass
<1>5. \A t \in Tiers : /\ ClassOf[t] \in FinalClass
                       /\ ClassOf[t] \notin LegacyClass \cup Replaceable
  BY <1>1, <1>2 DEF Tiers, LegacyClass, Replaceable
<1>6. \A t \in Tiers : NamedTier(ClassOf[t]) = t
  BY <1>4, <1>5 DEF NamedTier
<1>7. NormalTier(None) = None
  BY DEF NormalTier, None
<1>8. NamedTier(None) = None
  BY <1>2, <1>7 DEF NamedTier, None, LegacyClass
<1> QED
  BY <1>3, <1>4, <1>5, <1>6, <1>7, <1>8

\* Nobody has said a tier yet; or all that is written is one tier's.
Untouched(c) == c.tier = None /\ c.label = None /\ c.class = None /\ c.reason = None
Settled(c) ==
  \E t \in Tiers : /\ c.tier = t /\ c.label = t /\ c.class = ClassOf[t] /\ c.spec # None
                   /\ c.spec \in FinalClass \cup LegacyClass \cup Replaceable
                        => c.spec = ClassOf[t]

ClaimInv ==
  /\ HasValues(claim)
  /\ claimPc = "none" => ~preset
  /\ ~preset => Untouched(claim) \/ Settled(claim)

\* The fields that are written are fields of a claim.
LEMMA FieldsAreThere ==
  /\ {"spec", "tier", "label", "hint", "class", "reason", "stage", "type", "latency"}
       \subseteq ClaimFields
  /\ RuleSignals \subseteq ClaimFields /\ DOMAIN LegacyPoints \subseteq ClaimFields
BY RuleSignalsAre, LegacySignalsAre DEF ClaimFields, LabelSignals, Selected

\* What createPVCPatch writes.
LEMMA PatchedFields ==
  ASSUME NEW c, HasValues(c), NEW t \in Tiers, Selection(c)[2] = t
  PROVE  /\ PatchedClaim(c).tier = KeepTier(c.tier, t)
         /\ PatchedClaim(c).label = KeepTier(c.label, t)
         /\ PatchedClaim(c).class = KeepClass(c.class, ClassOf[t])
         /\ PatchedClaim(c).spec = IF c.spec \in {None} \cup LegacyClass \cup Replaceable
                                     THEN ClassOf[t] ELSE c.spec
         /\ PatchedClaim(c).type = Or(c.type, StageOr(c.stage, t))
         /\ PatchedClaim(c).latency = Or(c.latency, "other")
         /\ \A s \in (RuleSignals \cup DOMAIN LegacyPoints) \ {"type", "latency"} :
              PatchedClaim(c)[s] = c[s]
         /\ DOMAIN PatchedClaim(c) = ClaimFields
<1>1. TierOfClass(ClassOf[t]) = t /\ DOMAIN c = ClaimFields
  BY TierNames DEF HasValues
<1> QED
  BY <1>1, FieldsAreThere, RuleSignalsAre, LegacySignalsAre DEF PatchedClaim

\* A patched claim has values that the tables know.
LEMMA PatchedHasValues ==
  ASSUME NEW c, HasValues(c)
  PROVE  HasValues(PatchedClaim(c))
<1>1. PICK t \in Tiers : Selection(c)[2] = t
  BY SelectionIsTier
<1>2. StageOr(c.stage, t) \in Stages \cup {"other"}
  BY DEF StageOr, DefaultStage, Tiers, Stages
<1>3. Or(c.type, StageOr(c.stage, t)) \in DOMAIN LegacyPoints.type
  BY <1>2, LegacySignalsAre DEF HasValues, Or, Stages, LegacyPoints, Table
<1>4. Or(c.latency, "other") \in DOMAIN RulePoints.latency
  BY RuleSignalsAre DEF HasValues, Or, RulePoints, Table
<1>5. "type" \notin RuleSignals /\ "latency" \notin DOMAIN LegacyPoints
  BY RuleSignalsAre, LegacySignalsAre
<1>6. /\ PatchedClaim(c).type = Or(c.type, StageOr(c.stage, t))
      /\ PatchedClaim(c).latency = Or(c.latency, "other")
      /\ \A s \in (RuleSignals \cup DOMAIN LegacyPoints) \ {"type", "latency"} :
           PatchedClaim(c)[s] = c[s]
      /\ DOMAIN PatchedClaim(c) = ClaimFields
  BY <1>1, PatchedFields
<1>7. \A s \in RuleSignals : PatchedClaim(c)[s] \in DOMAIN RulePoints[s]
  BY <1>4, <1>5, <1>6 DEF HasValues
<1>8. \A s \in DOMAIN LegacyPoints : PatchedClaim(c)[s] \in DOMAIN LegacyPoints[s]
  BY <1>3, <1>5, <1>6 DEF HasValues
<1> QED
  BY <1>6, <1>7, <1>8 DEF HasValues

\* A claim that says nothing, or one tier, says one tier when it has been patched.
LEMMA PatchSettles ==
  ASSUME NEW c, HasValues(c), Untouched(c) \/ Settled(c)
  PROVE  Settled(PatchedClaim(c))
<1>1. PICK t \in Tiers : Selection(c)[2] = t
  BY SelectionIsTier
<1>2. /\ PatchedClaim(c).tier = KeepTier(c.tier, t)
      /\ PatchedClaim(c).label = KeepTier(c.label, t)
      /\ PatchedClaim(c).class = KeepClass(c.class, ClassOf[t])
      /\ PatchedClaim(c).spec = IF c.spec \in {None} \cup LegacyClass \cup Replaceable
                                  THEN ClassOf[t] ELSE c.spec
  BY <1>1, PatchedFields
<1>3. None \notin LegacyClass
  BY DEF None, LegacyClass
<1>4. CASE Untouched(c)
  <2>1. KeepTier(c.tier, t) = t /\ KeepTier(c.label, t) = t
        /\ KeepClass(c.class, ClassOf[t]) = ClassOf[t]
    BY <1>3, <1>4, TierNames DEF Untouched, KeepTier, KeepClass, Or
  <2>2. ASSUME c.spec \in FinalClass PROVE c.spec = ClassOf[t]
    <3>1. PICK u \in Tiers : c.spec = ClassOf[u]
      BY <2>2 DEF FinalClass
    <3>2. ExistingTier(c) = u
      BY <1>4, <3>1, TierNames DEF ExistingTier, Or, Untouched
    <3> QED
      BY <1>1, <3>1, <3>2, SelectionIsTier, TierNames
  <2> QED
    BY <1>2, <2>1, <2>2, TierNames DEF Settled
<1>5. CASE Settled(c)
  <2>1. PICK u \in Tiers : /\ c.tier = u /\ c.label = u /\ c.class = ClassOf[u] /\ c.spec # None
                           /\ c.spec \in FinalClass \cup LegacyClass \cup Replaceable
                                => c.spec = ClassOf[u]
    BY <1>5 DEF Settled
  <2>2. ExistingTier(c) = u
    BY <2>1, TierNames DEF ExistingTier, Or
  <2>3. t = u
    BY <1>1, <2>2, SelectionIsTier, TierNames
  <2>4. KeepTier(u, t) = u /\ KeepClass(ClassOf[u], ClassOf[t]) = ClassOf[u]
    BY TierNames DEF KeepTier, KeepClass, Or
  <2> QED
    BY <1>2, <2>1, <2>3, <2>4, TierNames DEF Settled
<1> QED
  BY <1>4, <1>5

LEMMA BlankHasValues == HasValues(BlankClaim)
<1>1. /\ \A s \in RuleSignals : None \in DOMAIN RulePoints[s]
      /\ \A s \in DOMAIN LegacyPoints : None \in DOMAIN LegacyPoints[s]
  BY RuleSignalsAre, LegacySignalsAre DEF RulePoints, LegacyPoints, Table, None
<1> QED
  BY <1>1, FieldsAreThere DEF HasValues, BlankClaim

LEMMA WebhookInitInv == WebhookInit => ClaimInv
BY BlankHasValues, FieldsAreThere DEF WebhookInit, ClaimInv, Untouched, BlankClaim

\* Each step of a claim keeps it: untouched, or settled on one tier.
LEMMA ClaimInvNext ==
  ASSUME ClaimInv, WebhookNext
  PROVE  ClaimInv'
<1>1. CASE CreateClaim
  <2>1. HasValues(claim') /\ claim'.reason = None
    BY <1>1, WebhookAssumption DEF CreateClaim
  <2>2. ~preset' => Untouched(claim')
    BY <1>1, <2>1 DEF CreateClaim, Selected, Untouched
  <2> QED
    BY <1>1, <2>1, <2>2 DEF CreateClaim, ClaimInv
<1>2. CASE AdmitClaim
  <2>1. HasValues(claim')
    BY <1>2, PatchedHasValues DEF AdmitClaim, ClaimInv
  <2>2. ~preset' => Settled(claim')
    BY <1>2, PatchSettles DEF AdmitClaim, ClaimInv
  <2>3. claimPc' # "none"
    BY <1>2 DEF AdmitClaim, Called
  <2> QED
    BY <2>1, <2>2, <2>3 DEF ClaimInv
<1>3. ASSUME NEW f \in ClaimFields, NEW v \in OtherGives(f), OtherWebhook(f, v) PROVE ClaimInv'
  <2>1. /\ f # "reason" /\ (f \in RuleSignals => v \in DOMAIN RulePoints[f])
        /\ (f \in DOMAIN LegacyPoints => v \in DOMAIN LegacyPoints[f])
    BY WebhookAssumption
  <2>2. /\ DOMAIN claim = ClaimFields /\ DOMAIN claim' = ClaimFields
        /\ claim'[f] = v /\ claim[f] = None
        /\ \A g \in ClaimFields \ {f} : claim'[g] = claim[g]
    BY <1>3 DEF OtherWebhook, ClaimInv, HasValues
  <2>3. HasValues(claim')
    BY <2>1, <2>2, FieldsAreThere DEF ClaimInv, HasValues
  <2>4. ASSUME ~preset' PROVE Untouched(claim') \/ Settled(claim')
    <3>1. ~preset /\ f \notin Selected
      BY <1>3, <2>4 DEF OtherWebhook
    <3>2. claim'.tier = claim.tier /\ claim'.label = claim.label /\ claim'.class = claim.class
          /\ claim'.reason = claim.reason
      BY <2>1, <2>2, <3>1, FieldsAreThere DEF Selected
    <3>3. CASE Untouched(claim)
      BY <3>2, <3>3 DEF Untouched
    <3>4. CASE Settled(claim)
      <4>1. claim'.spec = claim.spec
        BY <2>2, <3>4, FieldsAreThere DEF Settled
      <4> QED
        BY <3>2, <3>4, <4>1 DEF Settled
    <3> QED
      BY <3>1, <3>3, <3>4 DEF ClaimInv
  <2>5. claimPc' # "none"
    BY <1>3 DEF OtherWebhook
  <2> QED
    BY <2>3, <2>4, <2>5 DEF ClaimInv
<1>4. CASE IgnoreClaim \/ StoreClaim
  BY <1>4 DEF IgnoreClaim, StoreClaim, ClaimInv, Called
<1>5. CASE CreatePod \/ AdmitPod \/ IgnorePod \/ OtherPodWebhook \/ StorePod
  BY <1>5 DEF CreatePod, AdmitPod, IgnorePod, OtherPodWebhook, StorePod, ClaimInv
<1> QED
  BY <1>1, <1>2, <1>3, <1>4, <1>5 DEF WebhookNext

LEMMA ClaimInvAlways == WebhookSpec => []ClaimInv
<1>1. ASSUME ClaimInv, UNCHANGED webhookVars PROVE ClaimInv'
  BY <1>1 DEF webhookVars, ClaimInv, HasValues, Untouched, Settled
<1> QED
  BY <1>1, WebhookInitInv, ClaimInvNext, PTL DEF WebhookSpec

\* What createPVCPatch has written about a claim names one tier, unless somebody else has
\* named one for it (mutate.go:689-796, 1229-1435).
THEOREM WebhookClaimTierAgrees == WebhookSpec => []ClaimTierAgrees
<1>1. ClaimInv => ClaimTierAgrees
  BY TierNames DEF ClaimInv, ClaimTierAgrees, Untouched, Settled
<1> QED
  BY <1>1, ClaimInvAlways, PTL

-----------------------------------------------------------------------------
(* The weights. *)

\* The points of a tier, signal by signal.
LEMMA RuleScore ==
  ASSUME NEW c, HasValues(c), NEW i \in 1..4
  PROVE  Points(RulePoints, c, i) =
           RulePoints.role[c.role][i] + (RulePoints.workload[c.workload][i] +
             (RulePoints.access[c.access][i] + (RulePoints.latency[c.latency][i] +
               (RulePoints.io[c.io][i] + (RulePoints.priority[c.priority][i] +
                  RulePoints.weight[c.weight][i])))))
<1> DEFINE S == DOMAIN RulePoints
           a == [s \in S |-> RulePoints[s][c[s]][i]]
<1>1. S = {"role", "workload", "access", "latency", "io", "priority", "weight"} /\ IsFiniteSet(S)
  BY RuleSignalsAre, TablesAreFinite DEF RuleSignals
<1>2. \A s \in S : RulePoints[s][c[s]][i] \in Nat
  BY RulePointsAreNat DEF HasValues, RuleSignals
<1>3. a \in [S -> Nat] /\ \A s \in S : a[s] = RulePoints[s][c[s]][i]
  BY <1>2
<1>4. PICK g : Sums(g, a, SUBSET S) /\ Points(RulePoints, c, i) = g[S]
  BY <1>1, <1>2, PointsAreSums
<1> HIDE DEF a, S
<1>5. \A R \in SUBSET S : \A w \in R : g[R] = a[w] + g[R \ {w}]
  <2>1. IsFiniteSet(S) /\ a \in [S -> Nat] /\ Sums(g, a, SUBSET S)
    BY <1>1, <1>3, <1>4
  <2> SUFFICES ASSUME NEW R \in SUBSET S, NEW w \in R PROVE g[R] = a[w] + g[R \ {w}]
    OBVIOUS
  <2> QED
    BY <2>1, SumsSplit
<1> DEFINE R1 == {"workload", "access", "latency", "io", "priority", "weight"}
           R2 == {"access", "latency", "io", "priority", "weight"}
           R3 == {"latency", "io", "priority", "weight"}
           R4 == {"io", "priority", "weight"}
           R5 == {"priority", "weight"}
           R6 == {"weight"}
<1>6. /\ R1 \in SUBSET S /\ R2 \in SUBSET S /\ R3 \in SUBSET S /\ R4 \in SUBSET S
      /\ R5 \in SUBSET S /\ R6 \in SUBSET S /\ S \in SUBSET S
      /\ "role" \in S /\ "workload" \in R1 /\ "access" \in R2 /\ "latency" \in R3
      /\ "io" \in R4 /\ "priority" \in R5 /\ "weight" \in R6
  BY <1>1
<1>7. /\ S \ {"role"} = R1 /\ R1 \ {"workload"} = R2 /\ R2 \ {"access"} = R3
      /\ R3 \ {"latency"} = R4
  BY <1>1
<1>8. R4 \ {"io"} = R5 /\ R5 \ {"priority"} = R6 /\ R6 \ {"weight"} = {}
  OBVIOUS
<1> HIDE DEF R1, R2, R3, R4, R5, R6
<1>9. /\ g[S] = a["role"] + g[R1] /\ g[R1] = a["workload"] + g[R2]
      /\ g[R2] = a["access"] + g[R3] /\ g[R3] = a["latency"] + g[R4]
      /\ g[R4] = a["io"] + g[R5] /\ g[R5] = a["priority"] + g[R6]
      /\ g[R6] = a["weight"] + g[{}]
  BY <1>5, <1>6, <1>7, <1>8
<1>10. g[{}] = 0
  BY <1>4 DEF Sums
<1>11. /\ "workload" \in S /\ "access" \in S /\ "latency" \in S /\ "io" \in S
       /\ "priority" \in S /\ "weight" \in S
  BY <1>1
<1>12. g[S] = a["role"] + (a["workload"] + (a["access"] + (a["latency"] + (a["io"] +
                (a["priority"] + a["weight"])))))
  BY <1>3, <1>6, <1>9, <1>10, <1>11
<1> QED
  BY <1>3, <1>4, <1>6, <1>11, <1>12

\* Priority and weight give L2 what they give L1, and never more than 15.
LEMMA MinorPoints ==
  ASSUME NEW c, HasValues(c)
  PROVE  /\ RulePoints.priority[c.priority][1] <= RulePoints.priority[c.priority][2]
         /\ RulePoints.weight[c.weight][1] <= RulePoints.weight[c.weight][2]
         /\ \A i \in 1..4 : /\ RulePoints.priority[c.priority][i] <= 10
                            /\ RulePoints.weight[c.weight][i] <= 5
<1>1. \A i \in 1..4 : i = 1 \/ i = 2 \/ i = 3 \/ i = 4
  OBVIOUS
<1>2. c.priority \in DOMAIN RulePoints.priority /\ c.weight \in DOMAIN RulePoints.weight
  BY RuleSignalsAre DEF HasValues
<1>3. c.priority \in {"high", "medium", "low", "none", "other"}
  BY <1>2 DEF RulePoints, Table
<1>4. c.weight \in {"heavy", "one", "light", "none", "other"}
  BY <1>2 DEF RulePoints, Table
<1>5. /\ RulePoints.priority[c.priority][1] <= RulePoints.priority[c.priority][2]
      /\ \A i \in 1..4 : RulePoints.priority[c.priority][i] <= 10
  BY <1>1, <1>3 DEF RulePoints, Table, Zero
<1>6. /\ RulePoints.weight[c.weight][1] <= RulePoints.weight[c.weight][2]
      /\ \A i \in 1..4 : RulePoints.weight[c.weight][i] <= 5
  BY <1>1, <1>4 DEF RulePoints, Table, Zero
<1> QED
  BY <1>5, <1>6

\* A role that has a tier gives it 50 points and the others none.
LEMMA RolePoints ==
  /\ RulePoints.role["cache"][1] = 50 /\ RulePoints.role["cache"][2] = 0
  /\ RulePoints.role["cache"][3] = 0 /\ RulePoints.role["cache"][4] = 0
  /\ RulePoints.role["input"][1] = 0 /\ RulePoints.role["input"][2] = 50
  /\ RulePoints.role["input"][3] = 0 /\ RulePoints.role["input"][4] = 0
  /\ RulePoints.role["raw"][1] = 0 /\ RulePoints.role["raw"][2] = 0
  /\ RulePoints.role["raw"][3] = 50 /\ RulePoints.role["raw"][4] = 0
  /\ RulePoints.role["archive"][1] = 0 /\ RulePoints.role["archive"][2] = 0
  /\ RulePoints.role["archive"][3] = 0 /\ RulePoints.role["archive"][4] = 50
BY DEF RulePoints, Table

\* What scoreRuleSelect picks has the highest score, and L1 only when L2 has less.
LEMMA PickedByScore ==
  ASSUME NEW c, HasValues(c)
  PROVE  \E i \in 1..4 : /\ ScoreRule(c) = TierOrder[i]
                         /\ \A j \in 1..4 : Points(RulePoints, c, j) <= Points(RulePoints, c, i)
                         /\ i = 1 => Points(RulePoints, c, 2) < Points(RulePoints, c, 1)
<1> DEFINE score == [i \in 1..4 |-> Points(RulePoints, c, i)]
<1>1. score \in [1..4 -> Nat]
  BY ScoresAreNat DEF HasValues
<1>2. ScoreRule(c) = PickTierByScore(score)
  BY DEF ScoreRule
<1>3. \A i \in 1..4 : score[i] = Points(RulePoints, c, i)
  OBVIOUS
<1> HIDE DEF score
<1>4. PICK i \in 1..4 : /\ PickTierByScore(score) = TierOrder[i]
                        /\ \A j \in 1..4 : score[j] <= score[i]
                        /\ i = 1 => score[2] < score[1]
  BY <1>1, PickedIsHighest
<1>5. 1 \in 1..4 /\ 2 \in 1..4
  OBVIOUS
<1> QED
  BY <1>2, <1>3, <1>4, <1>5

\* The points of the seven signals, by name.
LEMMA SignalPoints ==
  ASSUME NEW c, HasValues(c), NEW i \in 1..4
  PROVE  /\ RulePoints.role[c.role][i] \in Nat /\ RulePoints.workload[c.workload][i] \in Nat
         /\ RulePoints.access[c.access][i] \in Nat /\ RulePoints.latency[c.latency][i] \in Nat
         /\ RulePoints.io[c.io][i] \in Nat /\ RulePoints.priority[c.priority][i] \in Nat
         /\ RulePoints.weight[c.weight][i] \in Nat
<1>1. \A s \in RuleSignals : RulePoints[s][c[s]][i] \in Nat
  BY RulePointsAreNat DEF HasValues
<1> QED
  BY <1>1, RuleSignalsAre

\* L1 is not picked for the points of priority and weight alone.
LEMMA NoL1ByMinors ==
  ASSUME NEW c, HasValues(c), ScoreRule(c) = "L1",
         NEW minor, minor = {"priority", "weight"}
  PROVE  \E s \in RuleSignals \ minor : RulePoints[s][c[s]][1] > 0
<1>1. SUFFICES ASSUME \A s \in RuleSignals \ minor : ~(RulePoints[s][c[s]][1] > 0) PROVE FALSE
  OBVIOUS
<1>2. PICK i \in 1..4 : /\ ScoreRule(c) = TierOrder[i]
                        /\ i = 1 => Points(RulePoints, c, 2) < Points(RulePoints, c, 1)
  BY PickedByScore
<1>3. i = 1
  BY <1>2, OrderOfTiers
<1>4. 1 \in 1..4 /\ 2 \in 1..4
  OBVIOUS
<1>5. \A s \in {"role", "workload", "access", "latency", "io"} : ~(RulePoints[s][c[s]][1] > 0)
  BY <1>1, RuleSignalsAre
<1> DEFINE major(t) == RulePoints.role[c.role][t] + (RulePoints.workload[c.workload][t] +
                         (RulePoints.access[c.access][t] + (RulePoints.latency[c.latency][t] +
                           RulePoints.io[c.io][t])))
           priority(t) == RulePoints.priority[c.priority][t]
           weight(t) == RulePoints.weight[c.weight][t]
<1>6. \A t \in 1..4 : /\ major(t) \in Nat /\ priority(t) \in Nat /\ weight(t) \in Nat
                      /\ Points(RulePoints, c, t) = major(t) + (priority(t) + weight(t))
  <2> SUFFICES ASSUME NEW k \in 1..4
               PROVE  /\ major(k) \in Nat /\ priority(k) \in Nat /\ weight(k) \in Nat
                      /\ Points(RulePoints, c, k) = major(k) + (priority(k) + weight(k))
    OBVIOUS
  <2>1. /\ RulePoints.role[c.role][k] \in Nat /\ RulePoints.workload[c.workload][k] \in Nat
        /\ RulePoints.access[c.access][k] \in Nat /\ RulePoints.latency[c.latency][k] \in Nat
        /\ RulePoints.io[c.io][k] \in Nat /\ priority(k) \in Nat /\ weight(k) \in Nat
    BY SignalPoints
  <2>2. Points(RulePoints, c, k) =
          RulePoints.role[c.role][k] + (RulePoints.workload[c.workload][k] +
            (RulePoints.access[c.access][k] + (RulePoints.latency[c.latency][k] +
              (RulePoints.io[c.io][k] + (priority(k) + weight(k))))))
    BY RuleScore
  <2> QED
    BY SMTT(30), <2>1, <2>2
<1>7. major(1) = 0
  <2>1. /\ RulePoints.role[c.role][1] \in Nat /\ RulePoints.workload[c.workload][1] \in Nat
        /\ RulePoints.access[c.access][1] \in Nat /\ RulePoints.latency[c.latency][1] \in Nat
        /\ RulePoints.io[c.io][1] \in Nat
    BY <1>4, SignalPoints
  <2>2. /\ ~(RulePoints.role[c.role][1] > 0) /\ ~(RulePoints.workload[c.workload][1] > 0)
        /\ ~(RulePoints.access[c.access][1] > 0) /\ ~(RulePoints.latency[c.latency][1] > 0)
        /\ ~(RulePoints.io[c.io][1] > 0)
    BY <1>5
  <2> QED
    BY SMTT(30), <2>1, <2>2
<1>8. priority(1) <= priority(2) /\ weight(1) <= weight(2)
  BY MinorPoints
<1> HIDE DEF major, priority, weight
<1> QED
  BY <1>2, <1>3, <1>4, <1>6, <1>7, <1>8

\* A role that has a tier decides when only priority and weight say something else.
LEMMA RoleDecides ==
  ASSUME NEW c, HasValues(c), NEW k \in 1..4,
         \A s \in {"workload", "access", "latency", "io"} : RulePoints[s][c[s]] = Zero,
         \A j \in 1..4 : RulePoints.role[c.role][j] = IF j = k THEN 50 ELSE 0
  PROVE  ScoreRule(c) = TierOrder[k]
<1>1. \A j \in 1..4 : Zero[j] = 0
  <2>1. \A j \in 1..4 : j = 1 \/ j = 2 \/ j = 3 \/ j = 4
    OBVIOUS
  <2> QED
    BY <2>1 DEF Zero
<1>2. \A j \in 1..4 : /\ RulePoints.workload[c.workload][j] = 0
                      /\ RulePoints.access[c.access][j] = 0
                      /\ RulePoints.latency[c.latency][j] = 0 /\ RulePoints.io[c.io][j] = 0
  BY <1>1
<1>3. \A j \in 1..4 : Points(RulePoints, c, j) =
        RulePoints.role[c.role][j] + (RulePoints.workload[c.workload][j] +
          (RulePoints.access[c.access][j] + (RulePoints.latency[c.latency][j] +
            (RulePoints.io[c.io][j] + (RulePoints.priority[c.priority][j] +
               RulePoints.weight[c.weight][j])))))
  BY RuleScore
<1>4. \A j \in 1..4 : RulePoints.priority[c.priority][j] \in Nat
                      /\ RulePoints.weight[c.weight][j] \in Nat
  BY SignalPoints
<1>5. \A j \in 1..4 : /\ RulePoints.priority[c.priority][j] <= 10
                      /\ RulePoints.weight[c.weight][j] <= 5
  BY MinorPoints
<1> DEFINE priority(j) == RulePoints.priority[c.priority][j]
           weight(j) == RulePoints.weight[c.weight][j]
<1>6. Points(RulePoints, c, k) >= 50 /\ \A j \in 1..4 \ {k} : Points(RulePoints, c, j) <= 15
  <2>1. \A j \in 1..4 : /\ priority(j) \in Nat /\ weight(j) \in Nat
                        /\ priority(j) <= 10 /\ weight(j) <= 5
    BY <1>4, <1>5
  <2>2. \A j \in 1..4 : Points(RulePoints, c, j) =
          RulePoints.role[c.role][j] + (0 + (0 + (0 + (0 + (priority(j) + weight(j))))))
    BY <1>2, <1>3
  <2>3. \A j \in 1..4 : RulePoints.role[c.role][j] = IF j = k THEN 50 ELSE 0
    OBVIOUS
  <2> HIDE DEF priority, weight
  <2> QED
    BY SMTT(30), <2>1, <2>2, <2>3
<1>7. PICK i \in 1..4 : /\ ScoreRule(c) = TierOrder[i]
                        /\ \A j \in 1..4 : Points(RulePoints, c, j) <= Points(RulePoints, c, i)
  BY PickedByScore
<1>8. Points(RulePoints, c, k) \in Nat /\ Points(RulePoints, c, i) \in Nat
  BY ScoresAreNat DEF HasValues
<1>9. i = k
  BY <1>6, <1>7, <1>8
<1> QED
  BY <1>7, <1>9

\* Priority and weight do not decide against the role of the data, nor for L1 by themselves,
\* whatever the claim says and another webhook has added to it (mutate.go:2295-2302, 2518).
THEOREM WebhookMinorSignalsYield == WebhookSpec => []MinorSignalsYield
<1>1. ASSUME HasValues(claim) PROVE MinorSignalsYield
  <2> DEFINE minor == {"priority", "weight"}
             RoleTier == [cache |-> "L1", input |-> "L2", raw |-> "L3", archive |-> "S3"]
  <2>1. ScoreRule(claim) = "L1" => \E s \in RuleSignals \ minor : RulePoints[s][claim[s]][1] > 0
    BY <1>1, NoL1ByMinors
  <2>2. ASSUME \A s \in RuleSignals \ (minor \cup {"role"}) : RulePoints[s][claim[s]] = Zero,
               claim.role \in DOMAIN RoleTier
        PROVE  ScoreRule(claim) = RoleTier[claim.role]
    <3>1. \A s \in {"workload", "access", "latency", "io"} : RulePoints[s][claim[s]] = Zero
      BY <2>2, RuleSignalsAre
    <3>2. \A j \in 1..4 : j = 1 \/ j = 2 \/ j = 3 \/ j = 4
      OBVIOUS
    <3>3. 1 \in 1..4 /\ 2 \in 1..4 /\ 3 \in 1..4 /\ 4 \in 1..4
      OBVIOUS
    <3>4. CASE claim.role = "cache"
      <4>1. \A j \in 1..4 : RulePoints.role[claim.role][j] = IF j = 1 THEN 50 ELSE 0
        BY <3>2, <3>4, RolePoints
      <4> QED
        BY <1>1, <3>1, <3>3, <3>4, <4>1, RoleDecides, OrderOfTiers
    <3>5. CASE claim.role = "input"
      <4>1. \A j \in 1..4 : RulePoints.role[claim.role][j] = IF j = 2 THEN 50 ELSE 0
        BY <3>2, <3>5, RolePoints
      <4> QED
        BY <1>1, <3>1, <3>3, <3>5, <4>1, RoleDecides, OrderOfTiers
    <3>6. CASE claim.role = "raw"
      <4>1. \A j \in 1..4 : RulePoints.role[claim.role][j] = IF j = 3 THEN 50 ELSE 0
        BY <3>2, <3>6, RolePoints
      <4> QED
        BY <1>1, <3>1, <3>3, <3>6, <4>1, RoleDecides, OrderOfTiers
    <3>7. CASE claim.role = "archive"
      <4>1. \A j \in 1..4 : RulePoints.role[claim.role][j] = IF j = 4 THEN 50 ELSE 0
        BY <3>2, <3>7, RolePoints
      <4> QED
        BY <1>1, <3>1, <3>3, <3>7, <4>1, RoleDecides, OrderOfTiers
    <3> QED
      BY <2>2, <3>4, <3>5, <3>6, <3>7
  <2> QED
    BY <2>1, <2>2 DEF MinorSignalsYield
<1>2. ClaimInv => MinorSignalsYield
  BY <1>1 DEF ClaimInv
<1> QED
  BY <1>2, ClaimInvAlways, PTL

-----------------------------------------------------------------------------
(* The Pod. *)

\* A Pod that the webhook has not seen; and one that it has patched, which lacks the label or
\* the annotation only if the claim, that will not change any more, has no tier to give.
Fresh(p) == /\ p.label = None /\ p.tier = None
            /\ p.labels = None => \A f \in Labels \cup {"owner"} : p[f] = None
NothingToGive(pc, c) == pc = "stored" /\ c.label = None /\ c.tier = None
Written(p, pc, c) ==
  /\ p.labels = "map" /\ p.annots = "map"
  /\ p.label = p.tier \/ ((p.label = None \/ p.tier = None) /\ NothingToGive(pc, c))

PodInv == ~preset => Fresh(pod) \/ Written(pod, claimPc, claim)

\* Which fields are labels and which are annotations.
LEMMA LabelFields ==
  /\ Labels = {"type", "gpu", "kind", "mount", "framework", "readonly", "pvcs", "replicas",
               "stage", "storageTier", "label"}
  /\ Annotations = {"role", "workload", "access", "latency", "io", "priority", "weight",
                    "tier", "class", "hint", "reason"}
  /\ {"label", "tier", "labels", "annots"} \subseteq PodFields
BY RuleSignalsAre, LegacySignalsAre DEF Labels, LabelSignals, Annotations, PodFields

LEMMA MetadataIsTier == \A m : TierFromMetadata(m) \in Tiers
BY NormalIsTier DEF TierFromMetadata, Tiers

\* What createPatch writes of the tier: x is the claim's own.
LEMMA PatchedPodFields ==
  ASSUME NEW p, NEW c, NEW x, c.label = x, c.tier = x
  PROVE  \E t \in Tiers :
           /\ PatchedPod(p, c).labels = "map" /\ PatchedPod(p, c).annots = "map"
           /\ \/ /\ p.labels = None /\ \E f \in Labels : Effective(p, c)[f] # None
                 /\ PatchedPod(p, c).label = Or(p.label, x)
              \/ /\ ~(p.labels = None /\ \E f \in Labels : Effective(p, c)[f] # None)
                 /\ PatchedPod(p, c).label = IF p.label = None /\ x # None THEN x ELSE t
           /\ \/ /\ p.annots = None /\ \E f \in Annotations : Effective(p, c)[f] # None
                 /\ PatchedPod(p, c).tier = Or(p.tier, x)
              \/ /\ ~(p.annots = None /\ \E f \in Annotations : Effective(p, c)[f] # None)
                 /\ PatchedPod(p, c).tier = IF p.tier = None /\ x # None THEN x ELSE t
<1> DEFINE m == Effective(p, c)
           t == TierFromMetadata(m)
<1>1. t \in Tiers
  BY MetadataIsTier
<1>2. "label" \in Labels /\ "tier" \notin Labels /\ "labels" \notin Labels /\ "annots" \notin Labels
  BY LabelFields
<1>3. m.label = Or(p.label, x) /\ m.tier = Or(p.tier, x)
  BY LabelFields DEF Effective
<1>4. PatchedPod(p, c).labels = "map" /\ PatchedPod(p, c).annots = "map"
  BY <1>2, LabelFields DEF PatchedPod
<1> HIDE DEF m
<1>5. PatchedPod(p, c).label =
        IF p.labels = None /\ \E f \in Labels : m[f] # None THEN m.label
        ELSE IF p.label = None /\ m.label # None THEN m.label ELSE t
  BY <1>2, LabelFields DEF PatchedPod, ForcedLabel, m
<1>6. PatchedPod(p, c).tier =
        IF p.annots = None /\ \E f \in Annotations : m[f] # None THEN m.tier
        ELSE IF p.tier = None /\ m.tier # None THEN m.tier ELSE t
  BY <1>2, LabelFields DEF PatchedPod, m
<1>7. /\ p.label = None => m.label = x
      /\ p.tier = None => m.tier = x
  BY <1>3 DEF Or
<1> HIDE DEF t
<1>8. \/ /\ p.labels = None /\ \E f \in Labels : m[f] # None
         /\ PatchedPod(p, c).label = Or(p.label, x)
      \/ /\ ~(p.labels = None /\ \E f \in Labels : m[f] # None)
         /\ PatchedPod(p, c).label = IF p.label = None /\ x # None THEN x ELSE t
  BY <1>3, <1>5, <1>7
<1>9. \/ /\ p.annots = None /\ \E f \in Annotations : m[f] # None
         /\ PatchedPod(p, c).tier = Or(p.tier, x)
      \/ /\ ~(p.annots = None /\ \E f \in Annotations : m[f] # None)
         /\ PatchedPod(p, c).tier = IF p.tier = None /\ x # None THEN x ELSE t
  BY <1>3, <1>6, <1>7
<1> QED
  BY <1>1, <1>4, <1>8, <1>9 DEF m

\* A Pod that is seen for the first time, with a claim or without one.
LEMMA FirstPatch ==
  ASSUME NEW p, Fresh(p), NEW c, NEW x, c.label = x, c.tier = x
  PROVE  /\ PatchedPod(p, c).labels = "map" /\ PatchedPod(p, c).annots = "map"
         /\ \/ PatchedPod(p, c).label = PatchedPod(p, c).tier
            \/ /\ x = None
               /\ PatchedPod(p, c).label = None \/ PatchedPod(p, c).tier = None
<1>1. p.label = None /\ p.tier = None /\ \A t \in Tiers : t # None
  BY TierNames DEF Fresh
<1> QED
  BY <1>1, PatchedPodFields DEF Or

\* A Pod that is seen for the first time when its claim cannot be read.
LEMMA FirstPatchBlank ==
  ASSUME NEW p, Fresh(p)
  PROVE  /\ PatchedPod(p, BlankClaim).labels = "map" /\ PatchedPod(p, BlankClaim).annots = "map"
         /\ PatchedPod(p, BlankClaim).label = PatchedPod(p, BlankClaim).tier
<1>1. \A f \in Labels \cup Annotations : BlankClaim[f] = None
  <2>1. Labels \cup Annotations \subseteq ClaimFields
    BY DEF Labels, Annotations, ClaimFields, Selected
  <2> QED
    BY <2>1 DEF BlankClaim
<1>2. BlankClaim.label = None /\ BlankClaim.tier = None
  BY <1>1, LabelFields
<1>3. p.labels = None => \A f \in Labels : Effective(p, BlankClaim)[f] = None
  BY <1>1 DEF Fresh, Effective, Or
<1>4. \A f \in Annotations : Effective(p, BlankClaim)[f] = None
  <2> SUFFICES ASSUME NEW f \in Annotations PROVE Effective(p, BlankClaim)[f] = None
    OBVIOUS
  <2>1. f # "kind" /\ (f \in PodFields => f = "tier")
    BY LabelFields DEF PodFields
  <2> QED
    BY <1>1, <2>1 DEF Fresh, Effective, Or
<1> HIDE DEF BlankClaim
<1> QED
  BY <1>2, <1>3, <1>4, PatchedPodFields

\* A Pod that has been patched is patched again.
LEMMA NextPatch ==
  ASSUME NEW p, p.labels = "map", p.annots = "map", NEW c, NEW x, c.label = x, c.tier = x,
         p.label = p.tier \/ x = None
  PROVE  /\ PatchedPod(p, c).labels = "map" /\ PatchedPod(p, c).annots = "map"
         /\ PatchedPod(p, c).label = PatchedPod(p, c).tier
<1>1. p.labels # None /\ p.annots # None
  BY DEF None
<1> QED
  BY <1>1, PatchedPodFields

LEMMA ClaimHasOneTier ==
  ASSUME ClaimInv, ~preset
  PROVE  claim.label = claim.tier
BY DEF ClaimInv, Untouched, Settled

\* Each step keeps a Pod fresh or written.
LEMMA PodInvNext ==
  ASSUME ClaimInv, PodInv, WebhookNext
  PROVE  PodInv'
<1> SUFFICES ASSUME ~preset' PROVE Fresh(pod') \/ Written(pod', claimPc', claim')
  BY DEF PodInv
<1>1. CASE CreateClaim
  BY <1>1 DEF CreateClaim, ClaimInv, PodInv, Written, NothingToGive
<1>2. CASE AdmitClaim
  BY <1>2 DEF AdmitClaim, PodInv, Written, NothingToGive
<1>3. ASSUME NEW f \in ClaimFields, NEW v \in OtherGives(f), OtherWebhook(f, v)
      PROVE  Fresh(pod') \/ Written(pod', claimPc', claim')
  BY <1>3 DEF OtherWebhook, PodInv, Written, NothingToGive
<1>4. CASE IgnoreClaim \/ StoreClaim
  BY <1>4 DEF IgnoreClaim, StoreClaim, PodInv, Written, NothingToGive
<1>5. CASE CreatePod
  BY <1>5, WebhookAssumption DEF CreatePod, Fresh
<1>6. CASE AdmitPod
  <2>1. ~preset /\ UNCHANGED <<claim, claimPc>>
    BY <1>6 DEF AdmitPod
  <2>2. claim.label = claim.tier
    BY <2>1, ClaimHasOneTier
  <2>3. BlankClaim.label = None /\ BlankClaim.tier = None
    BY FieldsAreThere DEF BlankClaim
  <2>4. CASE Fresh(pod)
    <3>1. CASE claimPc = "stored" /\ pod' = PatchedPod(pod, claim)
      BY <2>1, <2>2, <2>4, <3>1, FirstPatch DEF Written, NothingToGive
    <3>2. CASE pod' = PatchedPod(pod, BlankClaim)
      BY <2>4, <3>2, FirstPatchBlank DEF Written
    <3> QED
      BY <1>6, <3>1, <3>2 DEF AdmitPod
  <2>5. CASE Written(pod, claimPc, claim)
    <3>1. pod.label = pod.tier \/ (claim.label = None /\ claim.tier = None)
      BY <2>5 DEF Written, NothingToGive
    <3>2. CASE pod' = PatchedPod(pod, claim)
      BY <2>2, <2>5, <3>1, <3>2, NextPatch DEF Written
    <3>3. CASE pod' = PatchedPod(pod, BlankClaim)
      BY <2>3, <2>5, <3>3, NextPatch DEF Written
    <3> QED
      BY <1>6, <3>2, <3>3 DEF AdmitPod
  <2> QED
    BY <2>1, <2>4, <2>5 DEF PodInv
<1>7. CASE IgnorePod \/ OtherPodWebhook \/ StorePod
  BY <1>7 DEF IgnorePod, OtherPodWebhook, StorePod, PodInv
<1> QED
  BY <1>1, <1>2, <1>3, <1>4, <1>5, <1>6, <1>7 DEF WebhookNext

\* The label and the annotation of a Pod's tier agree, although two passes write them and the
\* webhook may be called again, with another claim than before or with none
\* (mutate.go:1061, 628).
THEOREM WebhookPodTierAgrees == WebhookSpec => []PodTierAgrees
<1>1. WebhookInit => PodInv
  <2>1. WebhookInit => Fresh(pod)
    BY LabelFields DEF WebhookInit, BlankPod, Fresh, PodFields
  <2> QED
    BY <2>1 DEF PodInv
<1>2. ASSUME PodInv, UNCHANGED webhookVars PROVE PodInv'
  BY <1>2 DEF webhookVars, PodInv, Written, Fresh, NothingToGive
<1>3. PodInv => PodTierAgrees
  BY DEF PodInv, PodTierAgrees, Fresh, Written
<1> QED
  BY <1>1, <1>2, <1>3, ClaimInvAlways, PodInvNext, PTL DEF WebhookSpec
=============================================================================
