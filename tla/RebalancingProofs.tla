------------------------- MODULE RebalancingProofs -------------------------
(***************************************************************************)
(* The preemptions, the load balancing jobs and the autoscalers, for every *)
(* cluster, every number of jobs and requests, and every load and demand.  *)
(*                                                                         *)
(* Preemption.  AchievedIsTrue follows from what each job knows of its own *)
(* selection (PreJobOK): the pods it counts are selected ones whose        *)
(* eviction succeeded, none of them runs again whoever else evicts, and    *)
(* what is shown is at most their sum (ShownIsLess); the sum is a number   *)
(* because a fold over a finite set is (SumExists).  NoNeedlessEviction is *)
(* a fact about SelectPods (SelectionIsGood).                              *)
(*                                                                         *)
(* Load balancing.  MovesGoDown is a fact about the plans.  For the        *)
(* numbers of pods it needs that the node with the fewest is below the     *)
(* mean when another is above it (PodsOfNodes, FewestBelowSource).         *)
(* EndedIsEnded needs that a job with a final status has nothing left to   *)
(* do but leave (JobOK).                                                   *)
(*                                                                         *)
(* Autoscaling.  HPAWithinBounds needs that the recommendations in both    *)
(* histories are within the bounds too (HistoriesWithin): what is written  *)
(* is the largest of them, which exists because they are bounded           *)
(* (LargestExists).  DownNeverRaises needs that the recommendations to     *)
(* scale down that are still remembered, stale ones included, do not       *)
(* exceed the replicas asked for (DownsBelow): it is why a scale-up need   *)
(* not forget them.                                                        *)
(***************************************************************************)
EXTENDS Preemption, LoadBalancing, Autoscaling, FiniteSums, SequenceTheorems,
        FiniteSetTheorems, WellFoundedInduction, TLAPS

-----------------------------------------------------------------------------
(* Preemption: the operators. *)

\* Whole units are no more than what they are of.
LEMMA ShownIsLess ==
  ASSUME NEW t, NEW n \in Nat
  PROVE  Shown(t, n) \in Nat /\ Shown(t, n) <= n
<1>1. GiB \in Nat \ {0}
  BY PreemptionAssumption
<1> DEFINE d == n \div GiB
           r == n % GiB
<1>2. d \in Nat /\ r \in Nat /\ n = GiB * d + r
  BY <1>1
<1>3. \A i, k \in Nat : i * k \in Nat
  OBVIOUS
<1> HIDE DEF d, r
<1>4. d * GiB \in Nat /\ d * GiB = GiB * d
  BY <1>1, <1>2, <1>3
<1> DEFINE e == d * GiB
<1>5. e \in Nat /\ n = e + r
  BY <1>2, <1>4
<1>6. Shown(t, n) = IF t = "memory" /\ n >= GiB THEN e ELSE n
  BY DEF Shown, d
<1> HIDE DEF e
<1> QED
  BY <1>2, <1>5, <1>6

\* The amounts of some pods add up.
LEMMA SumOverIsNat ==
  ASSUME NEW q \in PreemptRequests, NEW S \in SUBSET Victims
  PROVE  SumOver(q.resource, S) \in Nat
<1> DEFINE t == q.resource
           a == [p \in S |-> CandidateAmount(t, p)]
           Step(g, s) == IF s = {} THEN 0 ELSE CandidateAmount(t, Some(s)) + g[s \ {Some(s)}]
           iter == CHOOSE g : g = [s \in SUBSET S |-> Step(g, s)]
<1>1. a \in [S -> Nat]
  <2> SUFFICES ASSUME NEW p \in S PROVE CandidateAmount(t, p) \in Nat
    OBVIOUS
  <2>1. t = "all" \/ VictimAmount[p][t] \in Nat
    BY PreemptionAssumption
  <2> QED
    BY <2>1, ShownIsLess DEF CandidateAmount
<1>2. IsFiniteSet(S)
  BY PreemptionAssumption, FS_Subset
<1>3. SumOver(t, S) = iter[S]
  BY DEF SumOver, MapThenSumSet, MapThenFoldSet, Some
<1> HIDE DEF t
<1>4. \A s \in SUBSET S : s # {} => Some(s) \in S /\ a[Some(s)] = CandidateAmount(t, Some(s))
  BY DEF Some
<1>5. \E g : g = [s \in SUBSET S |-> Step(g, s)]
  <2> HIDE DEF a
  <2>1. PICK g \in [SUBSET S -> Nat] : Sums(g, a, SUBSET S)
    BY <1>1, <1>2, SumExists
  <2>2. g = [s \in SUBSET S |-> Step(g, s)]
    BY <1>4, <2>1 DEF Sums
  <2> QED
    BY <2>2
<1>6. iter = [s \in SUBSET S |-> Step(iter, s)]
  <2> HIDE DEF Step
  <2> QED
    BY <1>5
<1> HIDE DEF iter, a
<1>7. Sums(iter, a, SUBSET S)
  BY <1>4, <1>6 DEF Sums
<1>8. iter[S] \in Nat
  BY <1>1, <1>2, <1>7, SumsAreNat
<1> QED
  BY <1>3, <1>8 DEF t

LEMMA TargetIsNat == \A q \in PreemptRequests : TargetAmount(q) \in Nat
BY PreemptionAssumption DEF TargetAmount

\* What has been selected from a sorted list of candidates.
GoodSelection(q, s, c) ==
  /\ Len(s) <= q.max
  /\ s # <<>> => SumOver(q.resource, ToSet(Front(s))) < TargetAmount(q)
  /\ \A p \in ToSet(c) \ ToSet(s) : \A v \in ToSet(s) : VictimScore[v] <= VictimScore[p]

LEMMA SelectionIsGood ==
  ASSUME NEW q \in PreemptRequests, NEW c \in Seq(Victims), SortedByScore(c)
  PROVE  /\ SelectPods(q, c) \in Seq(Victims)
         /\ ToSet(SelectPods(q, c)) \subseteq ToSet(c)
         /\ GoodSelection(q, SelectPods(q, c), c)
<1> DEFINE Fits(m) == \A i \in 1..m : /\ i <= q.max
                         /\ SumOver(q.resource, ToSet(SubSeq(c, 1, i - 1))) < TargetAmount(q)
           n == CHOOSE k \in 0..Len(c) : Fits(k) /\ \A m \in 0..Len(c) : Fits(m) => m <= k
           K == {k \in 0..Len(c) : Fits(k)}
           s == SubSeq(c, 1, n)
<1>0. Len(c) \in Nat /\ q.max \in Nat
  BY PreemptionAssumption
<1>1. SelectPods(q, c) = s
  BY DEF SelectPods
<1>2. n \in 0..Len(c) /\ Fits(n)
  <2>1. 0 \in K
    BY <1>0
  <2>2. K \subseteq 0..Len(c)
    OBVIOUS
  <2>3. \E k \in K : \A m \in K : m <= k
    <3>1. 0 \in Int /\ Len(c) \in Int /\ K # {}
      BY <1>0, <2>1
    <3> HIDE DEF K
    <3> QED
      BY <2>2, <3>1, LargestExists
  <2> HIDE DEF Fits
  <2>4. \E k \in 0..Len(c) : Fits(k) /\ \A m \in 0..Len(c) : Fits(m) => m <= k
    BY <2>3
  <2> QED
    BY <2>4
<1> HIDE DEF n
<1>3. /\ s \in Seq(Victims) /\ Len(s) = n /\ \A i \in 1..n : s[i] = c[i]
  <2>1. \A i \in 1..n : c[i] \in Victims
    BY <1>0, <1>2
  <2>2. n \in Int
    BY <1>2
  <2>3. /\ SubSeq(c, 1, n) \in Seq(Victims)
        /\ Len(SubSeq(c, 1, n)) = IF 1 <= n THEN n - 1 + 1 ELSE 0
        /\ \A i \in 1..n - 1 + 1 : SubSeq(c, 1, n)[i] = c[1 + i - 1]
    BY <2>1, <2>2, SubSeqProperties
  <2>4. 0 <= n /\ (IF 1 <= n THEN n - 1 + 1 ELSE 0) = n /\ n - 1 + 1 = n
    BY <1>2
  <2>5. \A i \in 1..n : c[1 + i - 1] = c[i]
    BY <2>2
  <2> QED
    BY <2>3, <2>4, <2>5
<1>4. ToSet(s) = {c[i] : i \in 1..n} /\ ToSet(c) = {c[i] : i \in 1..Len(c)}
  <2> HIDE DEF s
  <2>1. DOMAIN s = 1..n /\ DOMAIN c = 1..Len(c)
    BY <1>3
  <2> QED
    BY <1>3, <2>1 DEF ToSet
<1>5. ToSet(s) \subseteq ToSet(c)
  BY <1>2, <1>4
<1>6. Len(s) <= q.max
  BY <1>0, <1>2, <1>3
<1>7. ASSUME s # <<>> PROVE SumOver(q.resource, ToSet(Front(s))) < TargetAmount(q)
  <2>1. n \in 1..n
    BY <1>2, <1>3, <1>7
  <2>2. SumOver(q.resource, ToSet(SubSeq(c, 1, n - 1))) < TargetAmount(q)
    BY <1>2, <2>1
  <2>3. Front(s) = SubSeq(c, 1, n - 1)
    <3>1. Front(s) = SubSeq(s, 1, n - 1)
      BY <1>3 DEF Front
    <3>2. /\ SubSeq(c, 1, n - 1) \in Seq(Victims) /\ SubSeq(s, 1, n - 1) \in Seq(Victims)
          /\ Len(SubSeq(c, 1, n - 1)) = Len(SubSeq(s, 1, n - 1))
          /\ \A i \in 1..(n - 1) : SubSeq(c, 1, n - 1)[i] = SubSeq(s, 1, n - 1)[i]
          /\ Len(SubSeq(c, 1, n - 1)) = n - 1
      <4>1. \A i \in 1..(n - 1) : c[i] \in Victims /\ s[i] = c[i]
        BY <1>0, <1>2, <1>3
      <4>2. n - 1 \in Int
        BY <1>2
      <4> HIDE DEF s
      <4>3. /\ SubSeq(c, 1, n - 1) \in Seq(Victims)
            /\ Len(SubSeq(c, 1, n - 1)) = IF 1 <= n - 1 THEN n - 1 - 1 + 1 ELSE 0
            /\ \A i \in 1..n - 1 - 1 + 1 : SubSeq(c, 1, n - 1)[i] = c[1 + i - 1]
        BY <4>1, <4>2, SubSeqProperties
      <4>4. /\ SubSeq(s, 1, n - 1) \in Seq(Victims)
            /\ Len(SubSeq(s, 1, n - 1)) = IF 1 <= n - 1 THEN n - 1 - 1 + 1 ELSE 0
            /\ \A i \in 1..n - 1 - 1 + 1 : SubSeq(s, 1, n - 1)[i] = s[1 + i - 1]
        BY <4>1, <4>2, SubSeqProperties
      <4> QED
        BY <1>2, <2>1, <4>1, <4>3, <4>4
    <3>3. SubSeq(s, 1, n - 1) = SubSeq(c, 1, n - 1)
      <4> DEFINE x == SubSeq(s, 1, n - 1)
                 y == SubSeq(c, 1, n - 1)
      <4>1. /\ x \in Seq(Victims) /\ y \in Seq(Victims) /\ Len(x) = Len(y)
            /\ \A i \in 1..Len(x) : x[i] = y[i]
        BY <3>2
      <4> HIDE DEF x, y
      <4>2. x = y
        BY <4>1, SeqEqual
      <4> QED
        BY <4>2 DEF x, y
    <3> QED
      BY <3>1, <3>3
  <2> QED
    BY <2>2, <2>3
<1>8. ASSUME NEW p \in ToSet(c) \ ToSet(s), NEW v \in ToSet(s)
      PROVE  VictimScore[v] <= VictimScore[p]
  <2>1. PICK i \in 1..n : v = c[i]
    BY <1>4
  <2>2. PICK k \in 1..Len(c) : p = c[k]
    BY <1>4
  <2>3. k \notin 1..n
    BY <1>4, <2>2
  <2>4. i \in 1..Len(c) /\ i < k
    BY <1>0, <1>2, <2>3
  <2> QED
    BY <2>1, <2>2, <2>4 DEF SortedByScore
<1> HIDE DEF s
<1> QED
  BY <1>1, <1>3, <1>5, <1>6, <1>7, <1>8 DEF GoodSelection

-----------------------------------------------------------------------------
(* Preemption: the inductive invariant. *)

PreSteps == {"none", "analyze", "list", "select", "evict", "sum", "judge", "leave", "over"}
PreStatuses == {"Pending", "Analyzing", "Executing", "Completed", "Failed"}
Idlers == {"none", "over"}

\* The jobs that the gauge counts.
PreRunning == {j \in PreemptJobs : prePc[j] \notin Idlers}

PreTypes ==
  /\ victimState \in [Victims -> {"running", "leaving", "gone"}]
  /\ preAsked \in [PreemptJobs -> PreemptRequests]
  /\ prePc \in [PreemptJobs -> PreSteps] /\ preStatus \in [PreemptJobs -> PreStatuses]
  /\ preCandidates \in [PreemptJobs -> Seq(Victims)]
  /\ preSelected \in [PreemptJobs -> Seq(Victims)]
  /\ preTried \in [PreemptJobs -> Nat] /\ preFreed \in [PreemptJobs -> Nat]
  /\ preEvicted \in [PreemptJobs -> SUBSET Victims]
  /\ preAchieved \subseteq PreemptJobs

PreGauge == IsFiniteSet(PreRunning) /\ preActive = Cardinality(PreRunning)

\* The selection of one job and what became of it: nothing is evicted that was not selected,
\* nothing evicted runs again, and what was added up is no more than what was evicted
\* requested.
PreJobOK(j) ==
  LET q == preAsked[j] IN
  /\ SortedByScore(preCandidates[j])
  /\ GoodSelection(q, preSelected[j], preCandidates[j])
  /\ ToSet(preSelected[j]) \subseteq ToSet(preCandidates[j])
  /\ prePc[j] \in {"none", "analyze", "list", "select"} => preSelected[j] = <<>>
  /\ preTried[j] \in 0..Len(preSelected[j])
  /\ preEvicted[j] \subseteq ToSet(preSelected[j])
  /\ \A p \in preEvicted[j] : victimState[p] # "running"
  /\ prePc[j] = "judge" => preFreed[j] <= SumOver(q.resource, preEvicted[j])
  /\ j \in preAchieved => /\ prePc[j] \in {"leave", "over"}
                          /\ SumOver(q.resource, preEvicted[j]) >= TargetAmount(q)

PreInv == PreTypes /\ PreGauge /\ \A j \in PreemptJobs : PreJobOK(j)

LEMMA NothingSelected ==
  ASSUME NEW q \in PreemptRequests, NEW c
  PROVE  /\ GoodSelection(q, <<>>, c) /\ ToSet(<<>>) = {} /\ Len(<<>>) = 0
         /\ \A S : <<>> \in Seq(S)
<1>1. ToSet(<<>>) = {} /\ Len(<<>>) = 0
  BY DEF ToSet
<1>2. \A S : <<>> \in Seq(S)
  OBVIOUS
<1>3. q.max \in Nat
  BY PreemptionAssumption
<1> QED
  BY <1>1, <1>2, <1>3 DEF GoodSelection

LEMMA ToSetType == ASSUME NEW S, NEW s \in Seq(S) PROVE ToSet(s) \subseteq S
BY DEF ToSet

LEMMA PreInvTypes == PreInv => PreTypeOK
<1> SUFFICES ASSUME PreInv PROVE PreTypeOK
  OBVIOUS
<1>1. preActive \in Nat
  BY FS_CardinalityType DEF PreInv, PreGauge
<1>2. ASSUME NEW j \in PreemptJobs
      PROVE  /\ ToSet(preSelected[j]) \subseteq ToSet(preCandidates[j])
             /\ ToSet(preCandidates[j]) \subseteq Victims
             /\ preEvicted[j] \subseteq ToSet(preSelected[j])
             /\ preTried[j] \in 0..Len(preSelected[j])
             /\ preFreed[j] \in Nat
  BY ToSetType DEF PreInv, PreTypes, PreJobOK
<1> QED
  BY <1>1, <1>2 DEF PreInv, PreTypes, PreSteps, PreStatuses, PreTypeOK

LEMMA PreInvAchieved == PreInv => AchievedIsTrue
BY DEF PreInv, PreTypes, PreJobOK, AchievedIsTrue

LEMMA PreInvNeeded == PreInv => NoNeedlessEviction
BY DEF PreInv, PreJobOK, GoodSelection, NoNeedlessEviction

LEMMA PreInvInit == PreInit => PreInv
<1> SUFFICES ASSUME PreInit PROVE PreInv
  OBVIOUS
<1>1. PreRunning = {} /\ preActive = 0
  BY DEF PreInit, PreRunning, Idlers
<1>2. PreGauge
  BY <1>1, FS_EmptySet DEF PreGauge
<1>3. ASSUME NEW j \in PreemptJobs PROVE PreJobOK(j)
  <2>1. /\ preAsked[j] \in PreemptRequests /\ preCandidates[j] = <<>> /\ preSelected[j] = <<>>
        /\ prePc[j] = "none" /\ preTried[j] = 0 /\ preEvicted[j] = {} /\ j \notin preAchieved
    BY DEF PreInit
  <2>2. SortedByScore(<<>>)
    BY DEF SortedByScore
  <2> QED
    BY <2>1, <2>2, NothingSelected DEF PreJobOK
<1>4. <<>> \in Seq(Victims)
  OBVIOUS
<1> QED
  BY <1>2, <1>3, <1>4 DEF PreInit, PreInv, PreTypes, PreSteps, PreStatuses

\* What is left to show of a step of the job j.
LEMMA PreJobStep ==
  ASSUME PreInv, NEW j \in PreemptJobs, PreTypes', preAsked' = preAsked,
         \A k \in PreemptJobs \ {j} :
           /\ prePc'[k] = prePc[k] /\ preCandidates'[k] = preCandidates[k]
           /\ preSelected'[k] = preSelected[k] /\ preTried'[k] = preTried[k]
           /\ preEvicted'[k] = preEvicted[k] /\ preFreed'[k] = preFreed[k],
         \A p \in Victims : victimState[p] # "running" => victimState'[p] # "running",
         preAchieved' \subseteq preAchieved \cup {j},
         PreJobOK(j)',
         \/ prePc[j] \in Idlers /\ prePc'[j] \notin Idlers /\ preActive' = preActive + 1
         \/ prePc[j] \notin Idlers /\ prePc'[j] \in Idlers /\ preActive' = preActive - 1
         \/ (prePc[j] \in Idlers <=> prePc'[j] \in Idlers) /\ preActive' = preActive
  PROVE  PreInv'
<1>1. PreGauge'
  <2>1. IsFiniteSet(PreRunning) /\ preActive = Cardinality(PreRunning)
    BY DEF PreInv, PreGauge
  <2>2. \/ j \notin PreRunning /\ PreRunning' = PreRunning \cup {j} /\ preActive' = preActive + 1
        \/ j \in PreRunning /\ PreRunning' = PreRunning \ {j} /\ preActive' = preActive - 1
        \/ PreRunning' = PreRunning /\ preActive' = preActive
    BY DEF PreRunning
  <2>3. IsFiniteSet(PreRunning') /\ preActive' = Cardinality(PreRunning')
    <3> DEFINE A == PreRunning
               B == PreRunning'
    <3>1. /\ IsFiniteSet(A) /\ preActive = Cardinality(A)
          /\ \/ j \notin A /\ B = A \cup {j} /\ preActive' = preActive + 1
             \/ j \in A /\ B = A \ {j} /\ preActive' = preActive - 1
             \/ B = A /\ preActive' = preActive
      BY <2>1, <2>2
    <3> HIDE DEF A, B
    <3>2. IsFiniteSet(B) /\ preActive' = Cardinality(B)
      BY <3>1, FS_AddElement, FS_RemoveElement
    <3> QED
      BY <3>2 DEF B
  <2> QED
    BY <2>3 DEF PreGauge
<1>2. ASSUME NEW k \in PreemptJobs, k # j PROVE PreJobOK(k)'
  <2>1. PreJobOK(k) /\ preEvicted[k] \subseteq Victims
    BY DEF PreInv, PreTypes
  <2> QED
    BY <1>2, <2>1 DEF PreJobOK
<1> QED
  BY <1>1, <1>2 DEF PreInv

LEMMA PreInvParts ==
  ASSUME PreInv, NEW j \in PreemptJobs
  PROVE  /\ PreTypes /\ PreJobOK(j) /\ preAsked[j] \in PreemptRequests
         /\ preCandidates[j] \in Seq(Victims) /\ preSelected[j] \in Seq(Victims)
         /\ preEvicted[j] \subseteq Victims
BY DEF PreInv, PreTypes

\* The steps that neither select nor evict.
LEMMA PreMoves ==
  ASSUME PreInv, NEW j \in PreemptJobs,
         StartPreemption(j) \/ AnalyzeNodeState(j) \/ LeavePreemption(j)
  PROVE  PreInv'
<1> USE PreInvParts
<1>1. /\ UNCHANGED <<victimState, preAsked, preCandidates, preSelected, preResults>>
      /\ \/ prePc[j] = "none" /\ prePc' = [prePc EXCEPT ![j] = "analyze"] /\ preStatus' = preStatus
              /\ preActive' = preActive + 1
         \/ prePc[j] = "analyze" /\ preActive' = preActive
              /\ \/ /\ prePc' = [prePc EXCEPT ![j] = "list"]
                    /\ preStatus' = [preStatus EXCEPT ![j] = "Analyzing"]
                 \/ /\ prePc' = [prePc EXCEPT ![j] = "leave"]
                    /\ preStatus' = [preStatus EXCEPT ![j] = "Failed"]
         \/ prePc[j] = "leave" /\ prePc' = [prePc EXCEPT ![j] = "over"] /\ preStatus' = preStatus
              /\ preActive' = preActive - 1
  BY DEF StartPreemption, AnalyzeNodeState, LeavePreemption, PreGoto, SetPreStatus
<1>2. PreTypes'
  BY <1>1 DEF PreTypes, PreSteps, PreStatuses, preResults
<1>3. \A k \in PreemptJobs \ {j} : prePc'[k] = prePc[k]
  BY <1>1 DEF PreTypes
<1>4. PreJobOK(j)'
  <2>1. /\ prePc'[j] \in {"analyze", "list", "leave", "over"}
        /\ prePc'[j] \in {"analyze", "list"} => prePc[j] \in {"none", "analyze"}
        /\ prePc[j] \in {"leave", "over"} => prePc'[j] \in {"leave", "over"}
    BY <1>1 DEF PreTypes
  <2> QED
    BY <1>1, <2>1 DEF PreJobOK, preResults
<1>5. \/ prePc[j] \in Idlers /\ prePc'[j] \notin Idlers /\ preActive' = preActive + 1
      \/ prePc[j] \notin Idlers /\ prePc'[j] \in Idlers /\ preActive' = preActive - 1
      \/ (prePc[j] \in Idlers <=> prePc'[j] \in Idlers) /\ preActive' = preActive
  BY <1>1 DEF PreTypes, Idlers
<1> QED
  BY <1>1, <1>2, <1>3, <1>4, <1>5, PreJobStep DEF preResults

\* The candidates are some of the pods, each of them once, sorted.
LEMMA PreLists ==
  ASSUME PreInv, NEW j \in PreemptJobs, FindPreemptionCandidates(j)
  PROVE  PreInv'
<1> USE PreInvParts
<1>1. /\ prePc[j] = "list"
      /\ UNCHANGED <<victimState, preAsked, preSelected, preResults, preActive>>
  BY DEF FindPreemptionCandidates
<1>2. preSelected[j] = <<>>
  BY <1>1 DEF PreJobOK
<1>3. CASE prePc' = [prePc EXCEPT ![j] = "leave"] /\ preCandidates' = preCandidates
           /\ preStatus' = [preStatus EXCEPT ![j] = "Failed"]
  <2>1. PreTypes'
    BY <1>1, <1>3 DEF PreTypes, PreSteps, PreStatuses, preResults
  <2>2. prePc'[j] = "leave" /\ \A k \in PreemptJobs \ {j} : prePc'[k] = prePc[k]
    BY <1>3 DEF PreTypes
  <2>3. PreJobOK(j)'
    BY <1>1, <1>3, <2>2 DEF PreJobOK, preResults
  <2> QED
    BY <1>1, <1>3, <2>1, <2>2, <2>3, PreJobStep DEF preResults, Idlers
<1>4. ASSUME NEW S \in SUBSET Victims, NEW s \in SetToSeqs(S), SortedByScore(s),
             preCandidates' = [preCandidates EXCEPT ![j] = s],
             prePc' = [prePc EXCEPT ![j] = "select"], preStatus' = preStatus
      PROVE  PreInv'
  <2>1. s \in Seq(Victims)
    <3>1. IsFiniteSet(S) /\ Cardinality(S) \in Nat
      BY PreemptionAssumption, FS_Subset, FS_CardinalityType
    <3>2. s \in [1..Cardinality(S) -> Victims]
      BY DEF SetToSeqs
    <3> QED
      BY <3>1, <3>2, SeqDef
  <2>2. PreTypes'
    BY <1>1, <1>4, <2>1 DEF PreTypes, PreSteps, preResults
  <2>3. prePc'[j] = "select" /\ preCandidates'[j] = s
    BY <1>4 DEF PreTypes
  <2>4. \A k \in PreemptJobs \ {j} : prePc'[k] = prePc[k] /\ preCandidates'[k] = preCandidates[k]
    BY <1>4 DEF PreTypes
  <2>5. PreJobOK(j)'
    BY <1>1, <1>2, <1>4, <2>3, NothingSelected DEF PreJobOK, preResults
  <2> QED
    BY <1>1, <2>2, <2>3, <2>4, <2>5, PreJobStep DEF preResults, Idlers
<1> QED
  BY <1>3, <1>4 DEF FindPreemptionCandidates, PreGoto, SetPreStatus

LEMMA PreSelects ==
  ASSUME PreInv, NEW j \in PreemptJobs, SelectPodsToPreempt(j)
  PROVE  PreInv'
<1> USE PreInvParts
<1> DEFINE s == SelectPods(preAsked[j], preCandidates[j])
<1>1. /\ prePc[j] = "select" /\ preSelected' = [preSelected EXCEPT ![j] = s]
      /\ UNCHANGED <<victimState, preAsked, preCandidates, preResults, preActive>>
      /\ \/ /\ prePc' = [prePc EXCEPT ![j] = "leave"]
            /\ preStatus' = [preStatus EXCEPT ![j] = "Completed"]
         \/ /\ prePc' = [prePc EXCEPT ![j] = "evict"]
            /\ preStatus' = [preStatus EXCEPT ![j] = "Executing"]
  BY DEF SelectPodsToPreempt, PreGoto, SetPreStatus
<1>2. /\ s \in Seq(Victims) /\ ToSet(s) \subseteq ToSet(preCandidates[j])
      /\ GoodSelection(preAsked[j], s, preCandidates[j])
  BY SelectionIsGood DEF PreJobOK
<1> HIDE DEF s
<1>3. preSelected[j] = <<>> /\ preTried[j] = 0 /\ preEvicted[j] = {} /\ j \notin preAchieved
  <2>1. preSelected[j] = <<>>
    BY <1>1 DEF PreJobOK
  <2>2. preTried[j] \in 0..0 /\ preEvicted[j] \subseteq {}
    BY <2>1, NothingSelected DEF PreJobOK
  <2> QED
    BY <1>1, <2>1, <2>2 DEF PreJobOK
<1>4. PreTypes'
  BY <1>1, <1>2 DEF PreTypes, PreSteps, PreStatuses, preResults
<1>5. prePc'[j] \in {"leave", "evict"} /\ preSelected'[j] = s
  BY <1>1 DEF PreTypes
<1>6. \A k \in PreemptJobs \ {j} : prePc'[k] = prePc[k] /\ preSelected'[k] = preSelected[k]
  BY <1>1 DEF PreTypes
<1>7. PreJobOK(j)'
  <2>1. 0 \in 0..Len(s)
    BY <1>2
  <2> QED
    BY <1>1, <1>2, <1>3, <1>5, <2>1 DEF PreJobOK, preResults
<1> QED
  BY <1>1, <1>4, <1>5, <1>6, <1>7, PreJobStep DEF preResults, Idlers

\* An eviction that succeeded leaves its pod leaving, and no other step makes it run again.
LEMMA PreEvicts ==
  ASSUME PreInv, NEW j \in PreemptJobs, EvictNext(j)
  PROVE  PreInv'
<1> USE PreInvParts
<1>1. /\ prePc[j] = "evict"
      /\ UNCHANGED <<preAsked, preStatus, preCandidates, preSelected, preFreed, preAchieved,
                     preActive>>
  BY DEF EvictNext
<1>2. j \notin preAchieved
  BY <1>1 DEF PreJobOK
<1>3. CASE preTried[j] = Len(preSelected[j])
  <2>1. prePc' = [prePc EXCEPT ![j] = "sum"] /\ UNCHANGED <<victimState, preTried, preEvicted>>
    BY <1>3 DEF EvictNext, PreGoto
  <2>2. PreTypes'
    BY <1>1, <2>1 DEF PreTypes, PreSteps
  <2>3. prePc'[j] = "sum" /\ \A k \in PreemptJobs \ {j} : prePc'[k] = prePc[k]
    BY <2>1 DEF PreTypes
  <2>4. PreJobOK(j)'
    BY <1>1, <1>2, <2>1, <2>3 DEF PreJobOK
  <2> QED
    BY <1>1, <2>1, <2>2, <2>3, <2>4, PreJobStep DEF Idlers
<1>4. CASE preTried[j] # Len(preSelected[j])
  <2> DEFINE p == preSelected[j][preTried[j] + 1]
  <2>1. /\ preTried' = [preTried EXCEPT ![j] = preTried[j] + 1] /\ prePc' = prePc
        /\ \/ UNCHANGED <<victimState, preEvicted>>
           \/ /\ victimState' = [victimState EXCEPT ![p] = "leaving"]
              /\ preEvicted' = [preEvicted EXCEPT ![j] = preEvicted[j] \cup {p}]
           \/ /\ victimState' = [victimState EXCEPT ![p] = "leaving"]
              /\ UNCHANGED preEvicted
    BY <1>4 DEF EvictNext
  <2>2. /\ preTried[j] + 1 \in 0..Len(preSelected[j])
        /\ p \in ToSet(preSelected[j]) /\ p \in Victims
    <3>1. preTried[j] \in 0..Len(preSelected[j]) /\ Len(preSelected[j]) \in Nat
      BY DEF PreJobOK
    <3>2. preTried[j] + 1 \in 1..Len(preSelected[j]) /\ preTried[j] + 1 \in DOMAIN preSelected[j]
      BY <1>4, <3>1
    <3>3. p \in ToSet(preSelected[j])
      BY <3>2 DEF ToSet
    <3> QED
      BY <3>1, <3>2, <3>3, ToSetType
  <2> HIDE DEF p
  <2>3. PreTypes'
    <3>1. preTried[j] + 1 \in Nat
      BY <2>2
    <3>2. preTried' \in [PreemptJobs -> Nat]
      BY <2>1, <3>1 DEF PreTypes
    <3>3. preEvicted' \in [PreemptJobs -> SUBSET Victims]
      <4>1. /\ preEvicted \in [PreemptJobs -> SUBSET Victims]
            /\ preEvicted[j] \cup {p} \in SUBSET Victims
        BY <2>2 DEF PreTypes
      <4> QED
        BY <2>1, <4>1
    <3>4. victimState' \in [Victims -> {"running", "leaving", "gone"}]
      BY <2>1, <2>2 DEF PreTypes
    <3> QED
      BY <1>1, <2>1, <3>2, <3>3, <3>4 DEF PreTypes
  <2>4. /\ \A k \in PreemptJobs \ {j} : preTried'[k] = preTried[k] /\ preEvicted'[k] = preEvicted[k]
        /\ preTried'[j] = preTried[j] + 1
        /\ \/ preEvicted'[j] = preEvicted[j]
           \/ preEvicted'[j] = preEvicted[j] \cup {p} /\ victimState'[p] = "leaving"
        /\ \A v \in Victims : victimState[v] # "running" => victimState'[v] # "running"
    BY <2>1, <2>2 DEF PreTypes
  <2>5. PreJobOK(j)'
    <3>1. \A v \in preEvicted'[j] : victimState'[v] # "running"
      BY <2>4 DEF PreJobOK
    <3> QED
      BY <1>1, <1>2, <2>1, <2>2, <2>4, <3>1 DEF PreJobOK
  <2> QED
    BY <1>1, <2>1, <2>3, <2>4, <2>5, PreJobStep
<1> QED
  BY <1>3, <1>4

\* What was freed is what the evicted pods requested, in whole units: no more than that.
LEMMA PreSums ==
  ASSUME PreInv, NEW j \in PreemptJobs, SumFreed(j)
  PROVE  PreInv'
<1> USE PreInvParts
<1> DEFINE t == preAsked[j].resource
           sum == SumOver(t, preEvicted[j])
           shown == Shown(t, sum)
<1>1. /\ prePc[j] = "sum" /\ preFreed' = [preFreed EXCEPT ![j] = shown]
      /\ prePc' = [prePc EXCEPT ![j] = "judge"]
      /\ UNCHANGED <<victimState, preAsked, preStatus, preCandidates, preSelected, preTried,
                     preEvicted, preAchieved, preActive>>
  BY DEF SumFreed, PreGoto
<1>2. shown \in Nat /\ shown <= sum
  BY SumOverIsNat, ShownIsLess
<1> HIDE DEF shown
<1>3. PreTypes'
  BY <1>1, <1>2 DEF PreTypes, PreSteps
<1>4. /\ prePc'[j] = "judge" /\ preFreed'[j] = shown
      /\ \A k \in PreemptJobs \ {j} : prePc'[k] = prePc[k] /\ preFreed'[k] = preFreed[k]
  BY <1>1 DEF PreTypes
<1>5. PreJobOK(j)'
  BY <1>1, <1>2, <1>4 DEF PreJobOK
<1> QED
  BY <1>1, <1>3, <1>4, <1>5, PreJobStep DEF Idlers

LEMMA PreJudges ==
  ASSUME PreInv, NEW j \in PreemptJobs, CheckTargetAchieved(j)
  PROVE  PreInv'
<1> USE PreInvParts
<1> DEFINE q == preAsked[j]
           sum == SumOver(q.resource, preEvicted[j])
<1>1. /\ prePc[j] = "judge" /\ preStatus' = [preStatus EXCEPT ![j] = "Completed"]
      /\ prePc' = [prePc EXCEPT ![j] = "leave"]
      /\ preAchieved' = IF preFreed[j] >= TargetAmount(q) THEN preAchieved \cup {j} ELSE preAchieved
      /\ UNCHANGED <<victimState, preAsked, preCandidates, preSelected, preTried, preEvicted,
                     preFreed, preActive>>
  BY DEF CheckTargetAchieved, PreGoto, SetPreStatus
<1>2. sum \in Nat /\ TargetAmount(q) \in Nat /\ preFreed[j] \in Nat /\ preFreed[j] <= sum
  BY <1>1, SumOverIsNat, TargetIsNat DEF PreJobOK, PreTypes
<1>3. j \in preAchieved' => sum >= TargetAmount(q)
  <2> HIDE DEF sum
  <2>1. j \notin preAchieved
    BY <1>1 DEF PreJobOK
  <2> QED
    BY <1>1, <1>2, <2>1
<1>4. PreTypes'
  BY <1>1 DEF PreTypes, PreSteps, PreStatuses
<1>5. prePc'[j] = "leave" /\ \A k \in PreemptJobs \ {j} : prePc'[k] = prePc[k]
  BY <1>1 DEF PreTypes
<1>6. PreJobOK(j)'
  BY <1>1, <1>3, <1>5 DEF PreJobOK
<1> QED
  BY <1>1, <1>4, <1>5, <1>6, PreJobStep DEF Idlers

\* A pod that has left has not begun to run.
LEMMA PreOutside ==
  ASSUME PreInv, (\E p \in Victims : VictimGone(p)) \/ UNCHANGED preVars
  PROVE  PreInv'
<1>1. /\ UNCHANGED <<preAsked, prePc, preStatus, preCandidates, preSelected, preResults, preActive>>
      /\ victimState' \in [Victims -> {"running", "leaving", "gone"}]
      /\ \A v \in Victims : victimState[v] # "running" => victimState'[v] # "running"
  BY DEF VictimGone, preVars, preResults, PreInv, PreTypes
<1>2. PreTypes'
  BY <1>1 DEF PreInv, PreTypes, preResults
<1>3. PreGauge'
  BY <1>1 DEF PreInv, PreGauge, PreRunning
<1>4. ASSUME NEW j \in PreemptJobs PROVE PreJobOK(j)'
  <2>1. preEvicted[j] \subseteq Victims /\ PreJobOK(j)
    BY DEF PreInv, PreTypes
  <2> QED
    BY <1>1, <2>1 DEF PreJobOK, preResults
<1> QED
  BY <1>2, <1>3, <1>4 DEF PreInv

LEMMA PreInvNext == PreInv /\ [PreNext]_preVars => PreInv'
<1> SUFFICES ASSUME PreInv, [PreNext]_preVars PROVE PreInv'
  OBVIOUS
<1> QED
  BY PreMoves, PreLists, PreSelects, PreEvicts, PreSums, PreJudges, PreOutside
  DEF PreNext, RunPreemption

LEMMA PreInvAlways == PreSpec => []PreInv
BY PreInvInit, PreInvNext, PTL DEF PreSpec

\* The state of every preemption has its type, and the gauge is the number of the jobs
\* between runPreemption's start and its deferred end.
THEOREM PreemptionTypeCorrect == PreSpec => []PreTypeOK
BY PreInvAlways, PreInvTypes, PTL

\* checkTargetAchieved (preemption.go:606) tells the truth: the pods evicted by a job that
\* reports its target achieved have left or are leaving and requested at least that much.
THEOREM PreemptionAchievedIsTrue == PreSpec => []AchievedIsTrue
BY PreInvAlways, PreInvAchieved, PTL

\* selectPodsToPreempt (preemption.go:480) selects no pod needlessly, for every list of
\* pods, every score and every amount.
THEOREM PreemptionOnlyNeeded == PreSpec => []NoNeedlessEviction
BY PreInvAlways, PreInvNeeded, PTL

-----------------------------------------------------------------------------
(* Load balancing: the operators. *)

\* The image of a finite set is no larger than it.
LEMMA ImageIsSmaller ==
  ASSUME NEW S, IsFiniteSet(S), NEW T, NEW f \in [S -> T], T = {f[x] : x \in S}
  PROVE  IsFiniteSet(T) /\ Cardinality(T) <= Cardinality(S)
<1>1. f \in Surjection(S, T)
  BY DEF Surjection
<1> QED
  BY <1>1, FS_Surjection

\* Of a list that is cut after k no more than k are left.
LEMMA HighestOfSet ==
  ASSUME NEW S, IsFiniteSet(S), NEW f, NEW k \in Nat, NEW T \in Highest(S, f, k)
  PROVE  T \subseteq S /\ IsFiniteSet(T) /\ Cardinality(T) <= k
<1>1. T \subseteq S /\ IsFiniteSet(T)
  BY FS_Subset DEF Highest
<1>2. Cardinality(S) \in Nat
  BY FS_CardinalityType
<1> QED
  BY <1>1, <1>2 DEF Highest

\* If on each node of D run at least k of the pods, then on D run k for each node.
LEMMA PodsOfNodes ==
  ASSUME NEW Q \in SUBSET LbPods, NEW D0 \in SUBSET LbNodes, NEW k \in Nat,
         \A n \in D0 : Cardinality({p \in Q : podNode[p] = n}) >= k
  PROVE  Cardinality({p \in Q : podNode[p] \in D0}) >= k * Cardinality(D0)
<1> DEFINE On(D) == {p \in Q : podNode[p] \in D}
           P(m) == \A D \in SUBSET D0 : Cardinality(D) = m => Cardinality(On(D)) >= k * m
           B == {m \in Nat : ~P(m)}
<1>1. IsFiniteSet(Q) /\ IsFiniteSet(D0)
  BY LoadBalancingAssumption, FS_Subset
<1>2. \A D \in SUBSET D0 : IsFiniteSet(D) /\ Cardinality(D) \in Nat
  BY <1>1, FS_Subset, FS_CardinalityType
<1>3. \A D \in SUBSET D0 : IsFiniteSet(On(D)) /\ Cardinality(On(D)) \in Nat
  BY <1>1, FS_Subset, FS_CardinalityType
<1>4. B = {}
  <2> SUFFICES ASSUME B # {} PROVE FALSE
    OBVIOUS
  <2>1. PICK m \in B : \A i \in B : ~(<<i, m>> \in OpToRel(<, Nat))
    <3>1. B \subseteq Nat
      OBVIOUS
    <3> HIDE DEF B
    <3> QED
      BY <3>1, NatLessThanWellFounded, WFMin
  <2>2. m \in Nat /\ ~P(m)
    OBVIOUS
  <2>3. \A i \in Nat : i < m => P(i)
    BY <2>1 DEF OpToRel
  <2>4. PICK D \in SUBSET D0 : Cardinality(D) = m /\ ~(Cardinality(On(D)) >= k * m)
    BY <2>2
  <2>5. CASE m = 0
    <3>1. Cardinality(On(D)) \in Nat
      BY <1>3, <2>4
    <3>2. k * m = 0
      BY <2>5
    <3> HIDE DEF On
    <3> QED
      BY <2>4, <3>1, <3>2
  <2>6. CASE m > 0
    <3>1. PICK n \in D : TRUE
      BY <1>2, <2>4, <2>6, FS_EmptySet
    <3>2. D \ {n} \in SUBSET D0 /\ Cardinality(D \ {n}) = m - 1
      BY <1>2, <2>4, <3>1, FS_RemoveElement
    <3>3. m - 1 \in Nat /\ m - 1 < m
      BY <2>2, <2>6
    <3>4. Cardinality(On(D \ {n})) >= k * (m - 1)
      <4>1. P(m - 1)
        <5> HIDE DEF P
        <5> QED
          BY <2>3, <3>3
      <4> QED
        BY <3>2, <4>1
    <3> DEFINE One == {p \in Q : podNode[p] = n}
    <3>5. IsFiniteSet(One) /\ Cardinality(One) \in Nat /\ Cardinality(One) >= k
      BY <1>1, <3>1, FS_Subset, FS_CardinalityType
    <3>6. On(D) = On(D \ {n}) \cup One /\ On(D \ {n}) \cap One = {}
      BY <3>1
    <3>7. Cardinality(On(D)) = Cardinality(On(D \ {n})) + Cardinality(One)
      <4>1. IsFiniteSet(On(D \ {n}))
        BY <1>3
      <4> HIDE DEF On, One
      <4> QED
        <5>1. Cardinality(On(D \ {n}) \cap One) = 0
          BY <3>6, FS_EmptySet
        <5>2. Cardinality(On(D)) = Cardinality(On(D \ {n})) + Cardinality(One)
                                   - Cardinality(On(D \ {n}) \cap One)
          BY <3>5, <3>6, <4>1, FS_Union
        <5> QED
          BY <3>5, <4>1, <5>1, <5>2, FS_CardinalityType
    <3>8. k * m = k * (m - 1) + k
      BY <2>2
    <3>9. k * (m - 1) \in Nat /\ Cardinality(On(D \ {n})) \in Nat
      <4>1. Cardinality(On(D \ {n})) \in Nat
        BY <1>3, <3>2
      <4>2. \A i \in Nat : k * i \in Nat
        OBVIOUS
      <4> HIDE DEF On
      <4> QED
        BY <3>3, <4>1, <4>2
    <3> HIDE DEF On, One
    <3> QED
      BY <2>4, <3>4, <3>5, <3>7, <3>8, <3>9
  <2> QED
    BY <2>2, <2>5, <2>6
<1>5. Cardinality(D0) \in Nat /\ P(Cardinality(D0))
  BY <1>2, <1>4
<1> QED
  BY <1>5

Moves == [pod : LbPods, from : LbNodes, to : LbNodes]

\* What a plan that is made of the loads or counts seen must be.
GoodPlan(P, seen, max) ==
  /\ P \subseteq Moves /\ IsFiniteSet(P) /\ Cardinality(P) <= max
  /\ \A m \in P : seen[m.to] < seen[m.from]

LEMMA EmptyPlan ==
  ASSUME NEW seen, NEW max \in Nat
  PROVE  GoodPlan({}, seen, max)
BY FS_EmptySet DEF GoodPlan

\* A source has more pods than the mean of the nodes.
LEMMA SourceAboveMean ==
  ASSUME NEW q, NEW seen, NEW n, NEW total \in Nat, IsSource(n, q, seen, total),
         seen[n] \in Nat, Cardinality(DOMAIN seen) \in Nat \ {0}
  PROVE  seen[n] * Cardinality(DOMAIN seen) > total
<1> DEFINE c == Cardinality(DOMAIN seen)
           half == (total + 2 * c - 1) \div (2 * c)
           threshold == IF q.scoped \/ half < 1 THEN 1 ELSE half
<1>1. seen[n] * c > total + c * (threshold - 1)
  BY DEF IsSource
<1>2. c \in Nat \ {0} /\ 2 * c \in Nat \ {0} /\ total + 2 * c - 1 \in Int
  OBVIOUS
<1>3. half \in Int
  BY <1>2
<1> HIDE DEF half, c
<1>4. threshold \in Int /\ threshold >= 1
  BY <1>3
<1> HIDE DEF threshold
<1>5. c * (threshold - 1) >= 0 /\ c * (threshold - 1) \in Int
  <2> DEFINE d == threshold - 1
  <2>1. d \in Nat
    BY <1>4
  <2>2. \A i, k \in Nat : i * k \in Nat
    OBVIOUS
  <2> HIDE DEF d
  <2>3. c * d \in Nat
    BY <1>2, <2>1, <2>2
  <2> QED
    BY <2>3 DEF d
<1>6. seen[n] * c \in Int
  BY <1>2
<1> HIDE DEF c
<1> QED
  BY <1>1, <1>5, <1>6 DEF c

\* calculatePodCountPlan: the node with the fewest pods is below that mean, and so below the
\* source.
LEMMA FewestBelowSource ==
  ASSUME podNode \in [LbPods -> LbNodes], NEW q \in LbRequests, NEW D \in SUBSET LbNodes,
         NEW seen, seen = [n \in D |-> Cardinality(PodsOn(n, q))],
         NEW n \in D, NEW t \in FewestPods(n, seen),
         IsSource(n, q, seen, Cardinality({p \in InScope(q) : podNode[p] \in D}))
  PROVE  t \in D /\ seen[t] < seen[n]
<1> DEFINE Q == InScope(q)
           total == Cardinality({p \in Q : podNode[p] \in D})
<1>1. Q \in SUBSET LbPods /\ IsFiniteSet(Q) /\ IsFiniteSet(D)
  BY LoadBalancingAssumption, FS_Subset DEF InScope
<1>2. DOMAIN seen = D /\ \A u \in D : seen[u] = Cardinality({p \in Q : podNode[p] = u})
  BY DEF PodsOn
<1>3. total \in Nat /\ Cardinality(D) \in Nat \ {0} /\ \A u \in D : seen[u] \in Nat
  <2>1. /\ IsFiniteSet({p \in Q : podNode[p] \in D})
        /\ \A u \in D : IsFiniteSet({p \in Q : podNode[p] = u})
    BY <1>1, FS_Subset
  <2> QED
    BY <1>1, <1>2, <2>1, FS_CardinalityType, FS_EmptySet
<1>4. t \in D /\ \A u \in D \ {n} : seen[t] <= seen[u]
  BY <1>2 DEF FewestPods
<1>5. seen[n] * Cardinality(D) > total
  BY <1>2, <1>3, SourceAboveMean
<1>6. SUFFICES ASSUME ~(seen[t] < seen[n]) PROVE FALSE
  BY <1>4
<1>7. \A u \in D : seen[u] >= seen[n]
  BY <1>3, <1>4, <1>6
<1>8. total >= seen[n] * Cardinality(D)
  <2>1. \A u \in D : Cardinality({p \in Q : podNode[p] = u}) >= seen[n]
    BY <1>2, <1>7
  <2> HIDE DEF Q
  <2> QED
    BY <1>1, <1>3, <2>1, PodsOfNodes
<1>9. seen[n] * Cardinality(D) \in Nat
  <2>1. \A i, k \in Nat : i * k \in Nat
    OBVIOUS
  <2> QED
    BY <1>3, <2>1
<1> HIDE DEF total
<1> QED
  BY <1>3, <1>5, <1>8, <1>9

LEMMA PodCountGood ==
  ASSUME podNode \in [LbPods -> LbNodes], NEW q \in LbRequests, NEW D \in SUBSET LbNodes,
         NEW seen, seen = [n \in D |-> Cardinality(PodsOn(n, q))],
         NEW P \in PodCountPlans(q, seen)
  PROVE  GoodPlan(P, seen, q.max)
<1> DEFINE total == Cardinality({p \in InScope(q) : podNode[p] \in DOMAIN seen})
           movable(n) == PodsOn(n, q) \ ControlPods
           sources == {n \in DOMAIN seen : IsSource(n, q, seen, total) /\ movable(n) # {}}
<1>0. q.max \in Nat /\ DOMAIN seen = D
  BY LoadBalancingAssumption
<1>1. CASE P = {}
  BY <1>0, <1>1, EmptyPlan
<1>2. CASE P # {}
  <2> DEFINE Big == UNION {{{[pod |-> pick[n], from |-> n, to |-> goal[n]] : n \in T} :
                    pick \in {f \in [T -> LbPods] : \A n \in T : f[n] \in movable(n)},
                    goal \in {g \in [T -> LbNodes] : \A n \in T : g[n] \in FewestPods(n, seen)}} :
                 T \in Highest(sources, seen, q.max)}
  <2>0. PodCountPlans(q, seen) =
          IF Cardinality(DOMAIN seen) < 2 \/ total = 0 THEN {{}} ELSE Big
    BY DEF PodCountPlans
  <2>1. P \in Big
    <3> HIDE DEF Big
    <3> QED
      BY <1>2, <2>0
  <2>t. PICK T \in Highest(sources, seen, q.max) :
          \E pick \in [T -> LbPods], goal \in [T -> LbNodes] :
            /\ \A n \in T : goal[n] \in FewestPods(n, seen)
            /\ P = {[pod |-> pick[n], from |-> n, to |-> goal[n]] : n \in T}
    <3> HIDE DEF sources
    <3> QED
      BY <2>1
  <2>2. PICK pick \in [T -> LbPods], goal \in [T -> LbNodes] :
          /\ \A n \in T : goal[n] \in FewestPods(n, seen)
          /\ P = {[pod |-> pick[n], from |-> n, to |-> goal[n]] : n \in T}
    BY <2>t
  <2>3. sources \subseteq D /\ IsFiniteSet(sources)
    BY <1>0, LoadBalancingAssumption, FS_Subset
  <2>4. T \subseteq sources /\ IsFiniteSet(T) /\ Cardinality(T) <= q.max
    <3> HIDE DEF sources
    <3> QED
      BY <1>0, <2>3, HighestOfSet
  <2> DEFINE f == [n \in T |-> [pod |-> pick[n], from |-> n, to |-> goal[n]]]
  <2>5. f \in [T -> P] /\ P = {f[n] : n \in T}
    BY <2>2
  <2>6. IsFiniteSet(P) /\ Cardinality(P) <= q.max
    <3>1. IsFiniteSet(P) /\ Cardinality(P) <= Cardinality(T)
      <4> HIDE DEF f
      <4> QED
        BY <2>4, <2>5, ImageIsSmaller
    <3> QED
      BY <1>0, <2>4, <3>1, FS_CardinalityType
  <2>7. P \subseteq Moves
    <3>1. \A n \in T : n \in LbNodes /\ pick[n] \in LbPods /\ goal[n] \in LbNodes
      BY <2>2, <2>3, <2>4
    <3> QED
      BY <2>2, <3>1 DEF Moves
  <2>8. ASSUME NEW m \in P PROVE seen[m.to] < seen[m.from]
    <3>1. PICK n \in T : m = [pod |-> pick[n], from |-> n, to |-> goal[n]]
      BY <2>2
    <3>2. m.from = n /\ m.to = goal[n] /\ goal[n] \in FewestPods(n, seen)
      BY <2>2, <3>1
    <3>3. n \in D /\ IsSource(n, q, seen, Cardinality({p \in InScope(q) : podNode[p] \in D}))
      BY <1>0, <2>4
    <3> QED
      BY <3>2, <3>3, FewestBelowSource
  <2> QED
    BY <2>6, <2>7, <2>8 DEF GoodPlan
<1> QED
  BY <1>1, <1>2

LEMMA LoadGood ==
  ASSUME podNode \in [LbPods -> LbNodes], NEW q \in LbRequests, NEW D \in SUBSET LbNodes,
         NEW seen \in [D -> Nat], NEW P \in LoadPlans(q, seen)
  PROVE  GoodPlan(P, seen, q.max)
<1> DEFINE over == {n \in DOMAIN seen : seen[n] > OverLoad}
           under == {n \in DOMAIN seen : seen[n] <= OverLoad /\ seen[n] < UnderLoad}
           pods == {p \in InScope(q) : podNode[p] \in over}
           load == [p \in pods |-> seen[podNode[p]]]
<1>0. q.max \in Nat /\ DOMAIN seen = D /\ OverLoad \in Nat
  BY LoadBalancingAssumption
<1>1. CASE P = {}
  BY <1>0, <1>1, EmptyPlan
<1>2. CASE P # {}
  <2> DEFINE Big == {{[pod |-> p, from |-> podNode[p], to |-> t] : p \in S} :
             S \in Highest(pods, load, q.max),
             t \in UNION Highest(under, seen, 1)}
  <2>0. LoadPlans(q, seen) = IF over = {} \/ under = {} THEN {{}} ELSE Big
    BY DEF LoadPlans
  <2>1. P \in Big
    <3> HIDE DEF Big
    <3> QED
      BY <1>2, <2>0
  <2>2. PICK S \in Highest(pods, load, q.max), t \in UNION Highest(under, seen, 1) :
          P = {[pod |-> p, from |-> podNode[p], to |-> t] : p \in S}
    <3> HIDE DEF pods, load, under
    <3> QED
      BY <2>1
  <2>3. pods \subseteq LbPods /\ IsFiniteSet(pods)
    <3>1. pods \subseteq LbPods
      BY LoadBalancingAssumption DEF InScope
    <3> QED
      BY <3>1, LoadBalancingAssumption, FS_Subset
  <2>4. S \subseteq pods /\ IsFiniteSet(S) /\ Cardinality(S) <= q.max
    <3> HIDE DEF pods, load
    <3> QED
      BY <1>0, <2>3, HighestOfSet
  <2>5. t \in under
    BY DEF Highest
  <2> DEFINE f == [p \in S |-> [pod |-> p, from |-> podNode[p], to |-> t]]
  <2>6. f \in [S -> P] /\ P = {f[p] : p \in S}
    BY <2>2
  <2>7. IsFiniteSet(P) /\ Cardinality(P) <= q.max
    <3>1. IsFiniteSet(P) /\ Cardinality(P) <= Cardinality(S)
      <4> HIDE DEF f
      <4> QED
        BY <2>4, <2>6, ImageIsSmaller
    <3> QED
      BY <1>0, <2>4, <3>1, FS_CardinalityType
  <2>8. \A p \in S : p \in LbPods /\ podNode[p] \in over
    BY <2>3, <2>4
  <2>9. P \subseteq Moves
    BY <1>0, <2>2, <2>5, <2>8 DEF Moves
  <2>10. ASSUME NEW m \in P PROVE seen[m.to] < seen[m.from]
    <3>1. PICK p \in S : m = [pod |-> p, from |-> podNode[p], to |-> t]
      BY <2>2
    <3>2. m.from \in over /\ m.to \in under
      BY <2>5, <2>8, <3>1
    <3> QED
      BY <1>0, <3>2
  <2> QED
    BY <2>7, <2>9, <2>10 DEF GoodPlan
<1> QED
  BY <1>1, <1>2

-----------------------------------------------------------------------------
(* Load balancing: the inductive invariant. *)

Steps == {"none", "analyze", "plan", "execute", "end", "wait", "leave", "over"}
Statuses == {"Pending", "Analyzing", "Executing"} \cup LbTerminal

\* The jobs that the gauge counts.
LbRunning == {j \in LbJobs : lbPc[j] \notin {"none", "over"}}

\* What is true of one job: a plan is there only while it is executed, was made of what the
\* cycle saw, and a job with a final status has nothing left to do but leave.
JobOK(j) ==
  /\ DOMAIN lbSeen[j] \subseteq LbNodes
  /\ lbPc[j] = "plan" => \E D \in SUBSET LbNodes : lbSeen[j] \in [D -> Nat]
  /\ lbPc[j] # "execute" => lbPlan[j] = {}
  /\ GoodPlan(lbPlan[j], lbSeen[j], lbAsked[j].max)
  /\ lbStatus[j] \in LbTerminal => lbPc[j] \in {"leave", "over"}

JobTypes ==
  /\ lbAsked \in [LbJobs -> LbRequests]
  /\ lbPc \in [LbJobs -> Steps] /\ lbStatus \in [LbJobs -> Statuses]
  /\ lbSeen = [j \in LbJobs |-> lbSeen[j]] /\ lbPlan = [j \in LbJobs |-> lbPlan[j]]
  /\ lbCancelled \subseteq LbJobs

ClusterTypes ==
  /\ podNode \in [LbPods -> LbNodes]
  /\ moving \subseteq [pod : LbPods, to : LbNodes]

GaugeCounts == IsFiniteSet(LbRunning) /\ lbActive = Cardinality(LbRunning)

LbInv == ClusterTypes /\ JobTypes /\ GaugeCounts /\ \A j \in LbJobs : JobOK(j)

LEMMA LbInvTypes == LbInv => LbTypeOK
<1> SUFFICES ASSUME LbInv PROVE LbTypeOK
  OBVIOUS
<1>1. lbActive \in Nat
  BY FS_CardinalityType DEF LbInv, GaugeCounts
<1>2. \A j \in LbJobs : /\ lbPlan[j] \subseteq [pod : LbPods, from : LbNodes, to : LbNodes]
                        /\ DOMAIN lbSeen[j] \subseteq LbNodes
  BY DEF LbInv, JobOK, GoodPlan, Moves
<1> QED
  BY <1>1, <1>2 DEF LbInv, ClusterTypes, JobTypes, Steps, Statuses, LbTypeOK

LEMMA LbInvDown == LbInv => MovesGoDown
BY DEF LbInv, JobOK, GoodPlan, MovesGoDown

LEMMA LbInvInit == LbInit => LbInv
<1> SUFFICES ASSUME LbInit PROVE LbInv
  OBVIOUS
<1>1. LbRunning = {} /\ lbActive = 0
  BY DEF LbInit, LbRunning
<1>2. GaugeCounts
  BY <1>1, FS_EmptySet DEF GaugeCounts
<1>3. ASSUME NEW j \in LbJobs PROVE JobOK(j)
  <2>1. lbAsked[j].max \in Nat /\ lbPlan[j] = {} /\ lbSeen[j] = <<>> /\ DOMAIN lbSeen[j] = {}
        /\ lbPc[j] = "none" /\ lbStatus[j] = "Pending"
    BY LoadBalancingAssumption DEF LbInit
  <2> QED
    BY <2>1, EmptyPlan DEF JobOK, LbTerminal
<1> QED
  BY <1>2, <1>3 DEF LbInit, LbInv, ClusterTypes, JobTypes, Steps, Statuses

\* A step of one job leaves the others as they are.
LEMMA OthersKeep ==
  ASSUME LbInv, NEW j \in LbJobs, JobOK(j)', JobTypes', lbAsked' = lbAsked,
         \A k \in LbJobs \ {j} : /\ lbPc'[k] = lbPc[k] /\ lbStatus'[k] = lbStatus[k]
                                 /\ lbSeen'[k] = lbSeen[k] /\ lbPlan'[k] = lbPlan[k]
  PROVE  \A k \in LbJobs : JobOK(k)'
<1> SUFFICES ASSUME NEW k \in LbJobs, k # j PROVE JobOK(k)'
  OBVIOUS
<1> QED
  BY DEF LbInv, JobOK

\* What is left to show of a step of the job j that changes its own entries only.
LEMMA JobStep ==
  ASSUME LbInv, NEW j \in LbJobs, JobTypes', ClusterTypes', lbAsked' = lbAsked,
         \A k \in LbJobs \ {j} : /\ lbPc'[k] = lbPc[k] /\ lbStatus'[k] = lbStatus[k]
                                 /\ lbSeen'[k] = lbSeen[k] /\ lbPlan'[k] = lbPlan[k],
         JobOK(j)',
         \/ /\ lbPc[j] \in {"none", "over"} /\ lbPc'[j] \notin {"none", "over"}
            /\ lbActive' = lbActive + 1
         \/ /\ lbPc[j] \notin {"none", "over"} /\ lbPc'[j] \in {"none", "over"}
            /\ lbActive' = lbActive - 1
         \/ (lbPc[j] \in {"none", "over"} <=> lbPc'[j] \in {"none", "over"}) /\ lbActive' = lbActive
  PROVE  LbInv'
<1>1. GaugeCounts'
  <2>1. IsFiniteSet(LbRunning) /\ lbActive = Cardinality(LbRunning)
    BY DEF LbInv, GaugeCounts
  <2>2. \/ j \notin LbRunning /\ LbRunning' = LbRunning \cup {j} /\ lbActive' = lbActive + 1
        \/ j \in LbRunning /\ LbRunning' = LbRunning \ {j} /\ lbActive' = lbActive - 1
        \/ LbRunning' = LbRunning /\ lbActive' = lbActive
    BY DEF LbRunning
  <2>3. IsFiniteSet(LbRunning') /\ lbActive' = Cardinality(LbRunning')
    <3> DEFINE A == LbRunning
               B == LbRunning'
    <3>1. /\ IsFiniteSet(A) /\ lbActive = Cardinality(A)
          /\ \/ j \notin A /\ B = A \cup {j} /\ lbActive' = lbActive + 1
             \/ j \in A /\ B = A \ {j} /\ lbActive' = lbActive - 1
             \/ B = A /\ lbActive' = lbActive
      BY <2>1, <2>2
    <3> HIDE DEF A, B
    <3>2. IsFiniteSet(B) /\ lbActive' = Cardinality(B)
      BY <3>1, FS_AddElement, FS_RemoveElement
    <3> QED
      BY <3>2 DEF B
  <2> QED
    BY <2>3 DEF GaugeCounts
<1> QED
  BY <1>1, OthersKeep DEF LbInv

LEMMA LbInvParts ==
  ASSUME LbInv, NEW j \in LbJobs
  PROVE  /\ JobTypes /\ ClusterTypes /\ JobOK(j)
         /\ lbAsked[j] \in LbRequests /\ lbAsked[j].max \in Nat
BY LoadBalancingAssumption DEF LbInv, JobTypes

LEMMA LbMoves ==
  ASSUME LbInv, NEW j \in LbJobs, StartLoadbalancing(j) \/ Tick(j) \/ SeeCancelled(j)
                                 \/ LeaveLoadbalancing(j)
  PROVE  LbInv'
<1> USE LbInvParts
<1>1. /\ \/ lbPc[j] = "none" /\ lbPc' = [lbPc EXCEPT ![j] = "analyze"] /\ lbStatus' = lbStatus
            /\ lbActive' = lbActive + 1
         \/ lbPc[j] = "wait" /\ lbPc' = [lbPc EXCEPT ![j] = "analyze"] /\ lbStatus' = lbStatus
            /\ lbActive' = lbActive
         \/ /\ lbPc[j] = "wait" /\ lbPc' = [lbPc EXCEPT ![j] = "leave"]
            /\ lbStatus' = [lbStatus EXCEPT ![j] = "Cancelled"] /\ lbActive' = lbActive
         \/ lbPc[j] = "leave" /\ lbPc' = [lbPc EXCEPT ![j] = "over"] /\ lbStatus' = lbStatus
            /\ lbActive' = lbActive - 1
      /\ UNCHANGED <<podNode, moving, lbAsked, lbSeen, lbPlan, lbCancelled>>
  BY DEF StartLoadbalancing, Tick, SeeCancelled, LeaveLoadbalancing, LbGoto, SetLbStatus
<1>2. JobTypes' /\ ClusterTypes'
  BY <1>1 DEF JobTypes, ClusterTypes, Steps, Statuses, LbTerminal
<1>3. \A k \in LbJobs \ {j} : lbPc'[k] = lbPc[k] /\ lbStatus'[k] = lbStatus[k]
  BY <1>1 DEF JobTypes
<1>4. /\ lbPc'[j] \in {"analyze", "leave", "over"} /\ lbPc[j] # "execute"
      /\ lbStatus'[j] \in LbTerminal => lbPc'[j] \in {"leave", "over"}
  BY <1>1 DEF JobTypes, JobOK, LbTerminal
<1>5. JobOK(j)'
  BY <1>1, <1>4 DEF JobOK
<1>6. \/ /\ lbPc[j] \in {"none", "over"} /\ lbPc'[j] \notin {"none", "over"}
         /\ lbActive' = lbActive + 1
      \/ /\ lbPc[j] \notin {"none", "over"} /\ lbPc'[j] \in {"none", "over"}
         /\ lbActive' = lbActive - 1
      \/ (lbPc[j] \in {"none", "over"} <=> lbPc'[j] \in {"none", "over"}) /\ lbActive' = lbActive
  BY <1>1 DEF JobTypes
<1> QED
  BY <1>1, <1>2, <1>3, <1>5, <1>6, JobStep

LEMMA LbAnalyzes ==
  ASSUME LbInv, NEW j \in LbJobs, AnalyzeClusterState(j)
  PROVE  LbInv'
<1> USE LbInvParts
<1>1. /\ lbPc[j] = "analyze"
      /\ UNCHANGED <<podNode, moving, lbAsked, lbPlan, lbCancelled, lbActive>>
      /\ \/ /\ lbStatus' = [lbStatus EXCEPT ![j] = "Analyzing"]
            /\ lbPc' = [lbPc EXCEPT ![j] = "plan"]
            /\ \E D \in SUBSET LbNodes : \E f \in [D -> Nat] : lbSeen' = [lbSeen EXCEPT ![j] = f]
         \/ /\ lbStatus' = [lbStatus EXCEPT ![j] = "Failed"] /\ lbPc' = [lbPc EXCEPT ![j] = "leave"]
            /\ lbSeen' = lbSeen
  <2>1. ASSUME NEW D \in SUBSET LbNodes
        PROVE  [n \in D |-> Cardinality(PodsOn(n, lbAsked[j]))] \in [D -> Nat]
    <3>1. \A n \in D : IsFiniteSet(PodsOn(n, lbAsked[j]))
      <4>1. \A n \in D : PodsOn(n, lbAsked[j]) \subseteq LbPods
        BY LoadBalancingAssumption DEF PodsOn, InScope
      <4> QED
        BY <4>1, LoadBalancingAssumption, FS_Subset
    <3> QED
      BY <3>1, FS_CardinalityType
  <2>2. ASSUME NEW D \in SUBSET LbNodes, NEW f \in [D -> LoadLevels]
        PROVE  f \in [D -> Nat]
    BY LoadBalancingAssumption
  <2> QED
    BY <2>1, <2>2 DEF AnalyzeClusterState, LbGoto, SetLbStatus
<1>2. lbPlan[j] = {} /\ lbPlan'[j] = {}
  BY <1>1 DEF JobOK
<1>3. ClusterTypes'
  BY <1>1 DEF ClusterTypes
<1>4. ASSUME NEW D \in SUBSET LbNodes, NEW f \in [D -> Nat], lbSeen' = [lbSeen EXCEPT ![j] = f],
             lbStatus' = [lbStatus EXCEPT ![j] = "Analyzing"], lbPc' = [lbPc EXCEPT ![j] = "plan"]
      PROVE  LbInv'
  <2>1. JobTypes'
    BY <1>1, <1>4 DEF JobTypes, Steps, Statuses, LbTerminal
  <2>2. \A k \in LbJobs \ {j} : /\ lbPc'[k] = lbPc[k] /\ lbStatus'[k] = lbStatus[k]
                                 /\ lbSeen'[k] = lbSeen[k]
    BY <1>4 DEF JobTypes
  <2>3. lbPc'[j] = "plan" /\ lbStatus'[j] = "Analyzing" /\ lbSeen'[j] = f
    BY <1>4 DEF JobTypes
  <2>4. GoodPlan(lbPlan'[j], lbSeen'[j], lbAsked'[j].max)
    BY <1>1, <1>2, EmptyPlan
  <2>5. JobOK(j)'
    BY <1>2, <2>3, <2>4 DEF JobOK, LbTerminal
  <2> QED
    BY <1>1, <1>3, <2>1, <2>2, <2>3, <2>5, JobStep
<1>5. ASSUME lbStatus' = [lbStatus EXCEPT ![j] = "Failed"], lbPc' = [lbPc EXCEPT ![j] = "leave"],
             lbSeen' = lbSeen
      PROVE  LbInv'
  <2>1. JobTypes'
    BY <1>1, <1>5 DEF JobTypes, Steps, Statuses, LbTerminal
  <2>2. \A k \in LbJobs \ {j} : lbPc'[k] = lbPc[k] /\ lbStatus'[k] = lbStatus[k]
    BY <1>5 DEF JobTypes
  <2>3. lbPc'[j] = "leave"
    BY <1>5 DEF JobTypes
  <2>5. JobOK(j)'
    BY <1>1, <1>2, <1>5, <2>3 DEF JobOK
  <2> QED
    BY <1>1, <1>3, <1>5, <2>1, <2>2, <2>3, <2>5, JobStep
<1> QED
  BY <1>1, <1>4, <1>5

\* The plan is made of what the same step notes as seen.
LEMMA LbPlans ==
  ASSUME LbInv, NEW j \in LbJobs, CalculateMigrationPlan(j)
  PROVE  LbInv'
<1> USE LbInvParts
<1> DEFINE q == lbAsked[j]
           counts == [n \in DOMAIN lbSeen[j] |-> Cardinality(PodsOn(n, q))]
           seen == IF q.strategy = "pod_count" THEN counts ELSE lbSeen[j]
<1>1. lbPc[j] = "plan" /\ UNCHANGED <<podNode, moving, lbAsked, lbCancelled, lbActive>>
  BY DEF CalculateMigrationPlan
<1>2. PICK P \in IF q.strategy = "pod_count" THEN PodCountPlans(q, seen) ELSE LoadPlans(q, seen) :
        /\ lbSeen' = [lbSeen EXCEPT ![j] = seen] /\ lbPlan' = [lbPlan EXCEPT ![j] = P]
        /\ \/ P = {} /\ lbPc' = [lbPc EXCEPT ![j] = "end"] /\ lbStatus' = lbStatus
           \/ /\ lbPc' = [lbPc EXCEPT ![j] = "execute"]
              /\ lbStatus' = [lbStatus EXCEPT ![j] = "Executing"]
  BY DEF CalculateMigrationPlan, LbGoto, SetLbStatus
<1>3. PICK D \in SUBSET LbNodes : lbSeen[j] \in [D -> Nat]
  BY <1>1 DEF JobOK
<1>4. podNode \in [LbPods -> LbNodes] /\ q \in LbRequests /\ DOMAIN seen \subseteq LbNodes
  BY <1>3 DEF ClusterTypes
<1>5. GoodPlan(P, seen, q.max)
  <2>1. CASE q.strategy = "pod_count"
    <3>1. counts = [n \in D |-> Cardinality(PodsOn(n, q))] /\ P \in PodCountPlans(q, counts)
      BY <1>2, <1>3, <2>1
    <3> QED
      BY <1>4, <2>1, <3>1, PodCountGood
  <2>2. CASE q.strategy # "pod_count"
    <3>1. P \in LoadPlans(q, lbSeen[j])
      BY <1>2, <2>2
    <3> QED
      BY <1>3, <1>4, <2>2, <3>1, LoadGood
  <2> QED
    BY <2>1, <2>2
<1> HIDE DEF seen, q
<1>6. JobTypes' /\ ClusterTypes'
  BY <1>1, <1>2 DEF JobTypes, ClusterTypes, Steps, Statuses, LbTerminal
<1>7. /\ lbSeen'[j] = seen /\ lbPlan'[j] = P /\ lbPc'[j] \in {"end", "execute"}
      /\ lbPc'[j] # "execute" => P = {}
      /\ lbStatus'[j] \notin LbTerminal
  BY <1>1, <1>2 DEF JobTypes, JobOK, LbTerminal
<1>8. \A k \in LbJobs \ {j} : /\ lbPc'[k] = lbPc[k] /\ lbStatus'[k] = lbStatus[k]
                               /\ lbSeen'[k] = lbSeen[k] /\ lbPlan'[k] = lbPlan[k]
  BY <1>2 DEF JobTypes
<1>9. JobOK(j)'
  <2>1. lbAsked'[j].max = q.max
    BY <1>1 DEF q
  <2> QED
    BY <1>4, <1>5, <1>7, <2>1 DEF JobOK
<1> QED
  BY <1>1, <1>6, <1>7, <1>8, <1>9, JobStep

\* What is left of a good plan is a good plan.
LEMMA LessOfPlan ==
  ASSUME NEW P, NEW seen, NEW max \in Nat, GoodPlan(P, seen, max), NEW m \in P
  PROVE  GoodPlan(P \ {m}, seen, max)
<1>1. IsFiniteSet(P \ {m}) /\ Cardinality(P \ {m}) = Cardinality(P) - 1 /\ Cardinality(P) \in Nat
  BY FS_RemoveElement, FS_CardinalityType DEF GoodPlan
<1> QED
  BY <1>1 DEF GoodPlan

LEMMA LbExecutes ==
  ASSUME LbInv, NEW j \in LbJobs, ExecuteMigrations(j)
  PROVE  LbInv'
<1> USE LbInvParts
<1>1. /\ lbPc[j] = "execute"
      /\ UNCHANGED <<podNode, lbAsked, lbStatus, lbSeen, lbCancelled, lbActive>>
  BY DEF ExecuteMigrations
<1>2. lbStatus[j] \notin LbTerminal /\ GoodPlan(lbPlan[j], lbSeen[j], lbAsked[j].max)
  BY <1>1 DEF JobOK
<1>3. CASE lbPlan[j] = {}
  <2>1. lbPc' = [lbPc EXCEPT ![j] = "end"] /\ UNCHANGED <<lbPlan, moving>>
    BY <1>3 DEF ExecuteMigrations, LbGoto
  <2>2. JobTypes' /\ ClusterTypes'
    BY <1>1, <2>1 DEF JobTypes, ClusterTypes, Steps
  <2>3. lbPc'[j] = "end" /\ \A k \in LbJobs \ {j} : lbPc'[k] = lbPc[k]
    BY <2>1 DEF JobTypes
  <2>4. JobOK(j)'
    BY <1>1, <1>2, <1>3, <2>1, <2>3 DEF JobOK
  <2> QED
    BY <1>1, <2>1, <2>2, <2>3, <2>4, JobStep
<1>4. CASE lbPlan[j] # {}
  <2>1. PICK m \in lbPlan[j] :
          /\ lbPlan' = [lbPlan EXCEPT ![j] = lbPlan[j] \ {m}] /\ lbPc' = lbPc
          /\ moving' \in {moving, moving \cup {[pod |-> m.pod, to |-> m.to]}}
    BY <1>4 DEF ExecuteMigrations
  <2>2. ClusterTypes'
    <3>1. m.pod \in LbPods /\ m.to \in LbNodes
      BY <1>2 DEF GoodPlan, Moves
    <3> QED
      BY <1>1, <2>1, <3>1 DEF ClusterTypes
  <2>3. JobTypes'
    BY <1>1, <2>1 DEF JobTypes
  <2>4. lbPlan'[j] = lbPlan[j] \ {m} /\ \A k \in LbJobs \ {j} : lbPlan'[k] = lbPlan[k]
    BY <2>1 DEF JobTypes
  <2>5. GoodPlan(lbPlan'[j], lbSeen'[j], lbAsked'[j].max)
    BY <1>1, <1>2, <2>4, LessOfPlan
  <2>6. JobOK(j)'
    BY <1>1, <1>2, <2>1, <2>5 DEF JobOK
  <2> QED
    BY <1>1, <2>1, <2>2, <2>3, <2>4, <2>6, JobStep
<1> QED
  BY <1>3, <1>4

LEMMA LbEnds ==
  ASSUME LbInv, NEW j \in LbJobs, EndCycle(j)
  PROVE  LbInv'
<1> USE LbInvParts
<1>1. /\ lbPc[j] = "end" /\ lbSeen' = [lbSeen EXCEPT ![j] = <<>>]
      /\ UNCHANGED <<podNode, moving, lbAsked, lbPlan, lbCancelled, lbActive>>
      /\ \/ lbPc' = [lbPc EXCEPT ![j] = "wait"] /\ lbStatus' = lbStatus
         \/ /\ lbPc' = [lbPc EXCEPT ![j] = "leave"]
            /\ lbStatus' = [lbStatus EXCEPT ![j] = "Completed"]
  BY DEF EndCycle, LbGoto, SetLbStatus
<1>2. JobTypes' /\ ClusterTypes'
  BY <1>1 DEF JobTypes, ClusterTypes, Steps, Statuses, LbTerminal
<1>3. /\ lbSeen'[j] = <<>> /\ lbPlan'[j] = {} /\ lbPc'[j] \in {"wait", "leave"}
      /\ lbStatus'[j] \in LbTerminal => lbPc'[j] = "leave"
  BY <1>1 DEF JobTypes, JobOK, LbTerminal
<1>4. \A k \in LbJobs \ {j} : /\ lbPc'[k] = lbPc[k] /\ lbStatus'[k] = lbStatus[k]
                               /\ lbSeen'[k] = lbSeen[k]
  BY <1>1 DEF JobTypes
<1>5. JobOK(j)'
  <2>1. GoodPlan(lbPlan'[j], lbSeen'[j], lbAsked'[j].max)
    BY <1>1, <1>3, EmptyPlan
  <2>2. DOMAIN lbSeen'[j] = {}
    BY <1>3
  <2> QED
    BY <1>3, <2>1, <2>2 DEF JobOK
<1> QED
  BY <1>1, <1>2, <1>3, <1>4, <1>5, JobStep

\* Neither a cancellation nor the end of a migration touches what a job has planned.
LEMMA LbOutside ==
  ASSUME LbInv, (\E j \in LbJobs : CancelLoadbalancing(j)) \/ (\E m \in moving : MigrationOver(m))
                \/ UNCHANGED lbVars
  PROVE  LbInv'
<1>1. /\ UNCHANGED <<lbAsked, lbPc, lbStatus, lbSeen, lbPlan, lbActive>>
      /\ lbCancelled' \subseteq lbCancelled \cup LbJobs
  BY DEF CancelLoadbalancing, MigrationOver, lbVars
<1>2. ClusterTypes'
  <2>1. CASE UNCHANGED <<podNode, moving>>
    BY <2>1 DEF LbInv, ClusterTypes
  <2>2. CASE \E m \in moving : MigrationOver(m)
    <3>1. PICK m \in moving : MigrationOver(m)
      BY <2>2
    <3>2. m.pod \in LbPods /\ m.to \in LbNodes
      BY DEF LbInv, ClusterTypes
    <3> QED
      BY <3>1, <3>2 DEF LbInv, ClusterTypes, MigrationOver
  <2> QED
    BY <2>1, <2>2 DEF CancelLoadbalancing, lbVars
<1>3. JobTypes'
  BY <1>1 DEF LbInv, JobTypes
<1>4. GaugeCounts'
  BY <1>1 DEF LbInv, GaugeCounts, LbRunning
<1>5. ASSUME NEW j \in LbJobs PROVE JobOK(j)'
  BY <1>1 DEF LbInv, JobOK
<1> QED
  BY <1>2, <1>3, <1>4, <1>5 DEF LbInv

LEMMA LbInvNext == LbInv /\ [LbNext]_lbVars => LbInv'
<1> SUFFICES ASSUME LbInv, [LbNext]_lbVars PROVE LbInv'
  OBVIOUS
<1> QED
  BY LbMoves, LbAnalyzes, LbPlans, LbExecutes, LbEnds, LbOutside DEF LbNext, LbCycle

LEMMA LbInvAlways == LbSpec => []LbInv
BY LbInvInit, LbInvNext, PTL DEF LbSpec

\* The cluster, the jobs and the gauge have their types, however many jobs run: the gauge
\* counts the jobs between runLoadbalancing's start and its deferred end
\* (loadbalancing.go:150-168).
THEOREM LoadBalancingTypeCorrect == LbSpec => []LbTypeOK
BY LbInvAlways, LbInvTypes, PTL

\* Every planned migration leads from a node to one that was seen with less
\* (loadbalancing.go:606, 678, 796, 898), for every number of nodes, pods and jobs.
THEOREM LoadBalancingMovesGoDown == LbSpec => []MovesGoDown
BY LbInvAlways, LbInvDown, PTL

LEMMA FinalKeeps ==
  ASSUME LbInv, LbNext, NEW j \in LbJobs, lbStatus[j] \in LbTerminal
  PROVE  lbStatus'[j] = lbStatus[j] /\ lbPlan'[j] = lbPlan[j]
<1>1. lbPc[j] \in {"leave", "over"} /\ JobTypes
  BY DEF LbInv, JobOK
<1>2. CASE \E m \in moving : MigrationOver(m)
  BY <1>2 DEF MigrationOver
<1>3. ASSUME NEW k \in LbJobs, \/ StartLoadbalancing(k) \/ LbCycle(k) \/ Tick(k)
                              \/ SeeCancelled(k) \/ CancelLoadbalancing(k)
      PROVE  lbStatus'[j] = lbStatus[j] /\ lbPlan'[j] = lbPlan[j]
  <2>1. CASE k = j
    <3>1. UNCHANGED <<lbStatus, lbPlan>>
      BY <1>1, <1>3, <2>1
      DEF StartLoadbalancing, LbCycle, AnalyzeClusterState, CalculateMigrationPlan,
          ExecuteMigrations, EndCycle, LeaveLoadbalancing, Tick, SeeCancelled, CancelLoadbalancing
    <3> QED
      BY <3>1
  <2>2. CASE k # j
    BY <1>1, <1>3, <2>2
    DEF StartLoadbalancing, LbCycle, AnalyzeClusterState, CalculateMigrationPlan,
        ExecuteMigrations, EndCycle, LeaveLoadbalancing, Tick, SeeCancelled, CancelLoadbalancing,
        LbGoto, SetLbStatus, JobTypes
  <2> QED
    BY <2>1, <2>2
<1> QED
  BY <1>2, <1>3 DEF LbNext

\* A job that reports an end keeps its status and plans nothing any more
\* (loadbalancing.go:160, 168, 195, 1063).
THEOREM LoadBalancingEndIsFinal == LbSpec => EndedIsEnded
<1>1. LbInv /\ [LbNext]_lbVars =>
        [\A j \in LbJobs : lbStatus[j] \in LbTerminal =>
           /\ lbStatus'[j] = lbStatus[j]
           /\ lbPlan'[j] = lbPlan[j]]_lbVars
  BY FinalKeeps
<1> QED
  BY <1>1, LbInvAlways, PTL DEF LbSpec, EndedIsEnded

-----------------------------------------------------------------------------
(* Autoscaling: the operators. *)

\* What is stabilised is the least number that no recommendation of a bounded history, or
\* the desired number if there is none, exceeds.
LEMMA StabilizedIsLargest ==
  ASSUME NEW h, NEW lo \in Int, NEW hi \in Int, NEW desired \in lo..hi,
         \A r \in h : r.replicas \in lo..hi
  PROVE  /\ Stabilized(h, desired) \in lo..hi
         /\ \A r \in h : r.replicas <= Stabilized(h, desired)
         /\ h = {} => Stabilized(h, desired) = desired
         /\ \A b \in Int : desired <= b /\ (\A r \in h : r.replicas <= b)
                           => Stabilized(h, desired) <= b
<1>1. CASE h = {}
  BY <1>1 DEF Stabilized
<1>2. CASE h # {}
  <2> DEFINE S == {r.replicas : r \in h}
             Top(n) == \A r \in h : r.replicas <= n
  <2>1. S # {} /\ S \subseteq lo..hi
    BY <1>2
  <2>2. \E n \in S : \A m \in S : m <= n
    BY <2>1, LargestExists
  <2>3. \E n \in S : Top(n)
    BY <2>2
  <2>4. (CHOOSE n \in S : Top(n)) \in S /\ Top(CHOOSE n \in S : Top(n))
    BY <2>3
  <2>5. Stabilized(h, desired) = CHOOSE n \in S : Top(n)
    BY <1>2 DEF Stabilized
  <2> QED
    BY <1>2, <2>1, <2>4, <2>5
<1> QED
  BY <1>1, <1>2

\* No replica count exceeds this, whoever sets it.
Ceiling == MaxReplicas + MaxDemand

\* calculateDesiredReplicas stays within the bounds when the workload is within them, and
\* is at least one and within the ceiling in any case.
LEMMA DesiredBounds ==
  ASSUME NEW current \in 0..Ceiling, NEW wanted \in Int
  PROVE  /\ DesiredReplicas(current, wanted) \in 1..Ceiling
         /\ current \in MinReplicas..MaxReplicas
              => DesiredReplicas(current, wanted) \in MinReplicas..MaxReplicas
BY AutoscalingAssumption DEF DesiredReplicas, Clamp, Ceiling

\* A tick of the clock changes no recommendation but its age, and a window only drops some.
LEMMA OlderKeeps ==
  ASSUME NEW h \in SUBSET Recommendations
  PROVE  /\ Older(h) \in SUBSET Recommendations
         /\ \A r \in Older(h) : \E s \in h : r.replicas = s.replicas
<1> DEFINE Old(r) == [r EXCEPT !.age = IF @ < Oldest THEN @ + 1 ELSE @]
<1>1. Oldest \in Nat
  BY AutoscalingAssumption DEF Oldest
<1>2. ASSUME NEW r \in h PROVE Old(r) \in Recommendations /\ Old(r).replicas = r.replicas
  BY <1>1 DEF Recommendations
<1>3. Older(h) = {Old(r) : r \in h}
  BY DEF Older
<1> QED
  BY <1>2, <1>3

LEMMA FreshKeeps == ASSUME NEW h, NEW w PROVE Fresh(h, w) \subseteq h
BY DEF Fresh
\* applyStabilizationWindow keeps histories typed and within an interval that holds the
\* desired replicas, and decides for a number in it, if for any.
LEMMA StabilizationKeeps ==
  ASSUME upHistory \subseteq Recommendations, downHistory \subseteq Recommendations,
         NEW lo \in Int, NEW hi \in Int,
         \A r \in upHistory \cup downHistory : r.replicas \in lo..hi,
         NEW current \in Int, NEW desired \in lo..hi,
         ApplyStabilizationWindow(current, desired)
  PROVE  /\ upHistory' \subseteq Recommendations /\ downHistory' \subseteq Recommendations
         /\ \A r \in upHistory' \cup downHistory' : r.replicas \in lo..hi
         /\ decision' \in (lo..hi) \cup {Idle}
<1> DEFINE new == [replicas |-> desired, age |-> 0]
           up == Fresh(Older(upHistory) \cup {new}, UpWindow)
           down == Fresh(Older(downHistory) \cup {new}, DownWindow)
<1>1. new \in Recommendations
  BY AutoscalingAssumption DEF Recommendations, Oldest
<1>2. /\ Older(upHistory) \subseteq Recommendations
      /\ \A r \in Older(upHistory) : r.replicas \in lo..hi
  BY OlderKeeps
<1>3. /\ Older(downHistory) \subseteq Recommendations
      /\ \A r \in Older(downHistory) : r.replicas \in lo..hi
  BY OlderKeeps
<1>4. /\ up \subseteq Recommendations
      /\ \A r \in up : r.replicas \in lo..hi
  BY <1>1, <1>2, FreshKeeps
<1>5. /\ down \subseteq Recommendations
      /\ \A r \in down : r.replicas \in lo..hi
  BY <1>1, <1>3, FreshKeeps
<1>6. Stabilized(up, desired) \in lo..hi /\ Stabilized(down, desired) \in lo..hi
  BY <1>4, <1>5, StabilizedIsLargest
<1>7. \/ upHistory' = up /\ downHistory' = Older(downHistory) /\ decision' = Stabilized(up, desired)
      \/ upHistory' = Older(upHistory) /\ downHistory' = down
           /\ decision' = Stabilized(down, desired)
      \/ upHistory' = {} /\ downHistory' = {} /\ decision' = Idle /\ desired = current
  BY DEF ApplyStabilizationWindow
<1> QED
  BY <1>2, <1>3, <1>4, <1>5, <1>6, <1>7

-----------------------------------------------------------------------------
(* Types and the ceiling. *)

BelowCeiling ==
  /\ specReplicas \in 0..Ceiling /\ podReplicas \in 0..Ceiling
  /\ \A r \in upHistory \cup downHistory : r.replicas \in 1..Ceiling
  /\ decision \in (1..Ceiling) \cup {Idle}

\* What a tick or a reconciliation decides.
LEMMA DecideTypes ==
  ASSUME ScaleTypeOK, BelowCeiling, NEW current \in 0..Ceiling, NEW wanted \in 0..MaxDemand,
         Decide(current, wanted), disturbances' \in 0..MaxDisturbances
  PROVE  ScaleTypeOK' /\ BelowCeiling'
<1> DEFINE desired == DesiredReplicas(current, wanted)
<1>1. desired \in 1..Ceiling
  BY DesiredBounds, AutoscalingAssumption
<1>2. ApplyStabilizationWindow(current, desired)
  BY DEF Decide
<1>3. Ceiling \in Nat
  BY AutoscalingAssumption DEF Ceiling
<1>4. /\ upHistory' \subseteq Recommendations /\ downHistory' \subseteq Recommendations
      /\ \A r \in upHistory' \cup downHistory' : r.replicas \in 1..Ceiling
      /\ decision' \in (1..Ceiling) \cup {Idle}
  <2>1. upHistory \subseteq Recommendations /\ downHistory \subseteq Recommendations
    BY DEF ScaleTypeOK
  <2>2. \A r \in upHistory \cup downHistory : r.replicas \in 1..Ceiling
    BY DEF BelowCeiling
  <2>3. 1 \in Int /\ Ceiling \in Int /\ current \in Int
    BY <1>3
  <2> QED
    BY <1>1, <1>2, <2>1, <2>2, <2>3, StabilizationKeeps
<1>5. UNCHANGED <<reads, scalerOn, specReplicas, podReplicas, demand, manual>>
  BY DEF Decide
<1> QED
  BY <1>3, <1>4, <1>5 DEF ScaleTypeOK, BelowCeiling

LEMMA ScaleNextTypes ==
  ScaleTypeOK /\ BelowCeiling /\ [ScaleNext]_scaleVars => ScaleTypeOK' /\ BelowCeiling'
<1> SUFFICES ASSUME ScaleTypeOK, BelowCeiling, [ScaleNext]_scaleVars
             PROVE  ScaleTypeOK' /\ BelowCeiling'
  OBVIOUS
<1>1. CASE AutoscalerTick \/ ReconcileHPA
  <2>1. \E current \in 0..Ceiling : Decide(current, demand) /\ UNCHANGED disturbances
    BY <1>1 DEF AutoscalerTick, ReconcileHPA, BelowCeiling
  <2> QED
    BY <2>1, DecideTypes DEF ScaleTypeOK
<1>2. CASE ReconcileSimulated
  <2>1. disturbances' \in 0..MaxDisturbances /\ specReplicas \in 0..Ceiling
    BY <1>2, AutoscalingAssumption DEF ReconcileSimulated, ScaleTypeOK, BelowCeiling
  <2>2. \E n \in 0..MaxDemand : Decide(specReplicas, n)
    BY <1>2 DEF ReconcileSimulated
  <2> QED
    BY <2>1, <2>2, DecideTypes
<1>3. CASE CreateScaler \/ DeleteScaler
  <2>0. disturbances' \in 0..MaxDisturbances
    BY <1>3, AutoscalingAssumption DEF CreateScaler, DeleteScaler, ScaleTypeOK
  <2>1. scalerOn' \in BOOLEAN
    BY <1>3 DEF CreateScaler, DeleteScaler
  <2>2. UNCHANGED <<reads, specReplicas, podReplicas, demand, decision, manual>>
    BY <1>3 DEF CreateScaler, DeleteScaler
  <2>3. \/ upHistory' = {} /\ downHistory' = {}
        \/ UNCHANGED <<upHistory, downHistory>>
    BY <1>3 DEF CreateScaler, DeleteScaler
  <2> QED
    BY <2>0, <2>1, <2>2, <2>3 DEF ScaleTypeOK, BelowCeiling
<1>4. CASE ScaleWorkload \/ ScaleFails
  <2>1. specReplicas' \in 0..Ceiling /\ decision' = Idle /\ disturbances' \in 0..MaxDisturbances
    BY <1>4, AutoscalingAssumption
       DEF ScaleWorkload, ScaleFails, ScaleTypeOK, BelowCeiling, Ceiling, Idle
  <2>2. UNCHANGED <<reads, scalerOn, podReplicas, demand, upHistory, downHistory, manual>>
    BY <1>4 DEF ScaleWorkload, ScaleFails
  <2> QED
    BY <2>1, <2>2 DEF ScaleTypeOK, BelowCeiling
<1>5. CASE PodsFollow
  BY <1>5, AutoscalingAssumption DEF PodsFollow, ScaleTypeOK, BelowCeiling, Ceiling
<1>6. CASE ChangeDemand \/ ManualScale
  <2>1. /\ specReplicas' \in 0..Ceiling /\ demand' \in 0..MaxDemand
        /\ disturbances' \in 0..MaxDisturbances
    BY <1>6, AutoscalingAssumption
       DEF ChangeDemand, ManualScale, ScaleTypeOK, BelowCeiling, Ceiling
  <2>2. manual' \in BOOLEAN
    BY <1>6 DEF ChangeDemand, ManualScale, ScaleTypeOK
  <2>3. UNCHANGED <<reads, scalerOn, podReplicas, upHistory, downHistory, decision>>
    BY <1>6 DEF ChangeDemand, ManualScale
  <2> QED
    BY <2>1, <2>2, <2>3 DEF ScaleTypeOK, BelowCeiling
<1>7. CASE UNCHANGED scaleVars
  BY <1>7 DEF scaleVars, ScaleTypeOK, BelowCeiling
<1> QED
  BY <1>1, <1>2, <1>3, <1>4, <1>5, <1>6, <1>7 DEF ScaleNext

LEMMA ScaleInitTypes == ScaleInit => ScaleTypeOK /\ BelowCeiling
<1> SUFFICES ASSUME ScaleInit PROVE ScaleTypeOK /\ BelowCeiling
  OBVIOUS
<1>1. scalerOn \in BOOLEAN /\ manual \in BOOLEAN
  BY DEF ScaleInit
<1>2. /\ specReplicas \in 0..Ceiling /\ podReplicas = specReplicas
      /\ upHistory = {} /\ downHistory = {} /\ decision = Idle
      /\ disturbances \in 0..MaxDisturbances
  BY AutoscalingAssumption DEF ScaleInit, Ceiling
<1>3. Ceiling \in Nat
  BY AutoscalingAssumption DEF Ceiling
<1> QED
  BY <1>1, <1>2, <1>3 DEF ScaleInit, ScaleTypeOK, BelowCeiling

\* For any bounds, limits, windows and course of the demand the variables keep their types:
\* the replicas written are at least one and bounded (autoscaling.go:235,
\* storagehpa_controller.go:303).
THEOREM AutoscalingTypeOK == ScaleSpec => [](ScaleTypeOK /\ BelowCeiling)
BY ScaleInitTypes, ScaleNextTypes, PTL DEF ScaleSpec

-----------------------------------------------------------------------------
(* The reconciler of StorageHPA objects, as long as nobody else scales the workload. *)

Undisturbed == reads = "spec" /\ ~manual

HistoriesWithin ==
  Undisturbed =>
    /\ specReplicas \in MinReplicas..MaxReplicas
    /\ \A r \in upHistory \cup downHistory : r.replicas \in MinReplicas..MaxReplicas
    /\ decision \in (MinReplicas..MaxReplicas) \cup {Idle}

DownsBelow ==
  Undisturbed =>
    \A r \in downHistory : /\ r.replicas <= specReplicas
                           /\ decision # Idle => r.replicas <= decision

HPAInv == ScaleTypeOK /\ BelowCeiling /\ HistoriesWithin /\ DownsBelow

\* One reconciliation: what it decides is within the bounds, not below any recommendation
\* to scale down it still remembers, and not above what is when it recommends less.
LEMMA ReconcileStep ==
  ASSUME HPAInv, Undisturbed, NEW wanted \in 0..MaxDemand, Decide(specReplicas, wanted)
  PROVE  /\ HistoriesWithin' /\ DownsBelow'
         /\ DesiredReplicas(specReplicas, wanted) < specReplicas => decision' <= specReplicas
<1> DEFINE desired == DesiredReplicas(specReplicas, wanted)
           new == [replicas |-> desired, age |-> 0]
           up == Fresh(Older(upHistory) \cup {new}, UpWindow)
           down == Fresh(Older(downHistory) \cup {new}, DownWindow)
<1>0. /\ MinReplicas \in Nat \ {0} /\ MaxReplicas \in Nat
      /\ MinReplicas \in Int /\ MaxReplicas \in Int
      /\ Idle \notin Nat
  BY AutoscalingAssumption DEF Idle
<1>1. specReplicas \in MinReplicas..MaxReplicas /\ specReplicas \in 0..Ceiling
  BY DEF HPAInv, HistoriesWithin, BelowCeiling
<1>2. desired \in MinReplicas..MaxReplicas
  BY <1>1, DesiredBounds, AutoscalingAssumption
<1>3. /\ upHistory \subseteq Recommendations /\ downHistory \subseteq Recommendations
      /\ \A r \in upHistory \cup downHistory : r.replicas \in MinReplicas..MaxReplicas
  BY DEF HPAInv, HistoriesWithin, ScaleTypeOK
<1>4. /\ decision = Idle
      /\ ApplyStabilizationWindow(specReplicas, desired)
      /\ UNCHANGED <<reads, specReplicas, manual>>
  BY DEF Decide
<1>5. /\ \A r \in upHistory' \cup downHistory' : r.replicas \in MinReplicas..MaxReplicas
      /\ decision' \in (MinReplicas..MaxReplicas) \cup {Idle}
  <2>1. specReplicas \in Int
    BY <1>0, <1>1
  <2> HIDE DEF desired
  <2> QED
    BY <1>0, <1>2, <1>3, <1>4, <2>1, StabilizationKeeps
<1>6. /\ \A r \in Older(upHistory) : r.replicas \in MinReplicas..MaxReplicas
      /\ \A r \in Older(downHistory) : /\ r.replicas \in MinReplicas..MaxReplicas
                                       /\ r.replicas <= specReplicas
  BY <1>3, OlderKeeps DEF HPAInv, DownsBelow
<1>7. up \subseteq Older(upHistory) \cup {new} /\ down \subseteq Older(downHistory) \cup {new}
  BY FreshKeeps
<1>8. /\ Stabilized(up, desired) \in MinReplicas..MaxReplicas
      /\ up = {} => Stabilized(up, desired) = desired
      /\ up # {} => new \in up
      /\ \A r \in up : r.replicas <= Stabilized(up, desired)
  <2>1. \A r \in up : r.replicas \in MinReplicas..MaxReplicas
    BY <1>2, <1>6, <1>7
  <2>2. \A r \in up : r.age \in Nat /\ r.age < UpWindow
    BY <1>3, OlderKeeps DEF Fresh, Recommendations
  <2>3. up # {} => new \in up
    BY <2>2, AutoscalingAssumption DEF Fresh
  <2> HIDE DEF desired, up
  <2> QED
    BY <1>0, <1>2, <2>1, <2>3, StabilizedIsLargest
<1>9. /\ \A r \in down : r.replicas <= Stabilized(down, desired)
      /\ \A b \in Int : desired <= b /\ (\A r \in down : r.replicas <= b)
                        => Stabilized(down, desired) <= b
  <2>1. \A r \in down : r.replicas \in MinReplicas..MaxReplicas
    BY <1>2, <1>6, <1>7
  <2> HIDE DEF desired, down
  <2> QED
    BY <1>0, <1>2, <2>1, StabilizedIsLargest
<1>10. CASE desired > specReplicas
  <2>1. downHistory' = Older(downHistory) /\ decision' = Stabilized(up, desired)
    BY <1>1, <1>2, <1>4, <1>10 DEF ApplyStabilizationWindow
  <2>2. Stabilized(up, desired) >= desired
    BY <1>2, <1>8
  <2>3. \A r \in downHistory' : r.replicas <= specReplicas' /\ r.replicas <= decision'
    BY <1>1, <1>2, <1>4, <1>6, <1>8, <1>10, <2>1, <2>2
  <2> QED
    BY <1>1, <1>2, <1>4, <1>5, <1>10, <2>3 DEF HistoriesWithin, DownsBelow
<1>11. CASE desired < specReplicas
  <2>1. downHistory' = down /\ decision' = Stabilized(down, desired)
    BY <1>1, <1>2, <1>4, <1>11 DEF ApplyStabilizationWindow
  <2>2. \A r \in down : r.replicas <= specReplicas
    <3>1. \A r \in Older(downHistory) \cup {new} : r.replicas <= specReplicas
      BY <1>1, <1>2, <1>6, <1>11
    <3> HIDE DEF down, new
    <3> QED
      BY <1>7, <3>1
  <2>3. decision' <= specReplicas
    <3>1. specReplicas \in Int /\ desired <= specReplicas
      BY <1>0, <1>1, <1>2, <1>11
    <3> HIDE DEF desired, down
    <3> QED
      BY <1>9, <2>1, <2>2, <3>1
  <2> QED
    BY <1>1, <1>4, <1>5, <1>9, <2>1, <2>2, <2>3 DEF HistoriesWithin, DownsBelow
<1>12. CASE desired = specReplicas
  <2>1. upHistory' = {} /\ downHistory' = {} /\ decision' = Idle
    BY <1>1, <1>2, <1>4, <1>12 DEF ApplyStabilizationWindow
  <2> QED
    BY <1>1, <1>4, <1>5, <1>12, <2>1 DEF HistoriesWithin, DownsBelow
<1> QED
  BY <1>1, <1>2, <1>10, <1>11, <1>12
LEMMA HPANext == HPAInv /\ [ScaleNext]_scaleVars => HPAInv'
<1> SUFFICES ASSUME HPAInv, [ScaleNext]_scaleVars PROVE HPAInv'
  OBVIOUS
<1>1. ScaleTypeOK' /\ BelowCeiling'
  BY ScaleNextTypes DEF HPAInv
<1>2. ~Undisturbed => ~Undisturbed'
  BY DEF Undisturbed, ScaleNext, CreateScaler, DeleteScaler, AutoscalerTick, ReconcileHPA,
         ReconcileSimulated, Decide, ScaleWorkload, ScaleFails, PodsFollow, ChangeDemand,
         ManualScale, scaleVars
<1>3. ASSUME Undisturbed PROVE HistoriesWithin' /\ DownsBelow'
  <2>0. Idle \notin Nat
    BY DEF Idle
  <2>1. CASE AutoscalerTick
    BY <1>3, <2>1 DEF AutoscalerTick, Undisturbed
  <2>2. CASE ReconcileHPA
    BY <1>3, <2>2, ReconcileStep DEF ReconcileHPA, HPAInv, ScaleTypeOK
  <2>3. CASE ReconcileSimulated
    BY <1>3, <2>3, ReconcileStep DEF ReconcileSimulated
  <2>4. CASE CreateScaler
    BY <1>3, <2>4 DEF CreateScaler, HPAInv, HistoriesWithin, DownsBelow, Undisturbed
  <2>5. CASE ScaleWorkload
    BY <1>3, <2>5 DEF ScaleWorkload, HPAInv, HistoriesWithin, DownsBelow, Undisturbed
  <2>6. CASE ScaleFails
    BY <1>3, <2>6 DEF ScaleFails, HPAInv, HistoriesWithin, DownsBelow, Undisturbed
  <2>7. CASE DeleteScaler \/ PodsFollow \/ ChangeDemand \/ UNCHANGED scaleVars
    <3>1. UNCHANGED <<reads, specReplicas, upHistory, downHistory, decision, manual>>
      BY <2>7 DEF DeleteScaler, PodsFollow, ChangeDemand, scaleVars
    <3> QED
      BY <3>1 DEF HPAInv, HistoriesWithin, DownsBelow, Undisturbed
  <2>8. CASE ManualScale
    BY <2>8 DEF ManualScale, HistoriesWithin, DownsBelow, Undisturbed
  <2> QED
    BY <2>1, <2>2, <2>3, <2>4, <2>5, <2>6, <2>7, <2>8 DEF ScaleNext
<1> QED
  BY <1>1, <1>2, <1>3 DEF HPAInv, HistoriesWithin, DownsBelow

LEMMA HPAInit == ScaleInit => HPAInv
<1> SUFFICES ASSUME ScaleInit PROVE HPAInv
  OBVIOUS
<1>1. specReplicas \in MinReplicas..MaxReplicas /\ upHistory = {} /\ downHistory = {}
      /\ decision = Idle
  BY DEF ScaleInit
<1> QED
  BY <1>1, ScaleInitTypes DEF HPAInv, HistoriesWithin, DownsBelow

\* For any bounds, limits, windows, failures and course of the demand, the reconciler keeps
\* a workload that nobody else scales within the bounds (storagehpa_controller.go:303, 327).
THEOREM AutoscalingWithinBounds == ScaleSpec => []HPAWithinBounds
<1>1. HPAInv => HPAWithinBounds
  BY DEF HPAInv, HistoriesWithin, Undisturbed, HPAWithinBounds
<1> QED
  BY <1>1, HPAInit, HPANext, PTL DEF ScaleSpec

\* For any windows, however old the recommendations in them: where the metrics recommend
\* fewer replicas, the reconciler never writes more (storagehpa_controller.go:377).
THEOREM AutoscalingDownNeverRaises == ScaleSpec => DownNeverRaises
<1>1. HPAInv /\ [ScaleNext]_scaleVars =>
        [(/\ ReconcileHPA
          /\ ~manual
          /\ DesiredReplicas(specReplicas, demand) < specReplicas)
           => decision' <= specReplicas]_scaleVars
  BY ReconcileStep DEF ReconcileHPA, HPAInv, ScaleTypeOK, Undisturbed
<1> QED
  BY <1>1, HPAInit, HPANext, PTL DEF ScaleSpec, DownNeverRaises
=============================================================================
