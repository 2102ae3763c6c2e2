---------------------------- MODULE Preemption ----------------------------
(***************************************************************************)
(* The orchestrator's preemptions                                          *)
(* (ai-storage-orchestrator/pkg/controller/preemption.go): a job lists the *)
(* pods of a node, sorts those below a priority by the score of its        *)
(* strategy, selects as many as free the amount asked for, evicts them one *)
(* by one and reports whether the target was achieved.  Jobs run           *)
(* concurrently and see each other's evictions only through the cluster.   *)
(*                                                                         *)
(* A strategy is an order of the pods by score.  Memory is counted in Mi   *)
(* and shown in whole units of Gi once it exceeds one; the other amounts   *)
(* are shown exactly.  An evicted pod stays on its node for a while.       *)
(***************************************************************************)
EXTENDS Integers, FiniteSets, Sequences, SequencesExt

CONSTANTS
  Victims,         \* the pods of the node
  VictimPriority,  \* VictimPriority[p]: its priority value
  VictimScore,     \* VictimScore[p]: the score of the strategy
  VictimAmount,    \* VictimAmount[p][t]: what p requests of resource t
  SparedVictims,   \* the pods of protected or other namespaces
  PreemptJobs,
  PreemptRequests, \* what a job may ask: [resource, target, max, below]
  GiB              \* a Gi, in the unit of memory

ASSUME PreemptionAssumption ==
  /\ IsFiniteSet(Victims)
  /\ VictimPriority \in [Victims -> Int]
  /\ VictimScore \in [Victims -> Int]
  /\ SparedVictims \subseteq Victims
  /\ \A q \in PreemptRequests :
       /\ q.target \in Nat /\ q.max \in Nat /\ q.below \in Int
       /\ q.resource = "all" \/ \A p \in Victims : VictimAmount[p][q.resource] \in Nat
  /\ GiB \in Nat \ {0}

VARIABLES
  victimState,   \* victimState[p]: "running", "leaving" (evicted, still listed), "gone"
  preAsked,      \* preAsked[j]: j's request
  prePc,         \* prePc[j]: the next step of runPreemption
  preStatus,     \* preStatus[j]: job.Status
  preCandidates, \* preCandidates[j]: the candidates in the order of their scores
  preSelected,   \* preSelected[j]: the selected pods
  preTried,      \* preTried[j]: how many of them have been tried
  preEvicted,    \* preEvicted[j]: those whose eviction succeeded
  preFreed,      \* preFreed[j]: details.ResourceFreed of the resource asked for
  preAchieved,   \* the jobs with details.TargetAchieved
  preActive      \* metrics.ActivePreemptionJobs

preVars == <<victimState, preAsked, prePc, preStatus, preCandidates, preSelected, preTried,
             preEvicted, preFreed, preAchieved, preActive>>
preResults == <<preTried, preEvicted, preFreed, preAchieved>>

PreTypeOK ==
  /\ victimState \in [Victims -> {"running", "leaving", "gone"}]
  /\ preAsked \in [PreemptJobs -> PreemptRequests]
  /\ prePc \in [PreemptJobs -> {"none", "analyze", "list", "select", "evict", "sum", "judge",
                                "leave", "over"}]
  /\ preStatus \in [PreemptJobs -> {"Pending", "Analyzing", "Executing", "Completed", "Failed"}]
  /\ \A j \in PreemptJobs : /\ ToSet(preSelected[j]) \subseteq ToSet(preCandidates[j])
                            /\ ToSet(preCandidates[j]) \subseteq Victims
                            /\ preEvicted[j] \subseteq ToSet(preSelected[j])
                            /\ preTried[j] \in 0..Len(preSelected[j])
                            /\ preFreed[j] \in Nat
  /\ preAchieved \subseteq PreemptJobs
  /\ preActive \in Nat

-----------------------------------------------------------------------------
\* formatBytes followed by parseMemory; formatMillicores loses nothing.
Shown(t, n) == IF t = "memory" /\ n >= GiB THEN (n \div GiB) * GiB ELSE n

\* The amount of a candidate's ResourceRequests; "all" counts pods.
CandidateAmount(t, p) == IF t = "all" THEN 1 ELSE Shown(t, VictimAmount[p][t])

\* parseResourceAmount knows no "storage" and no "storage_iops".
TargetAmount(q) == IF q.resource \in {"storage", "storage_iops"} THEN 0 ELSE q.target

SumOver(t, S) == MapThenSumSet(LAMBDA p : CandidateAmount(t, p), S)

\* sort.Slice by score, lowest first, equal ones in any order.
SortedByScore(s) == \A i, k \in 1..Len(s) : i < k => VictimScore[s[i]] <= VictimScore[s[k]]

\* Mutant: the limits are tested after a pod has been selected.
SelectPods_OneMore(q, s) ==
  LET Fits(n) == \A i \in 1..(n - 1) : /\ i <= q.max
                                       /\ SumOver(q.resource, ToSet(SubSeq(s, 1, i - 1))) < TargetAmount(q)
      n == CHOOSE k \in 0..Len(s) : Fits(k) /\ \A m \in 0..Len(s) : Fits(m) => m <= k
  IN SubSeq(s, 1, n)

\* selectPodsToPreempt: the shortest prefix that reaches the target, of at most max pods.
SelectPods(q, s) ==
  LET Fits(n) == \A i \in 1..n : /\ i <= q.max
                                 /\ SumOver(q.resource, ToSet(SubSeq(s, 1, i - 1))) < TargetAmount(q)
      n == CHOOSE k \in 0..Len(s) : Fits(k) /\ \A m \in 0..Len(s) : Fits(m) => m <= k
  IN SubSeq(s, 1, n)

PreGoto(j, l) == prePc' = [prePc EXCEPT ![j] = l]
SetPreStatus(j, s) == preStatus' = [preStatus EXCEPT ![j] = s]

PreInit ==
  /\ victimState = [p \in Victims |-> "running"]
  /\ preAsked \in [PreemptJobs -> PreemptRequests]
  /\ prePc = [j \in PreemptJobs |-> "none"]
  /\ preStatus = [j \in PreemptJobs |-> "Pending"]
  /\ preCandidates = [j \in PreemptJobs |-> <<>>]
  /\ preSelected = [j \in PreemptJobs |-> <<>>]
  /\ preTried = [j \in PreemptJobs |-> 0]
  /\ preEvicted = [j \in PreemptJobs |-> {}]
  /\ preFreed = [j \in PreemptJobs |-> 0]
  /\ preAchieved = {}
  /\ preActive = 0

StartPreemption(j) ==
  /\ prePc[j] = "none"
  /\ preActive' = preActive + 1
  /\ PreGoto(j, "analyze")
  /\ UNCHANGED <<victimState, preAsked, preStatus, preCandidates, preSelected, preResults>>

\* analyzeNodeState only reads the node, and may fail.
AnalyzeNodeState(j) ==
  /\ prePc[j] = "analyze"
  /\ \/ SetPreStatus(j, "Analyzing") /\ PreGoto(j, "list")
     \/ SetPreStatus(j, "Failed") /\ PreGoto(j, "leave")
  /\ UNCHANGED <<victimState, preAsked, preCandidates, preSelected, preResults, preActive>>

\* A pod whose details cannot be read is skipped.
FindPreemptionCandidates(j) ==
  /\ prePc[j] = "list"
  /\ \/ /\ \E S \in SUBSET {p \in Victims \ SparedVictims :
                              victimState[p] # "gone" /\ VictimPriority[p] < preAsked[j].below} :
             \E s \in SetToSeqs(S) : /\ SortedByScore(s)
                                     /\ preCandidates' = [preCandidates EXCEPT ![j] = s]
        /\ PreGoto(j, "select")
        /\ UNCHANGED preStatus
     \/ /\ SetPreStatus(j, "Failed")
        /\ PreGoto(j, "leave")
        /\ UNCHANGED preCandidates
  /\ UNCHANGED <<victimState, preAsked, preSelected, preResults, preActive>>

SelectPodsToPreempt(j) ==
  /\ prePc[j] = "select"
  /\ LET s == SelectPods(preAsked[j], preCandidates[j]) IN
       /\ preSelected' = [preSelected EXCEPT ![j] = s]
       /\ IF s = <<>>
          THEN SetPreStatus(j, "Completed") /\ PreGoto(j, "leave")
          ELSE SetPreStatus(j, "Executing") /\ PreGoto(j, "evict")
  /\ UNCHANGED <<victimState, preAsked, preCandidates, preResults, preActive>>

\* EvictPod: refused (a disruption budget, a pod that is gone), done, or done without an
\* answer.  A pod that is already leaving may be evicted again.
EvictNext(j) ==
  /\ prePc[j] = "evict"
  /\ IF preTried[j] = Len(preSelected[j])
     THEN PreGoto(j, "sum") /\ UNCHANGED <<victimState, preTried, preEvicted>>
     ELSE LET p == preSelected[j][preTried[j] + 1] IN
       /\ preTried' = [preTried EXCEPT ![j] = @ + 1]
       /\ \/ UNCHANGED <<victimState, preEvicted>>
          \/ /\ victimState[p] # "gone"
             /\ victimState' = [victimState EXCEPT ![p] = "leaving"]
             /\ \/ preEvicted' = [preEvicted EXCEPT ![j] = @ \cup {p}]
                \/ UNCHANGED preEvicted
       /\ UNCHANGED prePc
  /\ UNCHANGED <<preAsked, preStatus, preCandidates, preSelected, preFreed, preAchieved,
                 preActive>>

\* Mutant: what a failed eviction would have freed is added up too.
SumFreed_Tried(j) ==
  /\ prePc[j] = "sum"
  /\ preFreed' = [preFreed EXCEPT ![j] =
       Shown(preAsked[j].resource, SumOver(preAsked[j].resource, ToSet(preSelected[j])))]
  /\ PreGoto(j, "judge")
  /\ UNCHANGED <<victimState, preAsked, preStatus, preCandidates, preSelected, preTried,
                 preEvicted, preAchieved, preActive>>

SumFreed(j) ==
  /\ prePc[j] = "sum"
  /\ preFreed' = [preFreed EXCEPT ![j] =
       Shown(preAsked[j].resource, SumOver(preAsked[j].resource, preEvicted[j]))]
  /\ PreGoto(j, "judge")
  /\ UNCHANGED <<victimState, preAsked, preStatus, preCandidates, preSelected, preTried,
                 preEvicted, preAchieved, preActive>>

CheckTargetAchieved(j) ==
  /\ prePc[j] = "judge"
  /\ SetPreStatus(j, "Completed")
  /\ preAchieved' = IF preFreed[j] >= TargetAmount(preAsked[j])
                    THEN preAchieved \cup {j} ELSE preAchieved
  /\ PreGoto(j, "leave")
  /\ UNCHANGED <<victimState, preAsked, preCandidates, preSelected, preTried, preEvicted,
                 preFreed, preActive>>

\* The deferred end of runPreemption.
LeavePreemption(j) ==
  /\ prePc[j] = "leave"
  /\ preActive' = preActive - 1
  /\ PreGoto(j, "over")
  /\ UNCHANGED <<victimState, preAsked, preStatus, preCandidates, preSelected, preResults>>

\* The kubelet ends an evicted pod.
VictimGone(p) ==
  /\ victimState[p] = "leaving"
  /\ victimState' = [victimState EXCEPT ![p] = "gone"]
  /\ UNCHANGED <<preAsked, prePc, preStatus, preCandidates, preSelected, preResults, preActive>>

RunPreemption(j) ==
  \/ AnalyzeNodeState(j)
  \/ FindPreemptionCandidates(j)
  \/ SelectPodsToPreempt(j)
  \/ EvictNext(j)
  \/ SumFreed(j)
  \/ CheckTargetAchieved(j)
  \/ LeavePreemption(j)

PreNext ==
  \/ \E j \in PreemptJobs : StartPreemption(j) \/ RunPreemption(j)
  \/ \E p \in Victims : VictimGone(p)

PreSpec == PreInit /\ [][PreNext]_preVars

-----------------------------------------------------------------------------
(* Properties. *)

\* A job that reports its target achieved (preemption.go:606) has freed it: pods that were
\* evicted, and are leaving or gone, requested at least the amount asked for, although some
\* evictions fail and other jobs evict from the same node.
AchievedIsTrue ==
  \A j \in preAchieved : LET q == preAsked[j] IN
    /\ \A p \in preEvicted[j] : victimState[p] # "running"
    /\ SumOver(q.resource, preEvicted[j]) >= TargetAmount(q)

\* No pod is evicted needlessly (preemption.go:480): without the last of the selected pods
\* the others would not have been enough, and there are never more than the limit.
NoNeedlessEviction ==
  \A j \in PreemptJobs : LET q == preAsked[j] s == preSelected[j] IN
    /\ Len(s) <= q.max
    /\ s # <<>> => SumOver(q.resource, ToSet(Front(s))) < TargetAmount(q)
    /\ \A p \in ToSet(preCandidates[j]) \ ToSet(s) : \A v \in ToSet(s) :
         VictimScore[v] <= VictimScore[p]
=============================================================================
