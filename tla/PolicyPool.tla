----------------------------- MODULE PolicyPool -----------------------------
(***************************************************************************)
(* The population of OrchestrationPolicy objects: the policy generator     *)
(* creates them from the forecaster's recommendations                      *)
(* (orchestration-policy-engine/internal/generator/policy_generator.go),   *)
(* the reconciler brings them to an end (module PolicyReconciler; here one *)
(* step), a user may have a failed one retried, and the collector of       *)
(* terminated policies deletes them (internal/controller/gc.go).           *)
(*                                                                         *)
(* The generator remembers in memory what it has created and when, and     *)
(* does not repeat it within PolicyTTL.  The collector lists the policies  *)
(* from an informer cache, which lags behind the API server, and deletes   *)
(* from that list by name, one call at a time.  A recommendation is        *)
(* known by its key: node, type of policy and resource.  Time is counted   *)
(* in ticks; how old a thing is stops being counted beyond the TTLs.       *)
(***************************************************************************)
EXTENDS Integers, FiniteSets

CONSTANTS
  PolicyKeys,
  PolicyIds,     \* the policies, numbered in the order of their creation
  PolicyTTL,     \* how long a created policy counts as a duplicate, in ticks
  TerminatedTTL, \* how long a terminated policy is kept
  BatchMax,      \* deletions in one sweep
  MaxPoolFaults  \* bound: lost answers, restarts, and retries and deletions by users

ASSUME PolicyPoolAssumption ==
  /\ PolicyIds \subseteq Nat \ {0}
  /\ PolicyTTL \in Nat \ {0} /\ TerminatedTTL \in Nat \ {0} /\ BatchMax \in Nat \ {0}
  /\ MaxPoolFaults \in Nat

VARIABLES
  pool,        \* pool[i]: the object in the API server: [at, key, age, ended, tries]; at is
               \* "none" before its creation and "gone" after its deletion
  cachedPool,  \* the same in the informer cache
  recent,      \* recentPolicies: the age of the key's record, or NoRecord
  considered,  \* the recommendations the generator's cycle has not come to
  listed,      \* listed[i]: the retries of i in the collector's list, for the policies it is
               \* yet to delete
  sweepPc,     \* "idle" or "sweep"
  swept,       \* deletions of this sweep
  unrecorded,  \* history: policies without a record: its creation had no answer, or the
               \* generator has been restarted
  poolFaults

poolVars == <<pool, cachedPool, recent, considered, listed, sweepPc, swept, unrecorded, poolFaults>>
collector == <<listed, sweepPc, swept>>
generator == <<recent, considered>>

NoRecord == -1
NoPolicy == [at |-> "none"]
PolicyAt == {"active", "Failed", "final"}
PolicyObjects == [at : PolicyAt \cup {"gone"}, key : PolicyKeys, age : 0..PolicyTTL,
             ended : 0..(TerminatedTTL + 1),
             tries : Nat]

PoolTypeOK ==
  /\ pool \in [PolicyIds -> PolicyObjects \cup {NoPolicy}]
  /\ cachedPool \in [PolicyIds -> PolicyObjects \cup {NoPolicy}]
  /\ recent \in [PolicyKeys -> {NoRecord} \cup 0..(PolicyTTL + 1)]
  /\ considered \subseteq PolicyKeys
  /\ DOMAIN listed \subseteq PolicyIds
  /\ sweepPc \in {"idle", "sweep"}
  /\ swept \in 0..BatchMax
  /\ unrecorded \subseteq PolicyIds
  /\ poolFaults \in 0..MaxPoolFaults

-----------------------------------------------------------------------------
Lives(i) == pool[i].at \in PolicyAt
IsTerminal(p) == p.at \in {"Failed", "final"}

PoolFault == poolFaults < MaxPoolFaults /\ poolFaults' = poolFaults + 1

PoolInit ==
  /\ pool = [i \in PolicyIds |-> NoPolicy]
  /\ cachedPool = pool
  /\ recent = [k \in PolicyKeys |-> NoRecord]
  /\ considered = {}
  /\ listed = <<>>
  /\ sweepPc = "idle"
  /\ swept = 0
  /\ unrecorded = {}
  /\ poolFaults = 0

Later(n, most) == IF n < most THEN n + 1 ELSE n
Aged(p) ==
  IF p.at \notin PolicyAt THEN p
  ELSE [p EXCEPT !.age = Later(@, PolicyTTL),
                 !.ended = IF IsTerminal(p) THEN Later(@, TerminatedTTL + 1) ELSE 0]

\* The time stamps are in the objects: a cached object grows old like any other.
PoolTick ==
  /\ pool' = [i \in PolicyIds |-> Aged(pool[i])]
  /\ cachedPool' = [i \in PolicyIds |-> Aged(cachedPool[i])]
  /\ recent' = [k \in PolicyKeys |-> IF recent[k] = NoRecord THEN NoRecord
                                  ELSE Later(recent[k], PolicyTTL + 1)]
  /\ UNCHANGED <<considered, collector, unrecorded, poolFaults>>

\* runPolicyGeneration: the nodes, and what is recommended for each, as far as they can
\* be read.
StartCycle ==
  /\ considered = {}
  /\ \E S \in SUBSET PolicyKeys \ {{}} : considered' = S
  /\ UNCHANGED <<pool, cachedPool, recent, collector, unrecorded, poolFaults>>

\* Mutant: a record counts only while it is new.
IsDuplicatePolicy_New(k) == recent[k] = 0

IsDuplicatePolicy(k) == recent[k] # NoRecord /\ recent[k] < PolicyTTL

Clean(r) == [k \in PolicyKeys |-> IF r[k] > PolicyTTL THEN NoRecord ELSE r[k]]

\* analyzeAndCreatePolicy for one recommendation, and cleanupOldPolicyRecords after the
\* last.  Nothing is created for a duplicate, without a workload, or when Create fails; a
\* Create that fails may have taken effect.
ConsiderPolicy(k) ==
  /\ k \in considered
  /\ considered' = considered \ {k}
  /\ LET new == {i \in PolicyIds : pool[i] = NoPolicy}
         next == CHOOSE i \in new : \A j \in new : i <= j
         Cleaned(r) == recent' = IF considered' = {} THEN Clean(r) ELSE r
     IN \/ Cleaned(recent) /\ UNCHANGED <<pool, unrecorded, poolFaults>>
        \/ /\ new # {}
           /\ ~IsDuplicatePolicy(k)
           /\ pool' = [pool EXCEPT ![next] =
                         [at |-> "active", key |-> k, age |-> 0, ended |-> 0, tries |-> 0]]
           /\ \/ Cleaned([recent EXCEPT ![k] = 0]) /\ UNCHANGED <<unrecorded, poolFaults>>
              \/ /\ PoolFault
                 /\ unrecorded' = unrecorded \cup {next}
                 /\ Cleaned(recent)
  /\ UNCHANGED <<cachedPool, collector>>

\* The engine restarts, or another replica is elected: what was in memory is lost.
RestartEngine ==
  /\ PoolFault
  /\ recent' = [k \in PolicyKeys |-> NoRecord]
  /\ considered' = {}
  /\ listed' = <<>> /\ sweepPc' = "idle" /\ swept' = 0
  /\ unrecorded' = {i \in PolicyIds : Lives(i)}
  /\ cachedPool' = pool
  /\ UNCHANGED pool

-----------------------------------------------------------------------------
\* markPolicyCompleted, markPolicyFailed, or the rejection: all set a time.
EndPolicy(i, at) ==
  /\ pool[i].at = "active"
  /\ pool' = [pool EXCEPT ![i].at = at, ![i].ended = 0]
  /\ UNCHANGED <<cachedPool, generator, collector, unrecorded, poolFaults>>

\* handleRetryFromFailure: pending again, without CompletedAt.
RetryPolicy(i) ==
  /\ pool[i].at = "Failed"
  /\ PoolFault
  /\ pool' = [pool EXCEPT ![i].at = "active", ![i].ended = 0, ![i].tries = @ + 1]
  /\ UNCHANGED <<cachedPool, generator, collector, unrecorded>>

UserDeletes(i) ==
  /\ Lives(i)
  /\ PoolFault
  /\ pool' = [pool EXCEPT ![i].at = "gone"]
  /\ UNCHANGED <<cachedPool, generator, collector, unrecorded>>

CacheCatchesUp(i) ==
  /\ cachedPool[i] # pool[i]
  /\ cachedPool' = [cachedPool EXCEPT ![i] = pool[i]]
  /\ UNCHANGED <<pool, generator, collector, unrecorded, poolFaults>>

\* Mutant: what counts is the age of the policy.
Eligible_ByAge(p) == IsTerminal(p) /\ p.age > TerminatedTTL

\* Mutant: a failed policy is not taken for a terminated one.
Eligible_FinalOnly(p) == p.at = "final" /\ p.ended > TerminatedTTL

\* Terminated for longer than the TTL, by terminalTime.
Eligible(p) == IsTerminal(p) /\ p.ended > TerminatedTTL

\* sweep: the list and the time are taken once.
StartSweep ==
  /\ sweepPc = "idle"
  /\ listed' = [i \in {j \in PolicyIds : Eligible(cachedPool[j])} |-> cachedPool[i].tries]
  /\ sweepPc' = "sweep"
  /\ swept' = 0
  /\ UNCHANGED <<pool, cachedPool, generator, unrecorded, poolFaults>>

Unlist(i) == listed' = [j \in DOMAIN listed \ {i} |-> listed[j]]

\* Deleted now, or not found any more: both count.
SweepDeletes(i) ==
  /\ i \in DOMAIN listed
  /\ swept < BatchMax
  /\ pool' = [pool EXCEPT ![i].at = "gone"]
  /\ swept' = swept + 1
  /\ Unlist(i)
  /\ UNCHANGED <<cachedPool, generator, sweepPc, unrecorded, poolFaults>>

\* Delete returns an error, and the sweep goes on.
SweepFails(i) ==
  /\ i \in DOMAIN listed
  /\ swept < BatchMax
  /\ Unlist(i)
  /\ UNCHANGED <<pool, cachedPool, generator, sweepPc, swept, unrecorded, poolFaults>>

\* What is beyond the limit is left to the next sweep.
EndSweep ==
  /\ sweepPc = "sweep"
  /\ DOMAIN listed = {} \/ swept = BatchMax
  /\ listed' = <<>> /\ sweepPc' = "idle" /\ swept' = 0
  /\ UNCHANGED <<pool, cachedPool, generator, unrecorded, poolFaults>>

PoolNext ==
  \/ PoolTick
  \/ StartCycle
  \/ \E k \in PolicyKeys : ConsiderPolicy(k)
  \/ RestartEngine
  \/ \E i \in PolicyIds :
       \/ \E at \in {"Failed", "final"} : EndPolicy(i, at)
       \/ RetryPolicy(i)
       \/ UserDeletes(i)
       \/ CacheCatchesUp(i)
       \/ SweepDeletes(i)
       \/ SweepFails(i)
  \/ StartSweep
  \/ EndSweep

PoolSpec == PoolInit /\ [][PoolNext]_poolVars

-----------------------------------------------------------------------------
(* Properties. *)

\* A policy for the same node, type and resource is created again within PolicyTTL only if
\* the first is not in the generator's memory, because its creation had no answer or the
\* engine was restarted since (policy_generator.go:227, 562): neither the pruning of the
\* records nor failures make it repeat itself.
RepeatsHaveCause ==
  [][\A i, j \in PolicyIds :
       (/\ pool[j] = NoPolicy /\ pool'[j] # NoPolicy
        /\ Lives(i) /\ pool[i].key = pool'[j].key)
         => pool[i].age >= PolicyTTL \/ i \in unrecorded]_poolVars

\* The collector deletes only what ended longer ago than the TTL, although its list is a
\* stale one (gc.go:93, 121), with one exception: a policy retried since the list was true.
SweepsOnlyEnded ==
  [][\A i \in PolicyIds :
       (SweepDeletes(i) /\ Lives(i))
         => \/ IsTerminal(pool[i]) /\ pool[i].ended > TerminatedTTL
            \/ pool[i].tries # listed[i]]_poolVars

\* Every terminated policy is deleted in the end or retried, although a sweep deletes only
\* so many and any deletion may fail (gc.go:116-130).
Collected == \A i \in PolicyIds : IsTerminal(pool[i]) ~> ~IsTerminal(pool[i])
=============================================================================
