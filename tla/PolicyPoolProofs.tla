-------------------------- MODULE PolicyPoolProofs --------------------------
(***************************************************************************)
(* The population of policies, for every number of policies and keys and   *)
(* all lengths of time: the generator repeats itself, and the collector    *)
(* deletes what has not ended, only for the causes that SweepsOnlyEnded    *)
(* and RepeatsHaveCause name.                                              *)
(*                                                                         *)
(* The collector decides by a cached object and deletes the object of the  *)
(* same name.  What joins the two is the number of retries: as long as it  *)
(* is the same, an object that was terminated in the cache has ended       *)
(* exactly as long ago in the API server (CacheTrue), and so has what is   *)
(* listed (ListTrue).  The generator's memory is right about a policy      *)
(* while it is young (Remembered).                                         *)
(***************************************************************************)
EXTENDS PolicyPool, WellFoundedInduction, TLAPS

-----------------------------------------------------------------------------
(* Types. *)

\* What the cache and the collector know of has been created.
Created ==
  /\ \A i \in PolicyIds : cachedPool[i] # NoPolicy => pool[i] # NoPolicy
  /\ \A i \in DOMAIN listed : pool[i] # NoPolicy

LEMMA AgedTypes ==
  ASSUME NEW p \in PolicyObjects \cup {NoPolicy}
  PROVE  /\ Aged(p) \in PolicyObjects \cup {NoPolicy}
         /\ Aged(p) = NoPolicy <=> p = NoPolicy
         /\ Aged(p).at = p.at
<1>1. CASE p = NoPolicy
  BY <1>1 DEF Aged, NoPolicy, PolicyAt
<1>2. CASE p \in PolicyObjects /\ p.at \notin PolicyAt
  BY <1>2 DEF Aged
<1>3. CASE p \in PolicyObjects /\ p.at \in PolicyAt
  <2> DEFINE a == Later(p.age, PolicyTTL)
             e == IF IsTerminal(p) THEN Later(p.ended, TerminatedTTL + 1) ELSE 0
  <2>1. a \in 0..PolicyTTL /\ e \in 0..(TerminatedTTL + 1)
    BY <1>3, PolicyPoolAssumption DEF PolicyObjects, Later
  <2>2. Aged(p) = [p EXCEPT !.age = a, !.ended = e]
    BY <1>3 DEF Aged
  <2> HIDE DEF a, e
  <2>3. Aged(p) \in PolicyObjects /\ Aged(p).at = p.at
    BY <1>3, <2>1, <2>2 DEF PolicyObjects
  <2>4. p # NoPolicy /\ Aged(p) # NoPolicy
    BY <1>3, <2>3 DEF PolicyAt, NoPolicy
  <2> QED
    BY <2>3, <2>4
<1> QED
  BY <1>1, <1>2, <1>3

\* The next policy is one that has not been created: there is a least number.
LEMMA NextPolicy ==
  ASSUME NEW S \in SUBSET PolicyIds, S # {}
  PROVE  (CHOOSE i \in S : \A j \in S : i <= j) \in S
<1> DEFINE R == {ss \in Nat \X Nat : ss[1] < ss[2]}
<1>1. S \subseteq Nat
  BY PolicyPoolAssumption
<1>2. IsWellFoundedOn(R, Nat)
  BY NatLessThanWellFounded DEF OpToRel
<1>3. \E i \in S : \A j \in S : ~(<<j, i>> \in R)
  BY <1>1, <1>2, WFMin
<1>4. PICK i \in S : \A j \in S : ~(<<j, i>> \in R)
  BY <1>3
<1>5. ASSUME NEW j \in S PROVE i <= j
  <2>1. i \in Nat /\ j \in Nat /\ ~(j < i)
    BY <1>1, <1>4
  <2> QED
    BY <2>1
<1> QED
  BY <1>5

\* ConsiderPolicy either leaves the pool alone or creates one policy.
LEMMA ConsiderCases ==
  ASSUME PoolTypeOK, NEW k \in PolicyKeys, ConsiderPolicy(k)
  PROVE  \/ UNCHANGED <<pool, unrecorded>> /\ recent' \in {recent, Clean(recent)}
         \/ \E n \in PolicyIds :
              /\ pool[n] = NoPolicy
              /\ ~IsDuplicatePolicy(k)
              /\ pool' = [pool EXCEPT ![n] =
                   [at |-> "active", key |-> k, age |-> 0, ended |-> 0, tries |-> 0]]
              /\ \/ /\ recent' \in {[recent EXCEPT ![k] = 0], Clean([recent EXCEPT ![k] = 0])}
                    /\ UNCHANGED unrecorded
                 \/ /\ recent' \in {recent, Clean(recent)}
                    /\ unrecorded' = unrecorded \cup {n}
<1> DEFINE new == {i \in PolicyIds : pool[i] = NoPolicy}
           next == CHOOSE i \in new : \A j \in new : i <= j
<1>1. new # {} => next \in new
  BY NextPolicy
<1> HIDE DEF next
<1>2. \/ UNCHANGED <<pool, unrecorded>> /\ recent' \in {recent, Clean(recent)}
      \/ /\ new # {} /\ ~IsDuplicatePolicy(k)
         /\ pool' = [pool EXCEPT ![next] =
              [at |-> "active", key |-> k, age |-> 0, ended |-> 0, tries |-> 0]]
         /\ \/ /\ recent' \in {[recent EXCEPT ![k] = 0], Clean([recent EXCEPT ![k] = 0])}
               /\ UNCHANGED unrecorded
            \/ /\ recent' \in {recent, Clean(recent)}
               /\ unrecorded' = unrecorded \cup {next}
  BY DEF ConsiderPolicy, next
<1> QED
  BY <1>1, <1>2

LEMMA CleanTypes ==
  ASSUME NEW r \in [PolicyKeys -> {NoRecord} \cup 0..(PolicyTTL + 1)]
  PROVE  Clean(r) \in [PolicyKeys -> {NoRecord} \cup 0..(PolicyTTL + 1)]
BY DEF Clean

LEMMA PoolNextTypes ==
  PoolTypeOK /\ Created /\ [PoolNext]_poolVars => PoolTypeOK' /\ Created'
<1> SUFFICES ASSUME PoolTypeOK, Created, [PoolNext]_poolVars PROVE PoolTypeOK' /\ Created'
  OBVIOUS
<1> USE PolicyPoolAssumption DEF collector, generator
<1>1. CASE PoolTick
  <2>1. \A i \in PolicyIds : /\ pool'[i] = Aged(pool[i]) /\ cachedPool'[i] = Aged(cachedPool[i])
                             /\ pool[i] \in PolicyObjects \cup {NoPolicy}
                             /\ cachedPool[i] \in PolicyObjects \cup {NoPolicy}
    BY <1>1 DEF PoolTick, PoolTypeOK
  <2>2. /\ pool' \in [PolicyIds -> PolicyObjects \cup {NoPolicy}]
        /\ cachedPool' \in [PolicyIds -> PolicyObjects \cup {NoPolicy}]
    BY <1>1, <2>1, AgedTypes DEF PoolTick
  <2>3. recent' \in [PolicyKeys -> {NoRecord} \cup 0..(PolicyTTL + 1)]
    BY <1>1 DEF PoolTick, PoolTypeOK, Later, NoRecord
  <2>4. UNCHANGED <<considered, listed, sweepPc, swept, unrecorded, poolFaults>>
    BY <1>1 DEF PoolTick
  <2>5. Created'
    BY <2>1, <2>4, AgedTypes DEF Created, PoolTypeOK
  <2> QED
    BY <2>2, <2>3, <2>4, <2>5 DEF PoolTypeOK
<1>2. CASE StartCycle
  BY <1>2 DEF StartCycle, PoolTypeOK, Created
<1>3. ASSUME NEW k \in PolicyKeys, ConsiderPolicy(k) PROVE PoolTypeOK' /\ Created'
  <2>1. /\ recent \in [PolicyKeys -> {NoRecord} \cup 0..(PolicyTTL + 1)]
        /\ [recent EXCEPT ![k] = 0] \in [PolicyKeys -> {NoRecord} \cup 0..(PolicyTTL + 1)]
    BY DEF PoolTypeOK
  <2>2. recent' \in [PolicyKeys -> {NoRecord} \cup 0..(PolicyTTL + 1)]
    BY <1>3, <2>1, ConsiderCases, CleanTypes
  <2>3. /\ pool' \in [PolicyIds -> PolicyObjects \cup {NoPolicy}]
        /\ \A i \in PolicyIds : pool[i] # NoPolicy => pool'[i] = pool[i]
        /\ unrecorded' \subseteq PolicyIds
    <3>1. CASE UNCHANGED <<pool, unrecorded>>
      BY <3>1 DEF PoolTypeOK
    <3>2. ASSUME NEW n \in PolicyIds, pool[n] = NoPolicy,
                 pool' = [pool EXCEPT ![n] = [at |-> "active", key |-> k, age |-> 0,
                                              ended |-> 0, tries |-> 0]],
                 unrecorded' \in {unrecorded, unrecorded \cup {n}}
          PROVE  <2>3!1 /\ <2>3!2 /\ <2>3!3
      <4>1. [at |-> "active", key |-> k, age |-> 0, ended |-> 0, tries |-> 0] \in PolicyObjects
        BY DEF PolicyObjects, PolicyAt
      <4> QED
        BY <3>2, <4>1 DEF PoolTypeOK
    <3> QED
      BY <1>3, <3>1, <3>2, ConsiderCases
  <2>4. /\ considered' \subseteq PolicyKeys /\ poolFaults' \in 0..MaxPoolFaults
        /\ UNCHANGED <<cachedPool, listed, sweepPc, swept>>
    BY <1>3 DEF ConsiderPolicy, PoolTypeOK, PoolFault
  <2> QED
    BY <2>2, <2>3, <2>4 DEF PoolTypeOK, Created
<1>4. CASE RestartEngine
  BY <1>4 DEF RestartEngine, PoolTypeOK, Created, PoolFault, Lives
<1>5. ASSUME NEW i \in PolicyIds,
             \/ \E at \in {"Failed", "final"} : EndPolicy(i, at)
             \/ RetryPolicy(i)
             \/ UserDeletes(i)
      PROVE  PoolTypeOK' /\ Created'
  <2>1. pool[i] \in PolicyObjects
    BY <1>5 DEF EndPolicy, RetryPolicy, UserDeletes, PoolTypeOK, Lives, PolicyAt, NoPolicy
  <2>2. /\ pool' \in [PolicyIds -> PolicyObjects \cup {NoPolicy}]
        /\ \A j \in PolicyIds : pool[j] # NoPolicy => pool'[j] # NoPolicy
    BY <1>5, <2>1 DEF EndPolicy, RetryPolicy, UserDeletes, PoolTypeOK, PolicyObjects, PolicyAt,
                      NoPolicy
  <2>3. poolFaults' \in 0..MaxPoolFaults
    BY <1>5 DEF EndPolicy, RetryPolicy, UserDeletes, PoolTypeOK, PoolFault
  <2>4. UNCHANGED <<cachedPool, recent, considered, listed, sweepPc, swept, unrecorded>>
    BY <1>5 DEF EndPolicy, RetryPolicy, UserDeletes
  <2> QED
    BY <2>2, <2>3, <2>4 DEF PoolTypeOK, Created
<1>6. ASSUME NEW i \in PolicyIds, CacheCatchesUp(i) PROVE PoolTypeOK' /\ Created'
  BY <1>6 DEF CacheCatchesUp, PoolTypeOK, Created
<1>7. ASSUME NEW i \in PolicyIds, SweepDeletes(i) PROVE PoolTypeOK' /\ Created'
  <2>1. pool[i] \in PolicyObjects
    BY <1>7 DEF SweepDeletes, PoolTypeOK, Created
  <2>2. /\ pool' \in [PolicyIds -> PolicyObjects \cup {NoPolicy}]
        /\ \A j \in PolicyIds : pool[j] # NoPolicy => pool'[j] # NoPolicy
    BY <1>7, <2>1 DEF SweepDeletes, PoolTypeOK, PolicyObjects, NoPolicy
  <2>3. swept' \in 0..BatchMax /\ DOMAIN listed' \subseteq DOMAIN listed
    BY <1>7 DEF SweepDeletes, Unlist, PoolTypeOK
  <2>4. UNCHANGED <<cachedPool, recent, considered, sweepPc, unrecorded, poolFaults>>
    BY <1>7 DEF SweepDeletes
  <2> QED
    BY <2>2, <2>3, <2>4 DEF PoolTypeOK, Created
<1>8. ASSUME NEW i \in PolicyIds, SweepFails(i) PROVE PoolTypeOK' /\ Created'
  BY <1>8 DEF SweepFails, Unlist, PoolTypeOK, Created
<1>9. CASE StartSweep
  <2>1. DOMAIN listed' \subseteq PolicyIds /\ \A i \in DOMAIN listed' : pool[i] # NoPolicy
    <3>1. DOMAIN listed' = {j \in PolicyIds : Eligible(cachedPool[j])}
      BY <1>9 DEF StartSweep
    <3>2. ~Eligible(NoPolicy)
      BY DEF Eligible, IsTerminal, NoPolicy
    <3> QED
      BY <3>1, <3>2 DEF Created
  <2> QED
    BY <1>9, <2>1 DEF StartSweep, PoolTypeOK, Created
<1>10. CASE EndSweep
  BY <1>10 DEF EndSweep, PoolTypeOK, Created
<1>11. CASE UNCHANGED poolVars
  BY <1>11 DEF poolVars, PoolTypeOK, Created
<1> QED
  BY <1>1, <1>2, <1>3, <1>4, <1>5, <1>6, <1>7, <1>8, <1>9, <1>10, <1>11 DEF PoolNext

\* For any policies, keys and lengths of time the variables keep their types, and nothing is
\* listed or cached that was never created (policy_generator.go:222-264, gc.go:80-140).
THEOREM PolicyPoolTypeOK == PoolSpec => [](PoolTypeOK /\ Created)
<1>1. PoolInit => PoolTypeOK /\ Created
  BY PolicyPoolAssumption DEF PoolInit, PoolTypeOK, Created, NoRecord
<1> QED
  BY <1>1, PoolNextTypes, PTL DEF PoolSpec

-----------------------------------------------------------------------------
(* The collector. *)

Behind ==
  /\ \A i \in PolicyIds : cachedPool[i] # NoPolicy => cachedPool[i].tries <= pool[i].tries
  /\ \A i \in DOMAIN listed : listed[i] \in Nat /\ listed[i] <= pool[i].tries

CacheTrue ==
  \A i \in PolicyIds :
    (IsTerminal(cachedPool[i]) /\ Lives(i) /\ pool[i].tries = cachedPool[i].tries)
      => IsTerminal(pool[i]) /\ pool[i].ended = cachedPool[i].ended

ListTrue ==
  \A i \in DOMAIN listed :
    (Lives(i) /\ pool[i].tries = listed[i])
      => IsTerminal(pool[i]) /\ pool[i].ended > TerminatedTTL

CollectorInv == PoolTypeOK /\ Created /\ Behind /\ CacheTrue /\ ListTrue

\* What time does to an object.
LEMMA AgedFields ==
  ASSUME NEW p \in PolicyObjects
  PROVE  /\ Aged(p).at = p.at /\ Aged(p).tries = p.tries /\ Aged(p).key = p.key
         /\ IsTerminal(p) => Aged(p).ended = Later(p.ended, TerminatedTTL + 1)
         /\ p.at \in PolicyAt => Aged(p).age = Later(p.age, PolicyTTL)
BY DEF Aged, PolicyObjects, PolicyAt, IsTerminal

LEMMA CollectorNext == CollectorInv /\ [PoolNext]_poolVars => CollectorInv'
<1> SUFFICES ASSUME CollectorInv, [PoolNext]_poolVars PROVE CollectorInv'
  OBVIOUS
<1> USE DEF collector, generator
<1>0. PoolTypeOK' /\ Created'
  BY PoolNextTypes DEF CollectorInv
<1>a. /\ pool \in [PolicyIds -> PolicyObjects \cup {NoPolicy}]
      /\ cachedPool \in [PolicyIds -> PolicyObjects \cup {NoPolicy}]
      /\ DOMAIN listed \subseteq PolicyIds
      /\ Created /\ Behind /\ CacheTrue /\ ListTrue
  BY DEF CollectorInv, PoolTypeOK
<1>b. /\ \A p \in PolicyObjects : p.tries \in Nat /\ p.ended \in Nat
      /\ NoPolicy.at = "none" /\ TerminatedTTL \in Nat
  BY PolicyPoolAssumption DEF PolicyObjects, NoPolicy
<1>1. CASE PoolTick
  <2>1. ASSUME NEW i \in PolicyIds, cachedPool[i] # NoPolicy
        PROVE  /\ pool[i] \in PolicyObjects /\ cachedPool[i] \in PolicyObjects
               /\ pool'[i] = Aged(pool[i]) /\ cachedPool'[i] = Aged(cachedPool[i])
    BY <1>1, <1>a, <2>1 DEF PoolTick, Created
  <2>2. ASSUME NEW i \in PolicyIds, cachedPool'[i] # NoPolicy PROVE cachedPool[i] # NoPolicy
    BY <1>1, <1>a, <2>2, AgedTypes DEF PoolTick
  <2>3. ASSUME NEW i \in DOMAIN listed
        PROVE  pool[i] \in PolicyObjects /\ pool'[i] = Aged(pool[i])
    BY <1>1, <1>a DEF PoolTick, Created
  <2>4. listed' = listed
    BY <1>1 DEF PoolTick
  <2>5. Behind'
    BY <1>a, <2>1, <2>2, <2>3, <2>4, AgedFields DEF Behind
  <2>6. CacheTrue'
    <3> SUFFICES ASSUME NEW i \in PolicyIds,
                        IsTerminal(cachedPool'[i]), Lives(i)',
                        pool'[i].tries = cachedPool'[i].tries
                 PROVE  IsTerminal(pool'[i]) /\ pool'[i].ended = cachedPool'[i].ended
      BY DEF CacheTrue
    <3>1. cachedPool[i] # NoPolicy
      BY <1>b, <2>2 DEF IsTerminal
    <3>2. /\ IsTerminal(cachedPool[i]) /\ Lives(i)
          /\ pool[i].tries = cachedPool[i].tries
      BY <2>1, <3>1, AgedFields DEF IsTerminal, Lives
    <3>3. IsTerminal(pool[i]) /\ pool[i].ended = cachedPool[i].ended
      BY <1>a, <3>2 DEF CacheTrue
    <3> QED
      BY <2>1, <3>1, <3>2, <3>3, AgedFields DEF IsTerminal
  <2>7. ListTrue'
    <3> SUFFICES ASSUME NEW i \in DOMAIN listed, Lives(i)', pool'[i].tries = listed[i]
                 PROVE  IsTerminal(pool'[i]) /\ pool'[i].ended > TerminatedTTL
      BY <2>4 DEF ListTrue
    <3>1. Lives(i) /\ pool[i].tries = listed[i]
      BY <2>3, AgedFields DEF Lives
    <3>2. IsTerminal(pool[i]) /\ pool[i].ended > TerminatedTTL
      BY <1>a, <3>1 DEF ListTrue
    <3>3. IsTerminal(pool'[i]) /\ pool'[i].ended = Later(pool[i].ended, TerminatedTTL + 1)
      BY <2>3, <3>2, AgedFields DEF IsTerminal
    <3> QED
      BY <1>b, <2>3, <3>2, <3>3 DEF Later
  <2> QED
    BY <1>0, <2>5, <2>6, <2>7 DEF CollectorInv
<1>2. CASE StartCycle \/ UNCHANGED poolVars
  <2>1. UNCHANGED <<pool, cachedPool, listed>>
    BY <1>2 DEF StartCycle, poolVars
  <2> QED
    BY <1>0, <1>a, <2>1 DEF CollectorInv, Behind, CacheTrue, ListTrue, Lives
<1>3. ASSUME NEW k \in PolicyKeys, ConsiderPolicy(k) PROVE CollectorInv'
  <2>1. UNCHANGED <<cachedPool, listed>>
    BY <1>3 DEF ConsiderPolicy
  <2>2. \A i \in PolicyIds : pool[i] # NoPolicy => pool'[i] = pool[i]
    BY <1>3, <1>a, ConsiderCases DEF CollectorInv
  <2> QED
    BY <1>0, <1>a, <1>b, <2>1, <2>2
       DEF CollectorInv, Behind, CacheTrue, ListTrue, Lives, Created, IsTerminal
<1>4. CASE RestartEngine
  <2>1. cachedPool' = pool /\ pool' = pool /\ listed' = <<>>
    BY <1>4 DEF RestartEngine
  <2> QED
    BY <1>0, <1>a, <1>b, <2>1 DEF CollectorInv, Behind, CacheTrue, ListTrue
<1>5. ASSUME NEW i \in PolicyIds, NEW at \in {"Failed", "final"}, EndPolicy(i, at)
      PROVE  CollectorInv'
  BY <1>0, <1>a, <1>b, <1>5
     DEF EndPolicy, CollectorInv, Behind, CacheTrue, ListTrue, Lives, IsTerminal, PolicyAt, Created
<1>6. ASSUME NEW i \in PolicyIds, RetryPolicy(i) PROVE CollectorInv'
  BY <1>0, <1>a, <1>b, <1>6
     DEF RetryPolicy, CollectorInv, Behind, CacheTrue, ListTrue, Lives, IsTerminal, PolicyAt,
         Created
<1>7. ASSUME NEW i \in PolicyIds, UserDeletes(i) \/ SweepDeletes(i) PROVE CollectorInv'
  <2>1. /\ pool' = [pool EXCEPT ![i].at = "gone"] /\ cachedPool' = cachedPool
        /\ DOMAIN listed' \subseteq DOMAIN listed
        /\ \A j \in DOMAIN listed' : listed'[j] = listed[j]
    BY <1>7 DEF UserDeletes, SweepDeletes, Unlist
  <2>2. pool[i] \in PolicyObjects
    BY <1>7, <1>a, <1>b DEF UserDeletes, SweepDeletes, Lives, PolicyAt, Created
  <2>3. /\ ~Lives(i)' /\ pool'[i].tries = pool[i].tries
        /\ \A j \in PolicyIds \ {i} : pool'[j] = pool[j]
    BY <1>a, <2>1, <2>2 DEF Lives, PolicyAt, PolicyObjects
  <2>4. Behind'
    BY <1>a, <2>1, <2>3 DEF Behind
  <2>5. CacheTrue'
    BY <1>a, <2>1, <2>3 DEF CacheTrue, Lives
  <2>6. ListTrue'
    BY <1>a, <2>1, <2>3 DEF ListTrue, Lives
  <2> QED
    BY <1>0, <2>4, <2>5, <2>6 DEF CollectorInv
<1>8. ASSUME NEW i \in PolicyIds, CacheCatchesUp(i) PROVE CollectorInv'
  BY <1>0, <1>a, <1>b, <1>8
     DEF CacheCatchesUp, CollectorInv, Behind, CacheTrue, ListTrue, Lives
<1>9. ASSUME NEW i \in PolicyIds, SweepFails(i) PROVE CollectorInv'
  BY <1>0, <1>a, <1>9
     DEF SweepFails, Unlist, CollectorInv, Behind, CacheTrue, ListTrue, Lives
<1>10. CASE StartSweep
  <2>1. /\ UNCHANGED <<pool, cachedPool>>
        /\ DOMAIN listed' \subseteq PolicyIds
        /\ \A i \in DOMAIN listed' : /\ Eligible(cachedPool[i])
                                     /\ listed'[i] = cachedPool[i].tries
    BY <1>10 DEF StartSweep
  <2>2. \A i \in DOMAIN listed' : cachedPool[i] # NoPolicy /\ cachedPool[i] \in PolicyObjects
    BY <1>a, <1>b, <2>1 DEF Eligible, IsTerminal
  <2> QED
    BY <1>0, <1>a, <1>b, <2>1, <2>2
       DEF CollectorInv, Behind, CacheTrue, ListTrue, Lives, Eligible
<1>11. CASE EndSweep
  <2>1. UNCHANGED <<pool, cachedPool>> /\ listed' = <<>>
    BY <1>11 DEF EndSweep
  <2> QED
    BY <1>0, <1>a, <2>1 DEF CollectorInv, Behind, CacheTrue, ListTrue, Lives
<1> QED
  BY <1>1, <1>2, <1>3, <1>4, <1>5, <1>6, <1>7, <1>8, <1>9, <1>10, <1>11 DEF PoolNext

LEMMA CollectorInit == PoolInit => CollectorInv
<1> SUFFICES ASSUME PoolInit PROVE CollectorInv
  OBVIOUS
<1>1. PoolTypeOK /\ Created
  BY PolicyPoolAssumption DEF PoolInit, PoolTypeOK, Created, NoRecord
<1>2. /\ \A i \in PolicyIds : pool[i] = NoPolicy /\ cachedPool[i] = NoPolicy
      /\ listed = <<>>
  BY DEF PoolInit
<1> QED
  BY <1>1, <1>2 DEF CollectorInv, Behind, CacheTrue, ListTrue, IsTerminal, NoPolicy

\* For any policies, lag of the cache, failing calls and restarts: what the collector deletes
\* ended longer ago than the TTL, or was retried since the list was true (gc.go:93, 121).
THEOREM PolicyPoolSweepsOnlyEnded == PoolSpec => SweepsOnlyEnded
<1>1. CollectorInv /\ [PoolNext]_poolVars =>
        [\A i \in PolicyIds :
           (SweepDeletes(i) /\ Lives(i))
             => \/ IsTerminal(pool[i]) /\ pool[i].ended > TerminatedTTL
                \/ pool[i].tries # listed[i]]_poolVars
  BY DEF CollectorInv, ListTrue, SweepDeletes
<1> QED
  BY <1>1, CollectorInit, CollectorNext, PTL DEF PoolSpec, SweepsOnlyEnded

-----------------------------------------------------------------------------
(* The generator. *)

\* The memory holds every young policy that was recorded, and as no older than it is.
Remembered ==
  \A i \in PolicyIds :
    (Lives(i) /\ i \notin unrecorded /\ pool[i].age < PolicyTTL)
      => recent[pool[i].key] # NoRecord /\ recent[pool[i].key] <= pool[i].age

GeneratorInv == PoolTypeOK /\ Created /\ Remembered

\* Pruning keeps the records that Remembered is about.
LEMMA CleanKeeps ==
  ASSUME NEW r \in [PolicyKeys -> {NoRecord} \cup 0..(PolicyTTL + 1)], NEW k \in PolicyKeys,
         r[k] <= PolicyTTL
  PROVE  Clean(r)[k] = r[k]
BY PolicyPoolAssumption DEF Clean, NoRecord

LEMMA GeneratorNext == GeneratorInv /\ [PoolNext]_poolVars => GeneratorInv'
<1> SUFFICES ASSUME GeneratorInv, [PoolNext]_poolVars PROVE GeneratorInv'
  OBVIOUS
<1> USE DEF collector, generator
<1>0. PoolTypeOK' /\ Created'
  BY PoolNextTypes DEF GeneratorInv
<1>a. /\ pool \in [PolicyIds -> PolicyObjects \cup {NoPolicy}]
      /\ recent \in [PolicyKeys -> {NoRecord} \cup 0..(PolicyTTL + 1)]
      /\ PolicyTTL \in Nat \ {0}
      /\ Remembered
  BY PolicyPoolAssumption DEF GeneratorInv, PoolTypeOK
<1>b. \A i \in PolicyIds : Lives(i) => /\ pool[i] \in PolicyObjects /\ pool[i].key \in PolicyKeys
                                       /\ pool[i].age \in 0..PolicyTTL
  BY <1>a DEF Lives, PolicyAt, PolicyObjects, NoPolicy
<1>1. CASE PoolTick
  <2> SUFFICES ASSUME NEW i \in PolicyIds, Lives(i)', i \notin unrecorded',
                      pool'[i].age < PolicyTTL
               PROVE  /\ recent'[pool'[i].key] # NoRecord
                      /\ recent'[pool'[i].key] <= pool'[i].age
    BY <1>0 DEF GeneratorInv, Remembered
  <2>1. pool'[i] = Aged(pool[i]) /\ unrecorded' = unrecorded
    BY <1>1 DEF PoolTick
  <2>2. Lives(i) /\ pool[i] \in PolicyObjects
    BY <1>a, <1>b, <2>1, AgedTypes DEF Lives
  <2>3. pool'[i].key = pool[i].key /\ pool'[i].age = Later(pool[i].age, PolicyTTL)
    BY <2>1, <2>2, AgedFields DEF Lives
  <2>4. pool[i].age < PolicyTTL /\ pool'[i].age = pool[i].age + 1
    BY <1>a, <1>b, <2>2, <2>3 DEF Later
  <2>5. recent[pool[i].key] # NoRecord /\ recent[pool[i].key] <= pool[i].age
    BY <1>a, <2>1, <2>2, <2>4 DEF Remembered
  <2>6. recent'[pool[i].key] = recent[pool[i].key] + 1
    BY <1>1, <1>a, <1>b, <2>2, <2>4, <2>5 DEF PoolTick, Later, NoRecord
  <2> QED
    BY <1>a, <1>b, <2>2, <2>3, <2>4, <2>5, <2>6 DEF NoRecord
<1>2. CASE StartCycle \/ StartSweep \/ EndSweep \/ UNCHANGED poolVars
  <2>1. UNCHANGED <<pool, recent, unrecorded>>
    BY <1>2 DEF StartCycle, StartSweep, EndSweep, poolVars
  <2> QED
    BY <1>0, <1>a, <2>1 DEF GeneratorInv, Remembered, Lives
<1>3. ASSUME NEW k \in PolicyKeys, ConsiderPolicy(k) PROVE GeneratorInv'
  <2>1. ASSUME UNCHANGED pool, unrecorded' = unrecorded, recent' \in {recent, Clean(recent)}
        PROVE  Remembered'
    <3>1. ASSUME NEW i \in PolicyIds, Lives(i), i \notin unrecorded, pool[i].age < PolicyTTL
          PROVE  recent'[pool[i].key] = recent[pool[i].key]
      <4>1. recent[pool[i].key] <= PolicyTTL
        BY <1>a, <1>b, <3>1 DEF Remembered, NoRecord
      <4> QED
        BY <1>a, <1>b, <2>1, <3>1, <4>1, CleanKeeps
    <3> QED
      BY <1>a, <2>1, <3>1 DEF Remembered, Lives
  <2>2. ASSUME NEW n \in PolicyIds, pool[n] = NoPolicy,
               pool' = [pool EXCEPT ![n] = [at |-> "active", key |-> k, age |-> 0,
                                            ended |-> 0, tries |-> 0]],
               \/ /\ recent' \in {[recent EXCEPT ![k] = 0], Clean([recent EXCEPT ![k] = 0])}
                  /\ UNCHANGED unrecorded
               \/ /\ recent' \in {recent, Clean(recent)}
                  /\ unrecorded' = unrecorded \cup {n}
        PROVE  Remembered'
    <3> DEFINE r == [recent EXCEPT ![k] = 0]
    <3>1. /\ r \in [PolicyKeys -> {NoRecord} \cup 0..(PolicyTTL + 1)]
          /\ r[k] = 0 /\ r[k] <= PolicyTTL
      BY <1>a
    <3>2. Clean(r)[k] = 0
      <4> HIDE DEF r
      <4> QED
        BY <3>1, CleanKeeps
    <3>3. CASE recent' \in {r, Clean(r)} /\ unrecorded' = unrecorded
      <4>1. recent'[k] = 0
        BY <3>1, <3>2, <3>3
      <4>2. ASSUME NEW i \in PolicyIds, Lives(i), i \notin unrecorded,
                   pool[i].age < PolicyTTL, pool[i].key # k
            PROVE  recent'[pool[i].key] = recent[pool[i].key]
        <5>1. r[pool[i].key] = recent[pool[i].key] /\ recent[pool[i].key] <= PolicyTTL
          BY <1>a, <1>b, <4>2 DEF Remembered, NoRecord
        <5> QED
          BY <1>a, <1>b, <3>1, <3>3, <4>2, <5>1, CleanKeeps
      <4>3. \A i \in PolicyIds : i # n => pool'[i] = pool[i]
        BY <1>a, <2>2
      <4>4. pool'[n].key = k /\ pool'[n].age = 0
        BY <1>a, <2>2
      <4> SUFFICES ASSUME NEW i \in PolicyIds, Lives(i)', i \notin unrecorded',
                          pool'[i].age < PolicyTTL
                   PROVE  /\ recent'[pool'[i].key] # NoRecord
                          /\ recent'[pool'[i].key] <= pool'[i].age
        BY DEF Remembered
      <4>5. CASE i = n
        BY <4>1, <4>4, <4>5 DEF NoRecord
      <4>6. CASE i # n /\ pool[i].key = k
        BY <1>b, <4>1, <4>3, <4>6 DEF NoRecord, Lives
      <4>7. CASE i # n /\ pool[i].key # k
        BY <1>a, <3>3, <4>2, <4>3, <4>7 DEF Remembered, Lives
      <4> QED
        BY <4>5, <4>6, <4>7
    <3>4. CASE recent' \in {recent, Clean(recent)} /\ unrecorded' = unrecorded \cup {n}
      <4>1. ASSUME NEW i \in PolicyIds, Lives(i), i \notin unrecorded, pool[i].age < PolicyTTL
            PROVE  recent'[pool[i].key] = recent[pool[i].key]
        <5>1. recent[pool[i].key] <= PolicyTTL
          BY <1>a, <1>b, <4>1 DEF Remembered, NoRecord
        <5> QED
          BY <1>a, <1>b, <3>4, <4>1, <5>1, CleanKeeps
      <4>2. \A i \in PolicyIds : i # n => pool'[i] = pool[i]
        BY <1>a, <2>2
      <4> QED
        BY <1>a, <3>4, <4>1, <4>2 DEF Remembered, Lives
    <3> QED
      BY <2>2, <3>3, <3>4
  <2>3. GeneratorInv => PoolTypeOK
    BY DEF GeneratorInv
  <2> QED
    BY <1>0, <1>3, <2>1, <2>2, <2>3, ConsiderCases DEF GeneratorInv
<1>4. CASE RestartEngine
  <2>1. pool' = pool /\ \A i \in PolicyIds : Lives(i) => i \in unrecorded'
    BY <1>4 DEF RestartEngine
  <2> QED
    BY <1>0, <2>1 DEF GeneratorInv, Remembered, Lives
<1>5. ASSUME NEW i \in PolicyIds,
             \/ \E at \in {"Failed", "final"} : EndPolicy(i, at)
             \/ RetryPolicy(i) \/ UserDeletes(i) \/ SweepDeletes(i)
      PROVE  GeneratorInv'
  <2>1. UNCHANGED <<recent, unrecorded>>
    BY <1>5 DEF EndPolicy, RetryPolicy, UserDeletes, SweepDeletes
  <2>2. pool[i] \in PolicyObjects
    BY <1>5, <1>a, <1>b
       DEF EndPolicy, RetryPolicy, UserDeletes, SweepDeletes, Lives, PolicyAt, GeneratorInv, Created,
           NoPolicy
  <2>3. /\ pool'[i].key = pool[i].key /\ pool'[i].age = pool[i].age
        /\ Lives(i)' => Lives(i)
        /\ \A j \in PolicyIds \ {i} : pool'[j] = pool[j]
    BY <1>5, <1>a, <2>2
       DEF EndPolicy, RetryPolicy, UserDeletes, SweepDeletes, Lives, PolicyAt, PolicyObjects
  <2> QED
    BY <1>0, <1>a, <2>1, <2>3 DEF GeneratorInv, Remembered, Lives
<1>6. ASSUME NEW i \in PolicyIds, CacheCatchesUp(i) \/ SweepFails(i) PROVE GeneratorInv'
  <2>1. UNCHANGED <<pool, recent, unrecorded>>
    BY <1>6 DEF CacheCatchesUp, SweepFails
  <2> QED
    BY <1>0, <1>a, <2>1 DEF GeneratorInv, Remembered, Lives
<1> QED
  BY <1>1, <1>2, <1>3, <1>4, <1>5, <1>6 DEF PoolNext

\* Only ConsiderPolicy creates, and only without a young record.
LEMMA CreatesOnce ==
  ASSUME GeneratorInv, PoolNext, NEW i \in PolicyIds, NEW j \in PolicyIds,
         pool[j] = NoPolicy, pool'[j] # NoPolicy, Lives(i), pool[i].key = pool'[j].key
  PROVE  pool[i].age >= PolicyTTL \/ i \in unrecorded
<1> USE DEF collector, generator
<1>1. /\ pool \in [PolicyIds -> PolicyObjects \cup {NoPolicy}]
      /\ recent \in [PolicyKeys -> {NoRecord} \cup 0..(PolicyTTL + 1)]
      /\ PolicyTTL \in Nat
      /\ PoolTypeOK /\ Remembered /\ Created
  BY PolicyPoolAssumption DEF GeneratorInv, PoolTypeOK
<1>2. pool[i].key \in PolicyKeys /\ pool[i].age \in Nat
  BY <1>1, PolicyPoolAssumption DEF Lives, PolicyAt, PolicyObjects, NoPolicy
<1>3. ~UNCHANGED pool
  OBVIOUS
<1>4. ~PoolTick
  <2>1. Aged(NoPolicy) = NoPolicy
    BY AgedTypes
  <2> QED
    BY <2>1 DEF PoolTick
<1>5. ASSUME NEW l \in PolicyIds,
             \/ \E at \in {"Failed", "final"} : EndPolicy(l, at)
             \/ RetryPolicy(l) \/ UserDeletes(l) \/ SweepDeletes(l)
      PROVE  FALSE
  <2>1. pool[l] # NoPolicy
    BY <1>1, <1>5
       DEF EndPolicy, RetryPolicy, UserDeletes, SweepDeletes, Lives, PolicyAt, Created, NoPolicy
  <2>2. \A m \in PolicyIds \ {l} : pool'[m] = pool[m]
    BY <1>1, <1>5 DEF EndPolicy, RetryPolicy, UserDeletes, SweepDeletes
  <2> QED
    BY <2>1, <2>2
<1>6. \E k \in PolicyKeys : ConsiderPolicy(k)
  BY <1>3, <1>4, <1>5
     DEF PoolNext, StartCycle, RestartEngine, CacheCatchesUp, SweepFails, StartSweep, EndSweep
<1>7. PICK k \in PolicyKeys : ConsiderPolicy(k)
  BY <1>6
<1>8. PICK n \in PolicyIds :
        /\ ~IsDuplicatePolicy(k)
        /\ pool' = [pool EXCEPT ![n] =
             [at |-> "active", key |-> k, age |-> 0, ended |-> 0, tries |-> 0]]
  BY <1>1, <1>3, <1>7, ConsiderCases
<1>9. pool[i].key = k
  BY <1>1, <1>8
<1> QED
  BY <1>1, <1>2, <1>8, <1>9 DEF IsDuplicatePolicy, Remembered, NoRecord

\* For any keys, lengths of time, pruning, failing calls and restarts: a policy like a young
\* one is created only if that one is not in the generator's memory, for want of an answer
\* or since a restart (policy_generator.go:227, 562).
THEOREM PolicyPoolRepeatsHaveCause == PoolSpec => RepeatsHaveCause
<1>1. PoolInit => GeneratorInv
  <2> SUFFICES ASSUME PoolInit PROVE GeneratorInv
    OBVIOUS
  <2>1. PoolTypeOK /\ Created
    BY CollectorInit DEF CollectorInv
  <2>2. \A i \in PolicyIds : ~Lives(i)
    BY DEF PoolInit, Lives, PolicyAt, NoPolicy
  <2> QED
    BY <2>1, <2>2 DEF GeneratorInv, Remembered
<1>2. GeneratorInv /\ [PoolNext]_poolVars =>
        [\A i, j \in PolicyIds :
           (/\ pool[j] = NoPolicy /\ pool'[j] # NoPolicy
            /\ Lives(i) /\ pool[i].key = pool'[j].key)
             => pool[i].age >= PolicyTTL \/ i \in unrecorded]_poolVars
  BY CreatesOnce
<1> QED
  BY <1>1, <1>2, GeneratorNext, PTL DEF PoolSpec, RepeatsHaveCause
=============================================================================
