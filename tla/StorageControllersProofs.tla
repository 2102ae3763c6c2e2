---------------------- MODULE StorageControllersProofs ----------------------
(***************************************************************************)
(* What the checked runs show of two provisionings and two caches holds    *)
(* for every number of requests, workloads, caches, tiers, concurrent      *)
(* DELETE requests and crashes.                                            *)
(*                                                                         *)
(* Provisioning: the types, the gauge of the work in progress, and that    *)
(* what stays behind in the cluster has a cause.  LeavingsHaveCause is not *)
(* inductive: it needs to know where a creation that may still land comes  *)
(* from (LandingExcused), what the DELETE requests in progress have done   *)
(* already (DeletersKnow), and that a binder pod without a cause still has *)
(* its goroutine (BindersHeld).                                            *)
(*                                                                         *)
(* Caching: the types, the gauges count what is recorded, a prefetch pod   *)
(* that stays has a cause, and data is accounted for once.  All but the    *)
(* last are inductive with the types; that one needs that nothing has been *)
(* loaded before the loader's last step (NotLoadedYet): the load           *)
(* overwrites the size, and would lose what an earlier one had put there.  *)
(***************************************************************************)
EXTENDS Provisioning, Caching, FiniteSetTheorems, TLAPS

-----------------------------------------------------------------------------
(* Provisioning: types. *)

LEMMA InitTypes == ProvInit => ProvTypeOK
BY ProvisioningAssumption
   DEF ProvInit, ProvTypeOK, Unsettled, NoPVC, IdleDeleter

\* The goroutine of a provisioning.
LEMMA ExecuteTypes ==
  ASSUME ProvTypeOK, NEW r \in Provisionings, ExecuteProvisioning(r)
  PROVE  ProvTypeOK'
<1> USE ProvisioningAssumption
    DEF ProvTypeOK, ProvGoto, SetProvStatus, FailProvisioning, Unsettled, NoPVC, IdleDeleter,
        provRecords, provBinding
<1>1. CASE BeginProvisioning(r)
  BY <1>1 DEF BeginProvisioning
<1>2. CASE SendPVC(r)
  BY <1>2 DEF SendPVC
<1>3. CASE LandPVC(r)
  BY <1>3 DEF LandPVC
<1>4. CASE BindPVC(r)
  BY <1>4 DEF BindPVC
<1>5. CASE WaitPVC(r)
  BY <1>5 DEF WaitPVC
<1>6. CASE ReadyProvisioning(r)
  BY <1>6 DEF ReadyProvisioning
<1>7. CASE SettleProvisioning(r)
  BY <1>7 DEF SettleProvisioning
<1>8. CASE Unbind(r)
  BY <1>8 DEF Unbind
<1> QED
  BY <1>1, <1>2, <1>3, <1>4, <1>5, <1>6, <1>7, <1>8 DEF ExecuteProvisioning

LEMMA NextTypes == ProvTypeOK /\ [ProvNext]_provVars => ProvTypeOK'
<1> SUFFICES ASSUME ProvTypeOK, [ProvNext]_provVars PROVE ProvTypeOK'
  OBVIOUS
<1> USE ProvisioningAssumption
    DEF ProvTypeOK, ProvGoto, Unsettled, NoPVC, IdleDeleter, provRecords, provBinding
<1>1. ASSUME NEW r \in Provisionings, CreateProvisioning(r) PROVE ProvTypeOK'
  BY <1>1 DEF CreateProvisioning
<1>2. ASSUME NEW r \in Provisionings, ExecuteProvisioning(r) PROVE ProvTypeOK'
  BY <1>2, ExecuteTypes
<1>3. ASSUME NEW r \in Provisionings, LandLate(r) PROVE ProvTypeOK'
  BY <1>3 DEF LandLate
<1>4. ASSUME NEW r \in Provisionings, NEW d \in Deleters, DeleteProvisioning(d, r)
      PROVE  ProvTypeOK'
  BY <1>4 DEF DeleteProvisioning
<1>5. ASSUME NEW d \in Deleters, DeletePVC(d) PROVE ProvTypeOK'
  BY <1>5 DEF DeletePVC
<1>6. ASSUME NEW d \in Deleters, ForgetProvisioning(d) PROVE ProvTypeOK'
  BY <1>6 DEF ForgetProvisioning
<1>7. CASE CrashProvisioning
  BY <1>7 DEF CrashProvisioning
<1>8. CASE UNCHANGED provVars
  BY <1>8 DEF provVars
<1> QED
  BY <1>1, <1>2, <1>3, <1>4, <1>5, <1>6, <1>7, <1>8 DEF ProvNext

\* For any requests, workloads, deleters and crashes the variables keep their types
\* (provisioning.go:48-60, 225-640).
THEOREM ProvisioningTypeOK == ProvSpec => []ProvTypeOK
BY InitTypes, NextTypes, PTL DEF ProvSpec

-----------------------------------------------------------------------------
(* Provisioning: the gauge. *)

Working == {r \in Provisionings : provPc[r] \in Unsettled}

LEMMA WorkingFinite == IsFiniteSet(Working) /\ IsFiniteSet(Working')
BY ProvisioningAssumption, FS_Subset DEF Working

\* A step of the goroutine before its last critical section leaves it at work.
LEMMA ExecuteGauge ==
  ASSUME ProvTypeOK, ActiveIsUnsettledLessDeletes,
         NEW r \in Provisionings, ExecuteProvisioning(r)
  PROVE  ActiveIsUnsettledLessDeletes'
<1> USE DEF ProvGoto, FailProvisioning, provRecords
<1>1. provPc \in [Provisionings -> Unsettled \cup {"idle", "unbind", "over"}]
      /\ provActive \in Int /\ provDeletes \in Nat
  BY DEF ProvTypeOK
<1>2. CASE SettleProvisioning(r)
  <2>1. r \in Working /\ Working' = Working \ {r}
    BY <1>1, <1>2 DEF SettleProvisioning, Working, Unsettled
  <2>2. Cardinality(Working') = Cardinality(Working) - 1
    BY <2>1, WorkingFinite, FS_RemoveElement
  <2>3. Cardinality(Working) \in Nat
    BY WorkingFinite, FS_CardinalityType
  <2> QED
    BY <1>1, <1>2, <2>2, <2>3
       DEF SettleProvisioning, ActiveIsUnsettledLessDeletes, Working
<1>3. CASE Unbind(r)
  <2>1. Working' = Working
    BY <1>1, <1>3 DEF Unbind, Working, Unsettled
  <2> QED
    BY <1>3, <2>1 DEF Unbind, ActiveIsUnsettledLessDeletes, Working
<1>4. CASE BeginProvisioning(r) \/ SendPVC(r) \/ LandPVC(r) \/ BindPVC(r)
           \/ WaitPVC(r) \/ ReadyProvisioning(r)
  <2>1. Working' = Working /\ UNCHANGED <<provActive, provDeletes>>
    BY <1>1, <1>4
       DEF BeginProvisioning, SendPVC, LandPVC, BindPVC, WaitPVC, ReadyProvisioning,
           Working, Unsettled
  <2> QED
    BY <2>1 DEF ActiveIsUnsettledLessDeletes, Working
<1> QED
  BY <1>2, <1>3, <1>4 DEF ExecuteProvisioning

LEMMA NextGauge ==
  ProvTypeOK /\ ActiveIsUnsettledLessDeletes /\ [ProvNext]_provVars
    => ActiveIsUnsettledLessDeletes'
<1> SUFFICES ASSUME ProvTypeOK, ActiveIsUnsettledLessDeletes, [ProvNext]_provVars
             PROVE  ActiveIsUnsettledLessDeletes'
  OBVIOUS
<1>1. provPc \in [Provisionings -> Unsettled \cup {"idle", "unbind", "over"}]
      /\ provActive \in Int /\ provDeletes \in Nat
  BY DEF ProvTypeOK
<1>2. Cardinality(Working) \in Nat
  BY WorkingFinite, FS_CardinalityType
<1>3. ASSUME NEW r \in Provisionings, CreateProvisioning(r)
      PROVE  ActiveIsUnsettledLessDeletes'
  <2>1. r \notin Working /\ Working' = Working \cup {r}
    BY <1>1, <1>3 DEF CreateProvisioning, ProvGoto, Working, Unsettled
  <2>2. Cardinality(Working') = Cardinality(Working) + 1
    BY <2>1, WorkingFinite, FS_AddElement
  <2> QED
    BY <1>1, <1>2, <1>3, <2>2
       DEF CreateProvisioning, ActiveIsUnsettledLessDeletes, Working
<1>4. ASSUME NEW r \in Provisionings, ExecuteProvisioning(r)
      PROVE  ActiveIsUnsettledLessDeletes'
  BY <1>4, ExecuteGauge
<1>5. ASSUME NEW d \in Deleters, ForgetProvisioning(d)
      PROVE  ActiveIsUnsettledLessDeletes'
  <2>1. Working' = Working
    BY <1>5 DEF ForgetProvisioning, Working
  <2> QED
    BY <1>1, <1>2, <1>5, <2>1
       DEF ForgetProvisioning, ActiveIsUnsettledLessDeletes, Working
<1>6. CASE \/ \E r \in Provisionings : LandLate(r)
           \/ \E r \in Provisionings, d \in Deleters : DeleteProvisioning(d, r)
           \/ \E d \in Deleters : DeletePVC(d)
           \/ UNCHANGED provVars
  <2>1. UNCHANGED <<provPc, provActive, provDeletes>>
    BY <1>6 DEF LandLate, DeleteProvisioning, DeletePVC, provVars, provRecords
  <2> QED
    BY <2>1 DEF ActiveIsUnsettledLessDeletes
<1>7. CASE CrashProvisioning
  <2>1. Working' = {}
    BY <1>7 DEF CrashProvisioning, Working, Unsettled
  <2>2. Cardinality(Working') = 0
    BY <2>1, FS_EmptySet
  <2> QED
    BY <1>7, <2>2 DEF CrashProvisioning, ActiveIsUnsettledLessDeletes, Working
<1> QED
  BY <1>3, <1>4, <1>5, <1>6, <1>7 DEF ProvNext

\* For any requests, DELETE requests and crashes the gauge of active provisionings is the
\* goroutines at work less the DELETE requests served (provisioning.go:246, 370, 395, 412,
\* 632).
THEOREM ProvisioningGauge == ProvSpec => []ActiveIsUnsettledLessDeletes
<1>1. ProvInit => ActiveIsUnsettledLessDeletes
  <2> SUFFICES ASSUME ProvInit PROVE ActiveIsUnsettledLessDeletes
    OBVIOUS
  <2>1. Working = {}
    BY DEF ProvInit, Working, Unsettled
  <2> QED
    BY <2>1, FS_EmptySet DEF ProvInit, ActiveIsUnsettledLessDeletes, Working
<1> QED
  BY <1>1, NextGauge, ProvisioningTypeOK, PTL DEF ProvSpec

-----------------------------------------------------------------------------
(* Provisioning: what stays behind. *)

\* The creations that may still land when their record is gone.
LandingExcused ==
  /\ \A r \in lateCreate : r \in provExcused /\ provPc[r] # "idle"
  /\ \A r \in provStopped : provPc[r] = "landing" => r \in provExcused

\* A record disappears behind a goroutine only after the cancellation.
ForgottenStopped ==
  \A r \in Provisionings :
    (provStatus[r] = "unknown" /\ provPc[r] \notin {"idle", "over"}) => r \in provStopped

\* A PVC in the place of a workload was created for it.
PVCsPlaced ==
  \A w \in Workloads :
    pvcOf[w] # NoPVC => WorkloadOf[pvcOf[w]] = w /\ provPc[pvcOf[w]] # "idle"

\* A DELETE request has cancelled its goroutine, and when it comes to forget the record,
\* its PVC is gone or will be missed for a cause.
DeletersKnow ==
  \A d \in Deleters : deleter[d] # IdleDeleter =>
    LET r == deleter[d].job IN
      /\ r \in provStopped
      /\ provPc[r] # "idle"
      /\ (deleter[d].at = "forget" /\ pvcOf[WorkloadOf[r]] = r /\ r # NoPVC)
           => r \in provExcused

\* A binder pod without a cause has a goroutine that will delete it.
BindersHeld ==
  \A r \in binders : r \in provExcused \/ (r \in unbinding /\ provPc[r] \notin {"idle", "over"})

PVCsHaveCause ==
  \A w \in Workloads : LET r == pvcOf[w] IN
    (r # NoPVC /\ provStatus[r] = "unknown") => r \in provExcused

RecordsCreated == \A r \in Provisionings : provStatus[r] # "unknown" => provPc[r] # "idle"

ProvInv ==
  /\ ProvTypeOK
  /\ LandingExcused
  /\ ForgottenStopped
  /\ PVCsPlaced
  /\ DeletersKnow
  /\ BindersHeld
  /\ PVCsHaveCause
  /\ RecordsCreated

LEMMA InitInv == ProvInit => ProvInv
<1> SUFFICES ASSUME ProvInit PROVE ProvInv
  OBVIOUS
<1>1. ProvTypeOK
  BY InitTypes
<1> QED
  BY <1>1 DEF ProvInit, ProvInv, LandingExcused, ForgottenStopped, PVCsPlaced, DeletersKnow,
              BindersHeld, PVCsHaveCause, RecordsCreated

\* The goroutine: a landing creation of a stopped provisioning is excused already, and
\* only the goroutine itself deletes its binder pod.
LEMMA ExecuteInv ==
  ASSUME ProvInv, NEW r \in Provisionings, ExecuteProvisioning(r)
  PROVE  ProvInv'
<1> USE ProvisioningAssumption
    DEF ProvGoto, SetProvStatus, FailProvisioning, provRecords, provBinding
<1>0. ProvTypeOK'
  BY ExecuteTypes DEF ProvInv
<1>1. CASE BeginProvisioning(r) \/ ReadyProvisioning(r) \/ SettleProvisioning(r)
  BY <1>0, <1>1
     DEF ProvInv, ProvTypeOK, LandingExcused, ForgottenStopped, PVCsPlaced, DeletersKnow,
         BindersHeld, PVCsHaveCause, RecordsCreated, BeginProvisioning, ReadyProvisioning,
         SettleProvisioning
<1>2. CASE SendPVC(r) \/ WaitPVC(r)
  BY <1>0, <1>2
     DEF ProvInv, ProvTypeOK, LandingExcused, ForgottenStopped, PVCsPlaced, DeletersKnow,
         BindersHeld, PVCsHaveCause, RecordsCreated, SendPVC, WaitPVC
<1>3. CASE LandPVC(r)
  BY <1>0, <1>3
     DEF ProvInv, ProvTypeOK, LandingExcused, ForgottenStopped, PVCsPlaced, DeletersKnow,
         BindersHeld, PVCsHaveCause, RecordsCreated, LandPVC
<1>4. CASE BindPVC(r)
  BY <1>0, <1>4
     DEF ProvInv, ProvTypeOK, LandingExcused, ForgottenStopped, PVCsPlaced, DeletersKnow,
         BindersHeld, PVCsHaveCause, RecordsCreated, BindPVC
<1>5. CASE Unbind(r)
  BY <1>0, <1>5
     DEF ProvInv, ProvTypeOK, LandingExcused, ForgottenStopped, PVCsPlaced, DeletersKnow,
         BindersHeld, PVCsHaveCause, RecordsCreated, Unbind
<1> QED
  BY <1>1, <1>2, <1>3, <1>4, <1>5 DEF ExecuteProvisioning

LEMMA NextInv == ProvInv /\ [ProvNext]_provVars => ProvInv'
<1> SUFFICES ASSUME ProvInv, [ProvNext]_provVars PROVE ProvInv'
  OBVIOUS
<1> USE ProvisioningAssumption DEF ProvGoto, provRecords, provBinding
<1>0. ProvTypeOK'
  BY NextTypes DEF ProvInv
<1>1. ASSUME NEW r \in Provisionings, CreateProvisioning(r) PROVE ProvInv'
  BY <1>0, <1>1
     DEF ProvInv, ProvTypeOK, LandingExcused, ForgottenStopped, PVCsPlaced, DeletersKnow,
         BindersHeld, PVCsHaveCause, RecordsCreated, CreateProvisioning
<1>2. ASSUME NEW r \in Provisionings, ExecuteProvisioning(r) PROVE ProvInv'
  BY <1>2, ExecuteInv
<1>3. ASSUME NEW r \in Provisionings, LandLate(r) PROVE ProvInv'
  BY <1>0, <1>3
     DEF ProvInv, ProvTypeOK, LandingExcused, ForgottenStopped, PVCsPlaced, DeletersKnow,
         BindersHeld, PVCsHaveCause, RecordsCreated, LandLate
<1>4. ASSUME NEW r \in Provisionings, NEW d \in Deleters, DeleteProvisioning(d, r)
      PROVE  ProvInv'
  BY <1>0, <1>4
     DEF ProvInv, ProvTypeOK, LandingExcused, ForgottenStopped, PVCsPlaced, DeletersKnow,
         BindersHeld, PVCsHaveCause, RecordsCreated, DeleteProvisioning, IdleDeleter
<1>5. ASSUME NEW d \in Deleters, DeletePVC(d) PROVE ProvInv'
  BY <1>0, <1>5
     DEF ProvInv, ProvTypeOK, LandingExcused, ForgottenStopped, PVCsPlaced, DeletersKnow,
         BindersHeld, PVCsHaveCause, RecordsCreated, DeletePVC, IdleDeleter
<1>6. ASSUME NEW d \in Deleters, ForgetProvisioning(d) PROVE ProvInv'
  BY <1>0, <1>6
     DEF ProvInv, ProvTypeOK, LandingExcused, ForgottenStopped, PVCsPlaced, DeletersKnow,
         BindersHeld, PVCsHaveCause, RecordsCreated, ForgetProvisioning, IdleDeleter
<1>7. CASE CrashProvisioning
  BY <1>0, <1>7
     DEF ProvInv, ProvTypeOK, LandingExcused, ForgottenStopped, PVCsPlaced, DeletersKnow,
         BindersHeld, PVCsHaveCause, RecordsCreated, CrashProvisioning
<1>8. CASE UNCHANGED provVars
  BY <1>0, <1>8
     DEF ProvInv, ProvTypeOK, LandingExcused, ForgottenStopped, PVCsPlaced, DeletersKnow,
         BindersHeld, PVCsHaveCause, RecordsCreated, provVars
<1> QED
  BY <1>1, <1>2, <1>3, <1>4, <1>5, <1>6, <1>7, <1>8 DEF ProvNext

\* For any requests, deleters and crashes: a PVC whose provisioning is not recorded any
\* more and a binder pod that nobody will delete were left by a call that failed or had no
\* answer, a crash, or a DELETE request that overtook the creation (provisioning.go:356,
\* 386, 613, 626).
THEOREM ProvisioningLeavings == ProvSpec => []LeavingsHaveCause
<1>1. ProvInv => LeavingsHaveCause
  BY DEF ProvInv, BindersHeld, PVCsHaveCause, LeavingsHaveCause
<1> QED
  BY <1>1, InitInv, NextInv, PTL DEF ProvSpec

-----------------------------------------------------------------------------
(* Caching: types. *)

\* The goroutine of a cache.
LEMMA RunTypes ==
  ASSUME CacheTypeOK, NEW c \in Caches, RunCacheJob(c)
  PROVE  CacheTypeOK'
<1> USE CachingAssumption
    DEF CacheTypeOK, LoaderGoto, SetCacheStatus, LoaderStates, cacheRecords, cacheData,
        cachePods, cacheEvictions
<1>1. CASE BeginLoad(c)
  BY <1>1 DEF BeginLoad
<1>2. CASE CheckCancelled(c)
  BY <1>2 DEF CheckCancelled
<1>3. CASE CreatePrefetchPod(c)
  BY <1>3 DEF CreatePrefetchPod
<1>4. CASE ScanSource(c)
  BY <1>4 DEF ScanSource
<1>5. CASE FinishPrefetch(c)
  BY <1>5 DEF FinishPrefetch
<1>6. CASE MarkJobFailed(c)
  BY <1>6 DEF MarkJobFailed
<1>7. CASE StopStats(c)
  BY <1>7 DEF StopStats
<1> QED
  BY <1>1, <1>2, <1>3, <1>4, <1>5, <1>6, <1>7 DEF RunCacheJob

LEMMA CacheNextTypes == CacheTypeOK /\ [CacheNext]_cacheVars => CacheTypeOK'
<1> SUFFICES ASSUME CacheTypeOK, [CacheNext]_cacheVars PROVE CacheTypeOK'
  OBVIOUS
<1> USE CachingAssumption
    DEF CacheTypeOK, LoaderGoto, SetCacheStatus, CountTiers, LoaderStates, cacheRecords,
        cacheData, cachePods, cacheEvictions
<1>1. ASSUME NEW c \in Caches, CreateCache(c) PROVE CacheTypeOK'
  BY <1>1 DEF CreateCache
<1>2. ASSUME NEW c \in Caches, RunCacheJob(c) PROVE CacheTypeOK'
  BY <1>2, RunTypes
<1>3. ASSUME NEW c \in Caches, DeleteCache(c) PROVE CacheTypeOK'
  BY <1>3 DEF DeleteCache
<1>4. ASSUME NEW c \in Caches, NEW t \in Tiers, MigrateTier(c, t) PROVE CacheTypeOK'
  BY <1>4 DEF MigrateTier
<1>5. ASSUME NEW c \in Caches, EvictCache(c) PROVE CacheTypeOK'
  BY <1>5 DEF EvictCache
<1>6. ASSUME NEW c \in Caches, PerformEviction(c) PROVE CacheTypeOK'
  BY <1>6 DEF PerformEviction
<1>7. ASSUME NEW c \in Caches, EvictionCancelled(c) PROVE CacheTypeOK'
  BY <1>7 DEF EvictionCancelled
<1>8. CASE UNCHANGED cacheVars
  BY <1>8 DEF cacheVars
<1> QED
  BY <1>1, <1>2, <1>3, <1>4, <1>5, <1>6, <1>7, <1>8 DEF CacheNext

\* For any caches, tiers and requests the variables keep their types (caching.go:22-60).
THEOREM CachingTypeOK == CacheSpec => []CacheTypeOK
<1>1. CacheInit => CacheTypeOK
  BY CachingAssumption DEF CacheInit, CacheTypeOK, LoaderStates
<1> QED
  BY <1>1, CacheNextTypes, PTL DEF CacheSpec

-----------------------------------------------------------------------------
(* Caching: the gauges. *)

On(t) == {c \in cacheIds : cacheTier[c] = t}

LEMMA OnFinite ==
  ASSUME CacheTypeOK
  PROVE  IsFiniteSet(cacheIds) /\ \A t : IsFiniteSet(On(t))
<1>1. IsFiniteSet(cacheIds)
  BY CachingAssumption, FS_Subset DEF CacheTypeOK
<1>2. \A t : On(t) \subseteq cacheIds
  BY DEF On
<1> QED
  BY <1>1, <1>2, FS_Subset

\* A cache that joins or leaves the recorded ones, or changes its tier, is counted once.
LEMMA Moves ==
  ASSUME CacheTypeOK, CacheCountsAgree, CacheTypeOK',
         NEW c \in Caches, NEW from, NEW to, CountTiers(from, to),
         \A t \in CountedTiers : (t = from) <=> (c \in On(t)),
         \A t \in CountedTiers : (t = to) <=> (c \in On(t)'),
         \A b \in Caches \ {c} : b \in cacheIds' <=> b \in cacheIds,
         \A b \in Caches \ {c} : cacheTier'[b] = cacheTier[b]
  PROVE  \A t \in CountedTiers : tierCount'[t] = Cardinality(On(t)')
<1> SUFFICES ASSUME NEW t \in CountedTiers PROVE tierCount'[t] = Cardinality(On(t)')
  OBVIOUS
<1> DEFINE rest == On(t) \ {c}
<1>1. On(t)' \ {c} = rest
  BY DEF On, CacheTypeOK
<1>2. IsFiniteSet(rest) /\ c \notin rest /\ Cardinality(rest) \in Nat
  BY OnFinite, FS_Subset, FS_CardinalityType
<1>3. Cardinality(On(t)) = Cardinality(rest) + (IF t = from THEN 1 ELSE 0)
  <2>1. CASE t = from
    <3>1. On(t) = rest \cup {c}
      BY <2>1
    <3> QED
      BY <1>2, <2>1, <3>1, FS_AddElement
  <2>2. CASE t # from
    <3>1. On(t) = rest
      BY <2>2
    <3> QED
      BY <1>2, <2>2, <3>1
  <2> QED
    BY <2>1, <2>2
<1>4. Cardinality(On(t)') = Cardinality(rest) + (IF t = to THEN 1 ELSE 0)
  <2>1. CASE t = to
    <3>1. On(t)' = rest \cup {c}
      BY <1>1, <2>1
    <3> QED
      BY <1>2, <2>1, <3>1, FS_AddElement
  <2>2. CASE t # to
    <3>1. On(t)' = rest
      BY <1>1, <2>2
    <3> QED
      BY <1>2, <2>2, <3>1
  <2> QED
    BY <2>1, <2>2
<1>5. tierCount[t] = Cardinality(On(t))
  BY DEF CacheCountsAgree, On
<1>6. tierCount'[t] = tierCount[t] + (IF t = to THEN 1 ELSE 0) - (IF t = from THEN 1 ELSE 0)
  BY DEF CountTiers
<1> QED
  BY <1>2, <1>3, <1>4, <1>5, <1>6

\* A cache that is recorded has been created: CreateCache never finds its id taken.
RecordedOnce == \A c \in cacheIds : loader[c] # "none"

LEMMA CacheNextRecorded ==
  CacheTypeOK /\ RecordedOnce /\ [CacheNext]_cacheVars => RecordedOnce'
BY DEF CacheTypeOK, RecordedOnce, CacheNext, CreateCache, DeleteCache, MigrateTier, EvictCache,
       PerformEviction, EvictionCancelled, RunCacheJob, BeginLoad, CheckCancelled,
       CreatePrefetchPod, ScanSource, FinishPrefetch, MarkJobFailed, StopStats, LoaderGoto,
       cacheRecords, cacheVars

LEMMA CacheNextCounts ==
  CacheTypeOK /\ RecordedOnce /\ CacheCountsAgree /\ [CacheNext]_cacheVars => CacheCountsAgree'
<1> SUFFICES ASSUME CacheTypeOK, RecordedOnce, CacheCountsAgree, [CacheNext]_cacheVars
             PROVE  CacheCountsAgree'
  OBVIOUS
<1>0. CacheTypeOK'
  BY CacheNextTypes
<1>1. IsFiniteSet(cacheIds) /\ Cardinality(cacheIds) \in Nat
  BY OnFinite, FS_CardinalityType
<1>2. ASSUME NEW c \in Caches, CreateCache(c) PROVE CacheCountsAgree'
  <2>0. c \notin cacheIds
    BY <1>2 DEF CreateCache, RecordedOnce
  <2>1. Cardinality(cacheIds') = Cardinality(cacheIds) + 1
    BY <1>1, <1>2, <2>0, FS_AddElement DEF CreateCache
  <2>2. \A t \in CountedTiers : tierCount'[t] = Cardinality(On(t)')
    <3>1. CountTiers(NoTier, cacheTier[c])
      BY <1>2 DEF CreateCache
    <3>2. \A t \in CountedTiers : (t = cacheTier[c]) <=> (c \in On(t)')
      BY <1>2 DEF CreateCache, On
    <3>3. \A t \in CountedTiers : (t = NoTier) <=> (c \in On(t))
      BY <2>0, CachingAssumption DEF On
    <3> QED
      BY <1>0, <1>2, <3>1, <3>2, <3>3, Moves DEF CreateCache
  <2> QED
    BY <1>2, <2>1, <2>2 DEF CacheCountsAgree, CreateCache, On
<1>3. ASSUME NEW c \in Caches, DeleteCache(c) PROVE CacheCountsAgree'
  <2>1. Cardinality(cacheIds') = Cardinality(cacheIds) - 1
    BY <1>1, <1>3, FS_RemoveElement DEF DeleteCache
  <2>2. \A t \in CountedTiers : tierCount'[t] = Cardinality(On(t)')
    <3>1. CountTiers(cacheTier[c], NoTier)
      BY <1>3 DEF DeleteCache
    <3>2. \A t \in CountedTiers : (t = cacheTier[c]) <=> (c \in On(t))
      BY <1>3 DEF DeleteCache, On
    <3>3. \A t \in CountedTiers : (t = NoTier) <=> (c \in On(t)')
      BY <1>3, CachingAssumption DEF DeleteCache, On
    <3> QED
      BY <1>0, <1>3, <3>1, <3>2, <3>3, Moves DEF DeleteCache
  <2> QED
    BY <1>1, <1>3, <2>1, <2>2 DEF CacheCountsAgree, DeleteCache, On
<1>4. ASSUME NEW c \in Caches, NEW t \in Tiers, MigrateTier(c, t) PROVE CacheCountsAgree'
  <2>1. \A u \in CountedTiers : (u = cacheTier[c]) <=> (c \in On(u))
    BY <1>4 DEF MigrateTier, On
  <2>2. \A u \in CountedTiers : (u = t) <=> (c \in On(u)')
    BY <1>4 DEF MigrateTier, On, CacheTypeOK
  <2>3. CountTiers(cacheTier[c], t)
    BY <1>4 DEF MigrateTier
  <2>4. \A b \in Caches \ {c} : cacheTier'[b] = cacheTier[b] /\ cacheIds' = cacheIds
    BY <1>4 DEF MigrateTier, CacheTypeOK
  <2>5. \A u \in CountedTiers : tierCount'[u] = Cardinality(On(u)')
    BY <1>0, <1>4, <2>1, <2>2, <2>3, <2>4, Moves
  <2> QED
    BY <1>4, <2>5 DEF CacheCountsAgree, MigrateTier, On
<1>5. CASE \/ \E c \in Caches : \/ RunCacheJob(c)
                                \/ EvictCache(c)
                                \/ PerformEviction(c)
                                \/ EvictionCancelled(c)
           \/ UNCHANGED cacheVars
  <2>1. UNCHANGED <<cacheIds, cacheTier, cacheActive, tierCount>>
    BY <1>5
       DEF RunCacheJob, BeginLoad, CheckCancelled, CreatePrefetchPod, ScanSource,
           FinishPrefetch, MarkJobFailed, StopStats, EvictCache, PerformEviction,
           EvictionCancelled, cacheRecords, cacheVars
  <2> QED
    BY <2>1 DEF CacheCountsAgree
<1> QED
  BY <1>2, <1>3, <1>4, <1>5 DEF CacheNext

\* For any caches, tiers and interleaving of requests the gauges are the number of the
\* recorded caches, and of those on each counted tier (caching.go:116, 173, 214).
THEOREM CachingCountsAgree == CacheSpec => []CacheCountsAgree
<1>1. CacheInit => RecordedOnce /\ CacheCountsAgree
  <2> SUFFICES ASSUME CacheInit PROVE RecordedOnce /\ CacheCountsAgree
    OBVIOUS
  <2>1. cacheIds = {} /\ \A t \in CountedTiers : On(t) = {}
    BY DEF CacheInit, On
  <2> QED
    BY <2>1, FS_EmptySet DEF CacheInit, RecordedOnce, CacheCountsAgree, On
<1> QED
  BY <1>1, CacheNextRecorded, CacheNextCounts, CachingTypeOK, PTL DEF CacheSpec

-----------------------------------------------------------------------------
(* Caching: the prefetch pods. *)

\* For any caches and requests, a prefetch pod without a goroutine that will delete it was
\* left by a call without an answer or a deletion that failed (client.go:1595).
THEOREM CachingPrefetchPods == CacheSpec => []PrefetchPodsHaveCause
<1>1. CacheInit => PrefetchPodsHaveCause
  BY DEF CacheInit, PrefetchPodsHaveCause
<1>2. CacheTypeOK /\ PrefetchPodsHaveCause /\ [CacheNext]_cacheVars => PrefetchPodsHaveCause'
  <2> SUFFICES ASSUME CacheTypeOK, PrefetchPodsHaveCause, [CacheNext]_cacheVars
               PROVE  PrefetchPodsHaveCause'
    OBVIOUS
  <2> USE DEF CacheTypeOK, PrefetchPodsHaveCause, LoaderGoto, cacheRecords, cachePods
  <2>1. ASSUME NEW c \in Caches, CreatePrefetchPod(c) \/ ScanSource(c)
        PROVE  PrefetchPodsHaveCause'
    BY <2>1 DEF CreatePrefetchPod, ScanSource
  <2>2. ASSUME NEW c \in Caches,
               \/ BeginLoad(c) \/ CheckCancelled(c) \/ FinishPrefetch(c)
               \/ MarkJobFailed(c) \/ StopStats(c) \/ CreateCache(c)
        PROVE  PrefetchPodsHaveCause'
    BY <2>2 DEF BeginLoad, CheckCancelled, FinishPrefetch, MarkJobFailed, StopStats,
                CreateCache
  <2>3. CASE \/ \E c \in Caches : \/ DeleteCache(c) \/ EvictCache(c)
                                  \/ PerformEviction(c) \/ EvictionCancelled(c)
                                  \/ \E t \in Tiers : MigrateTier(c, t)
             \/ UNCHANGED cacheVars
    BY <2>3 DEF DeleteCache, EvictCache, PerformEviction, EvictionCancelled, MigrateTier,
                cacheVars
  <2> QED
    BY <2>1, <2>2, <2>3 DEF CacheNext, RunCacheJob
<1> QED
  BY <1>1, <1>2, CachingTypeOK, PTL DEF CacheSpec

-----------------------------------------------------------------------------
(* Caching: the data. *)

NotLoadedYet == \A c \in Caches : loader[c] \notin {"stats", "over"} => loaded[c] = 0

LEMMA CacheNextData ==
  CacheTypeOK /\ NotLoadedYet /\ DataCountedOnce /\ [CacheNext]_cacheVars
    => NotLoadedYet' /\ DataCountedOnce'
<1> SUFFICES ASSUME CacheTypeOK, NotLoadedYet, DataCountedOnce, [CacheNext]_cacheVars
             PROVE  NotLoadedYet' /\ DataCountedOnce'
  OBVIOUS
<1> USE DEF CacheTypeOK, NotLoadedYet, DataCountedOnce, LoaderGoto, SetCacheStatus,
            cacheRecords, cacheData
<1>1. ASSUME NEW c \in Caches, CheckCancelled(c) \/ FinishPrefetch(c)
      PROVE  NotLoadedYet' /\ DataCountedOnce'
  <2>1. loaded[c] = 0 /\ cacheSize[c] = 0 /\ evicted[c] = 0
    BY <1>1 DEF CheckCancelled, FinishPrefetch
  <2> QED
    BY <1>1, <2>1 DEF CheckCancelled, FinishPrefetch
<1>2. ASSUME NEW c \in Caches, PerformEviction(c)
      PROVE  NotLoadedYet' /\ DataCountedOnce'
  BY <1>2 DEF PerformEviction
<1>3. ASSUME NEW c \in Caches,
             \/ BeginLoad(c) \/ CreatePrefetchPod(c) \/ ScanSource(c) \/ MarkJobFailed(c)
             \/ StopStats(c)
      PROVE  NotLoadedYet' /\ DataCountedOnce'
  BY <1>3 DEF BeginLoad, CreatePrefetchPod, ScanSource, MarkJobFailed, StopStats
<1>4. ASSUME NEW c \in Caches, CreateCache(c) \/ DeleteCache(c) \/ EvictCache(c)
      PROVE  NotLoadedYet' /\ DataCountedOnce'
  BY <1>4 DEF CreateCache, DeleteCache, EvictCache
<1>5. CASE \/ \E c \in Caches : EvictionCancelled(c) \/ \E t \in Tiers : MigrateTier(c, t)
           \/ UNCHANGED cacheVars
  BY <1>5 DEF EvictionCancelled, MigrateTier, cacheVars
<1> QED
  BY <1>1, <1>2, <1>3, <1>4, <1>5 DEF CacheNext, RunCacheJob

\* For any caches and any evictions in progress at once, data is in the cache or counted as
\* evicted, never both or neither, and a recorded cache says it is inactive only when it is
\* empty (caching.go:408, 442, 522-525).
THEOREM CachingDataCountedOnce == CacheSpec => []DataCountedOnce
<1>1. CacheInit => NotLoadedYet /\ DataCountedOnce
  BY DEF CacheInit, NotLoadedYet, DataCountedOnce
<1> QED
  BY <1>1, CacheNextData, CachingTypeOK, PTL DEF CacheSpec
=============================================================================
