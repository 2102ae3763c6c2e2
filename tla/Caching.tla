------------------------------ MODULE Caching ------------------------------
(***************************************************************************)
(* The orchestrator's caches                                               *)
(* (ai-storage-orchestrator/pkg/controller/caching.go): a request becomes  *)
(* a record and a goroutine, runCacheJob, that loads the data, by a pod    *)
(* that scans the source when the request asks for prefetch, and then      *)
(* collects statistics until the cache is deleted.  Requests to evict, to  *)
(* change the tier and to delete act on the record meanwhile; an eviction  *)
(* is one more goroutine.                                                  *)
(*                                                                         *)
(* Data is counted in units: a load finds none or one.  The simulated      *)
(* statistics, the warm-up (it changes nothing but a statistic), the end   *)
(* of a tier migration (a time stamp) and the hints to Gluesys are left    *)
(* out.  A restart is left out: it forgets all of this at once.            *)
(***************************************************************************)
EXTENDS Integers, FiniteSets

CONSTANTS
  Caches,        \* the ids of the requests
  Tiers,         \* the tiers a request may name
  CountedTiers,  \* the tiers with a counter
  MaxEvictions   \* bound: evictions requested

\* What stands for a tier without a counter.
NoTier == "no tier"

ASSUME CachingAssumption ==
  /\ IsFiniteSet(Caches)
  /\ CountedTiers \subseteq Tiers
  /\ NoTier \notin CountedTiers
  /\ MaxEvictions \in Nat

VARIABLES
  cacheIds,      \* the keys of cc.caches
  cacheStatus,   \* cacheStatus[c]: job.Status; "none" before its creation
  cacheTier,     \* cacheTier[c]: job.Request.TargetTier
  cacheSize,     \* cacheSize[c]: job.Details.CacheSizeBytes
  loader,        \* loader[c]: the next step of runCacheJob
  cacheStopped,  \* the caches whose context is cancelled
  evictors,      \* evictors[c]: goroutines in performEviction
  cacheActive,   \* metrics.ActiveCaches
  tierCount,     \* the tier counters of the metrics
  prefetchPods,  \* the caches whose prefetch pod exists
  loaded,        \* history: loaded[c]: data put into c
  evicted,       \* evicted[c]: stats.EvictedDataBytes
  asked,         \* how many evictions were requested
  podExcused     \* history: see PrefetchPodsHaveCause

cacheVars == <<cacheIds, cacheStatus, cacheTier, cacheSize, loader, cacheStopped, evictors,
               cacheActive, tierCount, prefetchPods, loaded, evicted, asked, podExcused>>
cacheRecords == <<cacheIds, cacheTier, cacheStopped, cacheActive, tierCount>>
cacheData == <<cacheSize, loaded, evicted>>
cachePods == <<prefetchPods, podExcused>>
cacheEvictions == <<evictors, asked>>

LoaderStates == {"none", "begin", "check", "pod", "scan", "clean", "failed", "stats", "over"}

CacheTypeOK ==
  /\ cacheIds \subseteq Caches
  /\ cacheStatus \in [Caches -> {"none", "Pending", "Loading", "Active", "Evicting",
                                 "Inactive", "Failed"}]
  /\ cacheTier \in [Caches -> Tiers]
  /\ cacheSize \in [Caches -> 0..1]
  /\ loader \in [Caches -> LoaderStates]
  /\ cacheStopped \subseteq Caches
  /\ evictors \in [Caches -> Nat]
  /\ cacheActive \in Int
  /\ tierCount \in [CountedTiers -> Int]
  /\ prefetchPods \subseteq Caches
  /\ loaded \in [Caches -> 0..1]
  /\ evicted \in [Caches -> Nat]
  /\ asked \in 0..MaxEvictions
  /\ podExcused \subseteq Caches

-----------------------------------------------------------------------------
LoaderGoto(c, l) == loader' = [loader EXCEPT ![c] = l]
SetCacheStatus(c, s) == cacheStatus' = [cacheStatus EXCEPT ![c] = s]

\* updateTierCount, of one cache that leaves tier t and one that joins tier u.
CountTiers(t, u) ==
  tierCount' = [x \in CountedTiers |->
    tierCount[x] + (IF x = u THEN 1 ELSE 0) - (IF x = t THEN 1 ELSE 0)]

CacheInit ==
  /\ cacheIds = {}
  /\ cacheStatus = [c \in Caches |-> "none"]
  /\ cacheTier \in [Caches -> Tiers]
  /\ cacheSize = [c \in Caches |-> 0]
  /\ loader = [c \in Caches |-> "none"]
  /\ cacheStopped = {}
  /\ evictors = [c \in Caches |-> 0]
  /\ cacheActive = 0
  /\ tierCount = [t \in CountedTiers |-> 0]
  /\ prefetchPods = {}
  /\ loaded = [c \in Caches |-> 0]
  /\ evicted = [c \in Caches |-> 0]
  /\ asked = 0
  /\ podExcused = {}

CreateCache(c) ==
  /\ loader[c] = "none"
  /\ cacheIds' = cacheIds \cup {c}
  /\ SetCacheStatus(c, "Pending")
  /\ cacheActive' = cacheActive + 1
  /\ CountTiers(NoTier, cacheTier[c])
  /\ LoaderGoto(c, "begin")
  /\ UNCHANGED <<cacheTier, cacheStopped, cacheData, cachePods, cacheEvictions>>

\* The status is Loading, whatever has happened to the record since its creation.
BeginLoad(c) ==
  /\ loader[c] = "begin"
  /\ SetCacheStatus(c, "Loading")
  /\ \E l \in {"pod", "check"} : LoaderGoto(c, l)
  /\ UNCHANGED <<cacheRecords, cacheData, cachePods, cacheEvictions>>

\* Without prefetch: a cancelled load leaves its status behind.
CheckCancelled(c) ==
  /\ loader[c] = "check"
  /\ IF c \in cacheStopped
     THEN LoaderGoto(c, "over") /\ UNCHANGED <<cacheStatus, cacheData>>
     ELSE \E n \in 0..1 :
       /\ SetCacheStatus(c, "Active")
       /\ cacheSize' = [cacheSize EXCEPT ![c] = n]
       /\ loaded' = [loaded EXCEPT ![c] = n]
       /\ LoaderGoto(c, "stats")
       /\ UNCHANGED evicted
  /\ UNCHANGED <<cacheRecords, cachePods, cacheEvictions>>

\* RunCachePrefetchPod: the pod is created, or its creation fails; without an answer it
\* may exist all the same, and nothing will delete it.
CreatePrefetchPod(c) ==
  /\ loader[c] = "pod"
  /\ \/ /\ c \notin cacheStopped
        /\ prefetchPods' = prefetchPods \cup {c}
        /\ LoaderGoto(c, "scan")
        /\ UNCHANGED podExcused
     \/ LoaderGoto(c, "failed") /\ UNCHANGED cachePods
     \/ /\ c \notin cacheStopped
        /\ prefetchPods' = prefetchPods \cup {c}
        /\ podExcused' = podExcused \cup {c}
        /\ LoaderGoto(c, "failed")
  /\ UNCHANGED <<cacheStatus, cacheRecords, cacheData, cacheEvictions>>

\* Mutant: a scan that fails returns before its pod is deleted.
ScanSource_LeavesPod(c) ==
  /\ loader[c] = "scan"
  /\ \E l \in {"clean", "failed"} : LoaderGoto(c, l)
  /\ prefetchPods' = IF loader'[c] = "clean" THEN prefetchPods \ {c} ELSE prefetchPods
  /\ UNCHANGED <<podExcused, cacheStatus, cacheRecords, cacheData, cacheEvictions>>

\* The scan ends with a result, or fails, is cancelled or runs out of time (180 s).  The
\* pod is deleted on every way out; an error of that deletion is dropped.
ScanSource(c) ==
  /\ loader[c] = "scan"
  /\ \E l \in {"clean", "failed"} : LoaderGoto(c, l)
  /\ \/ prefetchPods' = prefetchPods \ {c} /\ UNCHANGED podExcused
     \/ podExcused' = podExcused \cup {c} /\ UNCHANGED prefetchPods
  /\ UNCHANGED <<cacheStatus, cacheRecords, cacheData, cacheEvictions>>

FinishPrefetch(c) ==
  /\ loader[c] = "clean"
  /\ SetCacheStatus(c, "Active")
  /\ \E n \in 0..1 :
       /\ cacheSize' = [cacheSize EXCEPT ![c] = n]
       /\ loaded' = [loaded EXCEPT ![c] = n]
  /\ LoaderGoto(c, "stats")
  /\ UNCHANGED <<evicted, cacheRecords, cachePods, cacheEvictions>>

MarkJobFailed(c) ==
  /\ loader[c] = "failed"
  /\ SetCacheStatus(c, "Failed")
  /\ LoaderGoto(c, "over")
  /\ UNCHANGED <<cacheRecords, cacheData, cachePods, cacheEvictions>>

\* Mutant: the loop only ends when it finds no statistics.
StopStats_Never(c) ==
  /\ loader[c] = "stats"
  /\ cacheStatus[c] = "none"
  /\ LoaderGoto(c, "over")
  /\ UNCHANGED <<cacheStatus, cacheRecords, cacheData, cachePods, cacheEvictions>>

\* collectStats ends with the context.
StopStats(c) ==
  /\ loader[c] = "stats"
  /\ c \in cacheStopped
  /\ LoaderGoto(c, "over")
  /\ UNCHANGED <<cacheStatus, cacheRecords, cacheData, cachePods, cacheEvictions>>

-----------------------------------------------------------------------------
\* Mutant: the counter of the tier is forgotten.
DeleteCache_NoTier(c) ==
  /\ c \in cacheIds
  /\ cacheIds' = cacheIds \ {c}
  /\ cacheStopped' = cacheStopped \cup {c}
  /\ SetCacheStatus(c, "Inactive")
  /\ cacheActive' = cacheActive - 1
  /\ UNCHANGED <<tierCount, cacheTier, loader, cacheData, cachePods, cacheEvictions>>

DeleteCache(c) ==
  /\ c \in cacheIds
  /\ cacheIds' = cacheIds \ {c}
  /\ cacheStopped' = cacheStopped \cup {c}
  /\ SetCacheStatus(c, "Inactive")
  /\ cacheActive' = cacheActive - 1
  /\ CountTiers(cacheTier[c], NoTier)
  /\ UNCHANGED <<cacheTier, loader, cacheData, cachePods, cacheEvictions>>

\* The counters and the tier change at once; the data is said to follow.
MigrateTier(c, t) ==
  /\ c \in cacheIds
  /\ CountTiers(cacheTier[c], t)
  /\ cacheTier' = [cacheTier EXCEPT ![c] = t]
  /\ UNCHANGED <<cacheIds, cacheStopped, cacheActive, cacheStatus, loader, cacheData,
                 cachePods, cacheEvictions>>

EvictCache(c) ==
  /\ c \in cacheIds
  /\ asked < MaxEvictions
  /\ asked' = asked + 1
  /\ evictors' = [evictors EXCEPT ![c] = @ + 1]
  /\ SetCacheStatus(c, "Evicting")
  /\ UNCHANGED <<loader, cacheRecords, cacheData, cachePods>>

\* performEviction, when its second has passed: in one critical section.
PerformEviction(c) ==
  /\ evictors[c] > 0
  /\ evictors' = [evictors EXCEPT ![c] = @ - 1]
  /\ evicted' = [evicted EXCEPT ![c] = @ + cacheSize[c]]
  /\ cacheSize' = [cacheSize EXCEPT ![c] = 0]
  /\ SetCacheStatus(c, "Inactive")
  /\ UNCHANGED <<loaded, asked, loader, cacheRecords, cachePods>>

EvictionCancelled(c) ==
  /\ evictors[c] > 0
  /\ c \in cacheStopped
  /\ evictors' = [evictors EXCEPT ![c] = @ - 1]
  /\ UNCHANGED <<asked, cacheStatus, loader, cacheRecords, cacheData, cachePods>>

RunCacheJob(c) ==
  \/ BeginLoad(c)
  \/ CheckCancelled(c)
  \/ CreatePrefetchPod(c)
  \/ ScanSource(c)
  \/ FinishPrefetch(c)
  \/ MarkJobFailed(c)
  \/ StopStats(c)

CacheNext ==
  \E c \in Caches :
    \/ CreateCache(c)
    \/ RunCacheJob(c)
    \/ DeleteCache(c)
    \/ \E t \in Tiers : MigrateTier(c, t)
    \/ EvictCache(c)
    \/ PerformEviction(c)
    \/ EvictionCancelled(c)

CacheSpec == CacheInit /\ [][CacheNext]_cacheVars

\* A goroutine runs on, the calls it makes return, and a timer fires.
CacheFairness ==
  \A c \in Caches : /\ WF_cacheVars(RunCacheJob(c))
                    /\ WF_cacheVars(PerformEviction(c))

-----------------------------------------------------------------------------
(* Properties. *)

\* The gauges of caching.go:116, 173 and 214: whatever requests interleave, they are the
\* number of the recorded caches and of those on each tier that is counted.
CacheCountsAgree ==
  /\ cacheActive = Cardinality(cacheIds)
  /\ \A t \in CountedTiers : tierCount[t] = Cardinality({c \in cacheIds : cacheTier[c] = t})

\* Several evictions and a load in flight account for the data once: what was put in is in
\* the cache or counted as evicted (caching.go:408, 442, 522), and a recorded cache says
\* it is inactive only when it is empty (caching.go:525).
DataCountedOnce ==
  \A c \in Caches :
    /\ cacheSize[c] + evicted[c] = loaded[c]
    /\ (c \in cacheIds /\ cacheStatus[c] = "Inactive") => cacheSize[c] = 0

\* A prefetch pod that no goroutine will delete was left by a call without an answer or a
\* deletion that failed (client.go:1595).
PrefetchPodsHaveCause == \A c \in prefetchPods : loader[c] # "scan" => c \in podExcused

\* The goroutines of a deleted cache end (caching.go:169, 457, 515).
DeletedCacheStops ==
  \A c \in Caches : (c \in cacheStopped) ~> (loader[c] = "over" /\ evictors[c] = 0)
=============================================================================
