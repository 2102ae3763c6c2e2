SPECIFICATION Spec
CONSTANTS
  r1 = r1
  r2 = r2
  w1 = w1
  d1 = d1
  d2 = d2
  c1 = c1
  c2 = c2
  nvme = nvme
  s3 = s3
  Provisionings = {r1, r2}
  Workloads = {w1}
  WorkloadOf <- OneWorkload
  Deleters = {d1, d2}
  MaxProvCrashes = 1
  Caches = {c1, c2}
  Tiers = {nvme, s3}
  CountedTiers = {nvme}
  MaxEvictions = 2
INVARIANTS LeavingsHaveCause ActiveIsUnsettledLessDeletes CacheCountsAgree 
PROPERTIES ProvisioningEnds DeletedCacheStops
CHECK_DEADLOCK FALSE
