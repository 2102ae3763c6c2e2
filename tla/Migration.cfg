SPECIFICATION MCSpec
CONSTANTS
  j1 = j1
  j2 = j2
  j3 = j3
  p1 = p1
  Pods = {p1}
  Jobs = {j1, j2, j3}
  PodOf <- OnePod
  First <- AllStages
  Preserve = {j1}
  MaxConcurrent = 2
  MaxCrashes = 1
INVARIANTS OneStagePod SlotsAreJobs
PROPERTIES Implements MigrationEnds
CHECK_DEADLOCK FALSE
