SPECIFICATION Spec
CONSTANTS
  j1 = j1
  j2 = j2
  j3 = j3
  p1 = p1
  Pods = {p1}
  Jobs = {j1, j2, j3}
  PodOf <- OnePod
  First <- Mixed
  Preserve = {j1}
  MaxConcurrent = 2
  MaxCrashes = 0
INVARIANT OutputIsKept
CHECK_DEADLOCK FALSE
