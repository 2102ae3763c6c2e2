SPECIFICATION Spec
CONSTANTS
  Kinds = {"migration", "preemption", "undo", "provision"}
  MaxStarts = 3
  MaxMissing = 2
  MaxErrors = 2
  MaxOps = 1
  MaxStale = 0
  MaxFaults = 0
  MaxRetries = 0
INVARIANT StartIsRetried
CHECK_DEADLOCK FALSE
