SPECIFICATION MCSpec
CONSTANTS
  Kinds = {"migration", "undo", "provision"}
  MaxStarts = 2
  MaxMissing = 2
  MaxErrors = 2
  MaxOps = 3
  MaxStale = 0
  MaxFaults = 1
  MaxRetries = 1
  PolicyKeys = {"k1"}
  PolicyIds = {1, 2}
  PolicyTTL = 2
  TerminatedTTL = 1
  BatchMax = 1
  MaxPoolFaults = 1
PROPERTIES ExecutionEnds RepeatsHaveCause SweepsOnlyEnded Collected
CHECK_DEADLOCK FALSE
