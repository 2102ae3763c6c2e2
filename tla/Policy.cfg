SPECIFICATION Spec
CONSTANTS
  Kinds = {"migration", "preemption", "undo", "provision"}
  MaxStarts = 2
  MaxMissing = 2
  MaxErrors = 2
  MaxOps = 4
  MaxStale = 1
  MaxFaults = 1
  MaxRetries = 1
INVARIANTS OrphansAreFaults CompletedIsProved
PROPERTY TerminalIsFinal
CHECK_DEADLOCK FALSE
