SPECIFICATION QueueSpec
CONSTANTS
  p1 = p1
  p2 = p2
  QueuePods = {p1, p2}
  Prio <- MCPrio
  MaxOps = 3
  Atomic = FALSE
INVARIANT HeapAgrees
CHECK_DEADLOCK FALSE
