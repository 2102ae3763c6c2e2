SPECIFICATION Spec
CONSTANTS
  Pods = {p1, p2}
  Nodes = {n1, n2}
  NoNode = NoNode
  Req <- Ones
  Cap <- Tight
  MaxEarly = 1
  MaxUpdates = 1
  MaxNodeAdds = 1
  MaxFlaps = 1
  MaxGaps = 1
  MaxFails = 1
SYMMETRY Symmetry
INVARIANTS ChargedOnce OneBind  SteadyCacheIsCurrent SteadyUp
CHECK_DEADLOCK FALSE
