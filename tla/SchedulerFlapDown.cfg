SPECIFICATION Spec
CONSTANTS
  Pods = {p1, p2}
  Nodes = {n1}
  NoNode = NoNode
  Req <- Ones
  Cap <- Roomy
  MaxEarly = 0
  MaxUpdates = 1
  MaxNodeAdds = 0
  MaxFlaps = 1
  MaxGaps = 0
  MaxFails = 0
SYMMETRY Symmetry
INVARIANT NeverDown
CHECK_DEADLOCK FALSE
