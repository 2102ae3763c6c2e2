SPECIFICATION MCSpec
CONSTANTS
  p1 = p1
  p2 = p2
  n1 = n1
  n2 = n2
  QueuePods = {p1, p2}
  Prio <- MCPrio
  MaxOps = 4
  Atomic = TRUE
  Pods = {p1, p2}
  Nodes = {n1, n2}
  NoNode = NoNode
  Unset = Unset
  UserClaims <- TwoGiven
  UserPods <- AdmittedPods
  OtherGives <- Late
INVARIANTS DeliversOnlyWanted MapsAgree ClaimTierAgrees  
PROPERTIES CloseStopsPopper AwakePopperDelivers ReservationKept 
CHECK_DEADLOCK FALSE
