SPECIFICATION Spec
CONSTANTS
  v1 = v1
  v2 = v2
  v3 = v3
  j1 = j1
  j2 = j2
  n1 = n1
  n2 = n2
  n3 = n3
  p1 = p1
  p2 = p2
  Victims = {v1, v2, v3}
  VictimPriority <- Priorities
  VictimScore <- Scores
  VictimAmount <- Amounts
  SparedVictims = {}
  PreemptJobs = {j1, j2}
  PreemptRequests <- Preempts
  GiB = 2
  LbNodes = {n1, n2, n3}
  LbPods = {p1, p2}
  ControlPods = {p2}
  ScopePods = {p1, p2}
  LbJobs = {j1}
  LbRequests <- Balances
  LoadLevels = {0, 3}
  OverLoad = 2
  UnderLoad = 2
  MinReplicas = 2
  MaxReplicas = 4
  MaxUp = 1
  MaxDown = 1
  UpWindow = 1
  DownWindow = 2
  MaxDemand = 5
  MaxDisturbances = 3
INVARIANTS AchievedIsTrue NoNeedlessEviction  
PROPERTIES EndedIsEnded CancelledEnds  
CHECK_DEADLOCK FALSE
