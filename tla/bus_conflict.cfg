CONSTANTS
  Connections = {c1}
  Requests <- SettingRequests
  NumAxes = 2
  RtpValues <- MCBytes
  MaxRequests = 2
  AliveTicks = 20
  BusOutcomes <- MCReliable
  c1 = c1
SPECIFICATION Spec
INVARIANTS TransfersReachTheirAxis
CHECK_DEADLOCK FALSE
