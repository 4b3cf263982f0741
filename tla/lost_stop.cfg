CONSTANTS
  Connections = {c1}
  Requests <- DriveRequests
  NumAxes = 2
  RtpValues <- MCBytes
  MaxRequests = 2
  AliveTicks = 1
  BusOutcomes <- MCReliable
  c1 = c1
SPECIFICATION FairSpec
PROPERTIES StopIsEnforced
CHECK_DEADLOCK FALSE
