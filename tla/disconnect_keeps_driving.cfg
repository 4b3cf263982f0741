CONSTANTS
  Connections = {c1}
  Requests <- DriveRequests
  NumAxes = 1
  RtpValues <- MCBytes
  MaxRequests = 1
  AliveTicks = 1
  BusOutcomes <- MCReliable
  c1 = c1
SPECIFICATION FairSpec
PROPERTIES DisconnectStopsDriving
CHECK_DEADLOCK FALSE
