CONSTANTS
  Connections = {c1}
  Requests <- SettingRequests
  NumAxes = 1
  RtpValues <- MCBytes
  MaxRequests = 1
  AliveTicks = 1
  BusOutcomes <- MCFaulty
  c1 = c1
SPECIFICATION Spec
INVARIANTS DriverModes
CHECK_DEADLOCK FALSE
