CONSTANTS
  Connections = {c1, c2}
  Requests <- RealTimeRequests
  NumAxes = 2
  RtpValues <- MCBytes
  MaxRequests = 2
  AliveTicks = 1
  BusOutcomes <- MCReliable
  c1 = c1
  c2 = c2
SPECIFICATION FairSpec
INVARIANTS TypeOK StreamStopsWithLastClient CommandsKeepTheirAxis
PROPERTIES CommandReachesDrivers
CHECK_DEADLOCK FALSE
