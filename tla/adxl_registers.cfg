CONSTANTS
  Averages <- MCAverages
  Settings <- MCSettings
  NoSamples = NaN
  Nothing = nothing
  MaxHandlers = 2
  MaxFailures = 1
SPECIFICATION Spec
INVARIANTS TypeOK RangeAgrees StandbyAgrees WritesInStandby AtMostOneMisscaled OffsetRoundTrip
CHECK_DEADLOCK FALSE
