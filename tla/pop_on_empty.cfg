CONSTANTS
  MaxInDeque = 2
  DataNum = 2
  MaxSamples = 4
  MaxCalibrations = 0
SPECIFICATION Spec
INVARIANTS PopFrontHasData
CHECK_DEADLOCK FALSE
