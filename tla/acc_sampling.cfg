CONSTANTS
  MaxInDeque = 3
  DataNum = 2
  MaxSamples = 5
  MaxCalibrations = 1
SPECIFICATION FairSpec
INVARIANTS TypeOK DequeBounded SamplesInOrder CalibrationSampleSize
PROPERTIES CollectEnds ImplementsBuffer
CHECK_DEADLOCK FALSE
