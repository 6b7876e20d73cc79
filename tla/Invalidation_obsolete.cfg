SPECIFICATION Spec
CONSTANTS
  Founders = 1
  MaxSamples = 4
  MaxProcs = 4
  MaxTime = 4
PROPERTY EveryChangeInvalidates
CHECK_DEADLOCK FALSE
