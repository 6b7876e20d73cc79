SPECIFICATION Spec
CONSTANTS
  Founders = 1
  MaxSamples = 3
  MaxProcs = 3
  MaxTime = 4
PROPERTY OrderlySheetsInvalidated
CHECK_DEADLOCK FALSE
