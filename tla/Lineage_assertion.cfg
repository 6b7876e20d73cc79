SPECIFICATION Spec
CONSTANTS
  Founders = 1
  MaxSamples = 4
  MaxProcs = 4
  MaxTime = 4
  Hour = 4
  Classes = {"measurement"}
INVARIANT AtMostOneDeath
CHECK_DEADLOCK FALSE
