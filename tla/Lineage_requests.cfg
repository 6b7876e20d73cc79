SPECIFICATION Spec
CONSTANTS
  Founders = 2
  MaxSamples = 4
  MaxProcs = 3
  MaxTime = 4
  Hour = 2
  Classes = {"measurement", "deposition", "result"}
INVARIANTS LineageIntact AnnouncedAreGone
PROPERTIES SurvivorsKeepTheirHistory OrphansPredateASplit MergesKeepProcesses MeasuredAlive
CHECK_DEADLOCK FALSE
