CONSTANTS
  Procs = {w1, w2, w3}
  Keys = {sampleLock, processLock}
  Cycles = 2
SPECIFICATION FairSpec
INVARIANTS
  ExclusiveUnlessWiped
  HeldUnlessWiped
PROPERTIES
  ImplementsKeyLock
  NoEndlessWait
