CONSTANTS
  anna = anna
  otto = otto
  english = english
  german = german
  Readers = {anna, otto}
  Writers = {saver}
  Hashes = {english, german}
  HashOf <- Languages
  MaxSaves = 1
  MaxMishaps = 1
  NoOne = NoOne
SYMMETRY Symmetry
SPECIFICATION Spec
INVARIANTS
  Registered
  CurrentUnlessOverlapped
PROPERTY ImplementsKeyLock
CHECK_DEADLOCK FALSE
