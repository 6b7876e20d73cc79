CONSTANTS
  anna = anna
  otto = otto
  english = english
  german = german
  Readers = {anna}
  Writers = {saver}
  Hashes = {english, german}
  HashOf <- Languages
  MaxSaves = 1
  MaxMishaps = 0
  NoOne = NoOne
SPECIFICATION Spec
INVARIANT NeverServesOutdated
