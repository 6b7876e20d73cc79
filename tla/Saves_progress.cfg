CONSTANTS
  mother = mother
  left = left
  right = right
  split = split
  deposition = deposition
  watcher = watcher
  series = series
  Requests = {r1, r2, r3}
  Samples = {mother, left, right}
  Processes = {split, deposition}
  Others = {watcher, series}
  SplitsOf <- OneSplit
  PiecesOf <- TwoPieces
  SamplesOf <- Shared
  DetailsOf <- WatchedPiece
  SeriesOf <- PiecesInSeries
  Stamp <- SplitFirst
  MaxCalls = 1
  NoOne = NoOne
SPECIFICATION FairSpec
PROPERTY SavesEnd
CHECK_DEADLOCK FALSE
