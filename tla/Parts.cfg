CONSTANTS
  None = None
  Rubbish = Rubbish
  Runs = {"r1", "r2", "r3"}
  Invalid = Invalid
  MaxCrashes = 1
  Threads = {1, 2}
  Models = {"a", "b", "c"}
  Abstract = {"b"}
  Referring = {"c"}
  Tabs = {1, 2}
  Class <- ClassOf
  Sheets <- SheetsOf
  Users = {"ann", "bob"}
  Superusers = {"root"}
  Adders = {"ann", "bob", "root"}
  Externals = {"x"}
  Requests = {"q1", "q2"}
  AllSamples = {1, 2, 3}
  Processes = {"p"}
  Founded <- FoundedPairs
  Clients = {"c1", "c2"}
  Ids <- IdsOf
  Own = {1}
  MaxCycles = 2
  MaxOrphans = 1
  Editors = {"ann", "bob"}
  Viewers = {"cid"}
  Types = {"png", "pdf"}
  MaxEdits = 2
  MaxAborts = 1
  Viewer = "ann"
  MaxChanges = 2
  Kinds = {"A", "B"}
  TicksPerSecond = 2
  MaxTime = 3
  MaxProcesses = 2
  Programs = {"p"}
  FirstIndices = {2}
  MaxIndex = 3
  MaxYear = 2
  MaxAdded = 4
  Files = {"f", "g"}
  Texts = {1, 2}
  MaxModified = 2
  Authors = {"ann"}
  Keys = {1, 2}
  Words = {"", "a"}
  MaxSize = 2
  MaxPosts = 4
  Browsers = {1, 2}
  Reporters = {"r"}
  LineUps <- LineUpsOf
  Shares <- SharesOf
  Veterans = {"a", "b"}
  Former <- FormerMatches
  Enough = 1
  MaxDays = 2
  MaxMatches = 4
  MaxRequests = 3
  Pieces = {1, 2}
  Selections <- SelectionsOf
  Fillings = {"c", "d"}
  MaxCells = 2
  Scripts = {"bob"}
  MaxRefused = 1
SPECIFICATION Spec
INVARIANTS
  LockKeepsApart
  FoundAreComplete
  OperatorsAreKnown
  SubmittedAsReported
  ImagesFit
  KeptIsFresh
  NothingMissed
  TablesAreComplete
  ListsAreComplete
PROPERTIES
  ChoicesSurvive
  DeletionsKeepTheRest
  NumbersNameOneDeposition
  EveryTextImportedOnce
  TablesAsSeen
  MatchesCountOnce
  ProcessAsShown
  StepsFollowThePage
  SearchAsShown
CHECK_DEADLOCK FALSE
