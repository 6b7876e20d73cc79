CONSTANTS
  None = None
  ann = ann
  bob = bob
  root = root
  Nobody = None
  Users <- Workers
  Adders = {"nick", "sean"}
  AllSamples = {"a", "b"}
  MySamples <- CustomersSamples
  Processes = {"run"}
  OperatorOf <- RunBy
  MaxTasks = 1
  MaxOpen = 2
  MaxEdits = 3
  AllTopics = {"phd", "legacy"}
  Superusers = {}
  Seers = {"nick"}
  Careful = {"juliette"}
  Confidential = {"phd"}
  Manager <- Managing
  TopicEditors = {"sean"}
  Readers <- Subscriptions
  Founded <- TheirSamples
  FirstMembers <- Groups
  MaxRequests = 2
  People <- SiteUsers
  TopicIds = {1, 2}
  Wafers = {"wafer", "piece"}
  ResponsibleFor <- SiteResponsible
  TopicOf <- SiteTopicOf
  SplitOf <- SiteSplitOf
  Events = {"deposition", "result", "running", "comment"}
  Process <- SiteProcess
  SharedSeries <- SiteSeries
  Contact <- SiteContact
  FirstTopics <- SiteFounded
  Permitted <- SitePermitted
  Departments <- SiteDepartments
  Admins = {root}
  Ticked = {{}, {"edit_permissions"}, {"add", "change"}}
  Managed = {"view_every_sample", "rename_samples"}
  AdPermissions <- SiteRights
  AdDepartment <- SiteDirectory
  Orders <- SiteOrders
  MaxServed = 3
  MaxMoves = 1
  Namers = {"anna", "ben"}
  Stems = {"15B-100", "15-AN-a", "15C-001"}
  Format <- SiteFormat
  Renames <- SiteRenames
  Owners <- SiteOwners
  Cleaning = {"15C-001"}
  Founders <- SiteFounders
  MaxSamples = 5
  MaxNamings = 3
SPECIFICATION Spec
INVARIANTS
  EverybodyHearsOnce
  PermissionsFitTopics
PROPERTIES
  OperatorsKeepTheirTasks
  NamesLeadHome
CHECK_DEADLOCK FALSE
