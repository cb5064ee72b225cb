SPECIFICATION ServicesSpec
CONSTANTS
  a1 = a1
  a2 = a2
  p1 = p1
  c1 = c1
  c2 = c2
  Paths = {a1, a2}
  Remotes = {ra}
  NoRemote = NoRemote
  MaxVersions = 2
  StoreClients = {c1, c2}
  UploadIds = {u1}
  Length = 3
  TusClients = {c1, c2}
  Tenants = {a1, a2}
  EdgeSlots = {1, 4}
  WarmMax = 1
  MaxDeploys = 2
  MaxSecrets = 1
  EdgeClients = {c1, c2}
  CronFunctions = {f1}
  Schedules <- MCSchedules
  LastMinute = 6
  MaxMsgs = 2
  Consumers = {c1, c2}
  VisibleAfter = 2
  Quantities = {1, 2}
  LastSecond = 3
  Hooks = {h1}
  Attempts = 2
  LogLimit = 1
  MaxDeliveries = 2
  Slugs = {p1, a1, a2}
  ParentOf <- MCParentOf
  NoSlug = NoSlug
  Modes = {"shared", "instance"}
  MaxBirths = 3
  Provisioners = {c1, c2}
  LastSegment = 4
  DayLength = 3
  KeepBase = 2
  CompactGap = 3
  Nights = 3
  MaxWrites = 3
  KeepDaily = 1
  ForceDays = 2
  Ceiling = 3
  Newest = 3
  Broken = {2}
  Updaters = {c1, c2}
  Admins = {a1, a2}
  Pulls = 2
  Tables = {a1, a2}
  Editors = {c1, c2}
  MaxForms = 3
  Keys = {a1, a2}
  Fields = {w1, w2}
  Entries = {0, 1}
  RowEditors = {c1, c2}
  MaxRows = 3
  MaxPanels = 2
  Floor = 4
  Top = 10
  Limits = {4, 8}
  Ranges <- MCRanges
  MaxResizes = 2
  Hour = 2
  Window = 5
  Gate = 2
  Week = 5
  DigestTicks = {2, 3}
  LastTick = 7
  MaxMissed = 1
  Rotators = {c1, c2}
  MaxPasswords = 3
  SqlUsers = {c1, c2}
  JobNames = {a1, a2, p1}
  JobLimit = 1
  HistoryLimit = 1
  LastInstant = 1
  MaxSql = 3
  LastKey = 4
  Folder = {2, 3}
  MaxKeys = 1
  PageLimit = 1
  RowCap = 3
  Encoders = {c1, c2}
  Images <- MCImages
  Boxes <- MCBoxes
  MaxReplaced = 1
  ObjectPaths = {a1, a2}
  OwnerOf <- MCOwnerOf
  Bodies = {1, 3}
  MaxSizes = {0, 2}
  Quota = 2
  S3Cap = 2
  Writers = {c1, c2}
  MaxRules = 1
  PageClients = {c1, c2}
  LastStamp = 3
  MaxVersion = 1
  MaxLives = 2
  MaxRestarts = 1
  FdwClients = {c1, c2}
  MaxServers = 3
  Hosts <- MCHosts
  Primary <- MCPrimary
  Projects = {"shop"}
  HostClients = {c1, c2}
  Unread = Unread
  MaxHostSets = 2
SYMMETRY MadeAlike
CONSTRAINTS StillClaimed TwoChanges ThirdShared SecondClean ThirdAlone LastQuiet
            OneTool RulesFirst FirstTrimmed RetryEarly OnePageTopic
INVARIANTS ServicesTypeOK    EdgeServes
           CronFiresAsScheduled MessagesAccounted  
             CredentialsAgree 
CHECK_DEADLOCK FALSE
