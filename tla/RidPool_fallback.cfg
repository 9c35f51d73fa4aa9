SPECIFICATION MCSpec
CONSTANTS
  s1 = s1
  c1 = c1
  c2 = c2
  Parts = {"rids"}
  Fronts = {c1, c2}
  Stores = {s1}
  StoreOf <- SharedStore
  Base <- SharedBase
  RID_POOL_FIRST = 1
  RID_BLOCK = 2
  RID_WATERMARK = 1
  RID_POOL_BLOCK = 3
  RID_POOL_WATERMARK = 2
  RID_POOL_SIZE = 2
  CreateMayFail = FALSE
  MaxCounter = 6
  MaxRefill = 1
  MaxFallback = 1
  MaxCrashes = 1
  Sessions = {c1, c2}
  Boxes = {"a"}
  Lists = {"l"}
  Backups = {"b"}
  Foreign = {"f"}
  Quota = 1
  Direct = TRUE
  MaxMsgs = 3
  MaxErrors = 1
  Nodes = {1, 2}
  Migrations = 2
  Stale = 1
  MaxTime = 4
  MaxFaults = 2
  Callers = {c1, c2}
  MaxRows = 2
  MaxRequests = 3
  MaxTableFaults = 1
  Services = {"x", "y"}
  MaxValues = 4
  MaxCalls = 4
  MaxCallFaults = 1
  Templates = {1, 2}
  Scripts = {3}
  FeedPage = 2
  Persisted = FALSE
  MaxEdits = 3
  MaxSysvolFaults = 1
  MaxAnswer = 2
  MaxNodes = 2
  MaxLogons = 2
  MaxPipes = 1
  MaxSealed = 2
  MaxChanges = 1
INVARIANTS
  GrantsUnique
