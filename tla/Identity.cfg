SPECIFICATION MCSpec
CONSTANTS
  None = None
  DCs = {1, 2}
  Users = {1}
  Peers <- Mutual
  Seed <- SeedBoth
  Writers = {1, 2}
  WellKnown = 1
  PageMax = 2
  Concurrent = FALSE
  MayDisable = FALSE
  Restarts <- BothOnce
  MaxWrites = 2
  MaxFailures = 1
  MaxClock = 1
  Names = {"a", "b"}
  Calls = {"1", "2"}
  AutoProvision = TRUE
  MaxSessions = 2
  MaxChanges = 2
  Nodes = {"p", "s"}
  Primary = "p"
  AdminNode <- OneAdmin
  Ttl = 1
  Grace = 2
  MaxTime = 4
  MaxKeys = 3
  MaxFaults = 2
  InsertsFail = FALSE
  Clients = {"c", "d"}
  Requests = {"1", "2"}
  MaxCodes = 1
  Sessions = {"s", "t"}
  Only <- OnlyRevokes
  MaxLogins = 2
  MaxQueryFaults = 1
  TreeRequests = {1, 2}
  Rdns = {"u", "g"}
  GroupRdns = {"g"}
  Depth = 3
  MaxOps = 4
  MaxTreeFaults = 1
  GroupDCs = {1, 2}
  Members = {"m", "n"}
  Editors = {11, 12}
  MaxEdits = 2
  MaxResets = 1
  MaxRestarts = 1
  MaxGroupClock = 1
INVARIANTS
  PortalGuarded TokensVerify CodeOnce   
PROPERTIES
  MastersSound LinksAdvance
CHECK_DEADLOCK FALSE
