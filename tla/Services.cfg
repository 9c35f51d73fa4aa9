SPECIFICATION MCSpec
CONSTANTS
  Parts = {"proxy", "store", "turns", "queue", "access", "acme", "proxies", "sync", "directory"}
  Vhosts = {"v"}
  HostOf <- OneHost
  Rules = {}
  Upstreams <- TwoUpstreams
  Strategy = "least_conn"
  Requests = {1, 2}
  MaxEdits = 2
  MaxFaults = 1
  Msgs = {1, 2, 3}
  FlagSets = {"new", "seen"}
  NoFlags = "new"
  FEED_LIMIT = 1
  ALERT_AFTER_FAILURES = 2
  STUCK_AFTER_CYCLES = 2
  MaxWriters = 1
  Imported = {1, 2}
  MayImport = FALSE
  MayHang = FALSE
  MaxClock = 3
  MaxFlagChanges = 1
  MaxFlips = 0
  MaxPrimaryCrashes = 0
  MaxSecondaryCrashes = 1
  MaxOutages = 1
INVARIANTS
  StoreFollows InflightExact
PROPERTIES
  Converges Drains BlockArrives DomainServed SavesConverge  KdcFollows
CHECK_DEADLOCK FALSE
