SPECIFICATION MCSpec
CONSTANTS
  None = None
  Clients = {1, 2}
  PoolSize = 2
  FeedLimit = 1
  Nodes = 1
  Tasks = {1, 2}
  Reservable <- OneReservation
  MaxClock = 3
  MaxElapsed = 1
  MaxCrashes = 1
INVARIANTS
  LeasesExclusive
PROPERTIES
  Freed  UpdateSeen  
CHECK_DEADLOCK FALSE
