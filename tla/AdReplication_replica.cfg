SPECIFICATION Spec
CONSTANTS
  None = None
  DCs = {1, 2}
  Users = {1, 2, 3}
  Peers <- Replica
  Seed <- SeedFirst
  Writers = {1}
  WellKnown = 1
  PageMax = 1
  Concurrent = FALSE
  MayDisable = TRUE
  Restarts <- ReplicaTwice
  MaxWrites = 1
  MaxFailures = 1
  MaxClock = 1
INVARIANTS ReplicaSound
PROPERTIES CatchesUp
