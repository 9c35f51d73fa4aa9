SPECIFICATION Spec
CONSTANTS
  None = None
  DCs = {1, 2}
  Users = {1}
  Peers <- Mutual
  Seed <- SeedOne
  Writers = {1, 2}
  WellKnown = 1
  PageMax = 2
  Concurrent = FALSE
  MayDisable = FALSE
  Restarts <- BothOnce
  MaxWrites = 2
  MaxFailures = 0
  MaxClock = 1
PROPERTIES PasswordsAdvance
