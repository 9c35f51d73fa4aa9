SPECIFICATION Spec
CONSTANTS
  c1 = c1
  c2 = c2
  None = None
  Centers = {c1}
  Servers = {1, 2, 3}
  Intents <- TwoStandbys
  Static = {}
  Spare = {3}
  FailureThreshold = 1
  MayHang = TRUE
  DnsPolicy = TRUE
  Operations = {"promote", "demote", "policy", "intent", "register", "delete"}
  MaxOperations = 2
  MaxFaults = 1
INVARIANTS RolesSound
PROPERTIES Settles ActiveNotDemoted
