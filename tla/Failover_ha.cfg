SPECIFICATION MCSpec
CONSTANTS
  c1 = c1
  c2 = c2
  None = None
  Centers = {c1, c2}
  Servers = {1, 2}
  Intents <- OneStandby
  Static = {}
  Spare = {}
  FailureThreshold = 1
  MayHang = FALSE
  DnsPolicy = FALSE
  Operations = {}
  MaxOperations = 0
  MaxFaults = 3
PROPERTIES HaSettles
