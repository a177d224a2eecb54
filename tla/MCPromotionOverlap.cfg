SPECIFICATION Spec
CONSTANTS
  Sessions = 1
  MinSessions = 1
  TestnetCap = 3
  MinOrders = 2
  CanaryCap = 2
  Testnet = {"session"}
  Canary = {c1, c2}
  Overlap = TRUE
  Faults = {"query"}
  MaxOrders = 4
  MaxDays = 1
  MaxCrashes = 0
SYMMETRY CanarySymmetry
CHECK_DEADLOCK FALSE
INVARIANTS EvidenceIsDistinct
