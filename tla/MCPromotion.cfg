SPECIFICATION Spec
CONSTANTS
  Sessions = 1
  MinSessions = 1
  TestnetCap = 2
  MinOrders = 2
  CanaryCap = 2
  Testnet = {"session", "order"}
  Canary = {c1}
  Overlap = FALSE
  Faults = {"lag", "query", "timeout", "late"}
  MaxOrders = 3
  MaxDays = 2
  MaxCrashes = 1
CHECK_DEADLOCK FALSE
INVARIANTS LadderInOrder TestnetBudget
