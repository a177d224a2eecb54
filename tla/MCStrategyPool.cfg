CONSTANTS
  Settings <- MCSettings
  Cap = 2
  MaxPerFamily = 1
  MinImprovement = 1
  PseudoTrades = 1
  WarnWindow = 1
  ProbationWindow = 2
  SuspendWindow = 2
  ArchiveMinTrades = 3
  MaxCrashes = 1
SPECIFICATION Spec
INVARIANTS PoolAlwaysSound DegradedIsLogged JudgedOnOwnRecord
PROPERTY TerminalStaysTerminal
CHECK_DEADLOCK FALSE
