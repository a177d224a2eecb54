CONSTANTS
  OrderId = {o1, o2, o3, o4}
  NoOrder = NoOrder
  Size = 2
  Moves <- WinOrLose
  MaxDaily = 2
  LossLimit = 2
  ExposureCap = 4
  MaxHold = 2
  UntimedCandles = FALSE
  MaxDay = 2
  MaxCandle = 2
  MaxCrash = 1
SYMMETRY IdSymmetry
SPECIFICATION Spec
INVARIANTS
  TypeOK
  CloseAccounted
  LedgerReal
  OneDuplicatePerCrash
  TornLedgerStopsEntries
  DailyBudget
  BudgetCoversVenue
  EntrySeesLosses
PROPERTY
  ImplementsLivePosition
