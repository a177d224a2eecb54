CONSTANTS
  OrderId = {o1, o2, o3}
  NoOrder = NoOrder
  Size = 2
  Moves <- WinOrLose
  MaxDaily = 2
  LossLimit = 2
  ExposureCap = 2
  MaxHold = 1
  UntimedCandles = FALSE
  MaxDay = 1
  MaxCandle = 1
  MaxCrash = 0
SYMMETRY IdSymmetry
SPECIFICATION Spec
INVARIANT
  EveryCloseFillReachesLedger
