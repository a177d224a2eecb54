CONSTANTS
  OrderId = {o1, o2, o3}
  NoOrder = NoOrder
  Size = 1
  Moves <- Lose
  MaxDaily = 1
  LossLimit = 1
  ExposureCap = 1
  MaxHold = 1
  UntimedCandles = TRUE
  MaxDay = 1
  MaxCandle = 1
  MaxCrash = 1
SPECIFICATION FairSpec
INVARIANT
  TrackedIsHeld
PROPERTY
  OpenEventuallyClosed
