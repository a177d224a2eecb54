CONSTANT Configs <- EachSetting
SPECIFICATION LiveSpec
INVARIANTS
  OrderNeedsCleanCycle
  OrderNeedsEmptySlot
  NoTradeExitMeansNoOrder
PROPERTIES
  RequestedLiveIsServed
