CONSTANTS
  Strategy = {s1, s2}
  Default = Default
  MaxOpenBooks = 2
  MaxSameDirection = 2
  MaxSameSignalDirection = 1
  MaxEntries = 2
  MaxConsecutiveLosses = 1
  MaxCycle = 3
  MaxSnapshot = 2
  MaxCrash = 1
SYMMETRY StrategySymmetry
SPECIFICATION Spec
INVARIANTS
  RecordedOnce
  ClearedIsRecorded
  DivergenceNeedsCut
  FilledIsConsumed
  StrategyFillHasRoom
  CapsHold
