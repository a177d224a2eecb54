CONSTANTS
  Cases <- MCCases
  NumericFeatures <- MCNumeric
  CategoricalFeatures <- MCCategorical
  RuntimeUnavailable = {"open_interest"}
  ThresholdFeatures <- MCThreshold
  PriceFeatures <- MCPrices
  LabelFeatures <- MCLabelFeatures
  Labels <- MCLabels
  Columns <- MCColumns
  RANGE = RANGE
  UP = UP
  DOWN = DOWN
  TREND_UP = TREND_UP
  UNCLEAR = UNCLEAR
  MinValues = 4
  Quantiles <- MCQuantiles
  NumericComparisons <- MCComparisons
  StopAtrRange <- MCStopRange
  TargetAtrRange <- MCTargetRange
  HoldingRange <- MCHoldingRange
  ExitSpace <- MCExitSpace
  Shifts <- MCShifts
  Exits <- MCExits
  Picks <- MCPicks
  Levels <- MCLevels
  Timeframe = "1h"
  BatchSize = 4
  MaxAttempts = 2
  Population = 3
  Generations = 2
  EliteSize = 2
  TopN = 2
  TrainPercent = 70
  HoldoutMinTrades = 1
  FitTrades = 2
  MaxBatches = 2
  Slip = 1
  Fee = 0
  RUnit = 6
  NumWindows = 3
  Gate <- MCGate
  Healthy = 10
  Critical = 0
  SampleTarget = 8
SPECIFICATION SearchSpec
INVARIANTS NoLookAhead HoldoutUntouched BredIsValid ChampionUndominated
CHECK_DEADLOCK FALSE
