CONSTANTS
  Inputs <- FewInputs
  Configs <- EveryConfig
  Risks <- FewRisks
  MaxManual = 1
  MaxCollections = 2
SPECIFICATION Spec
INVARIANTS
  IntentIsOnRealData
  AuthorityIsOnItsOwnReport
  IntentIsOfOneCycle
  ChainDecides
  GateOnlyCloses
CHECK_DEADLOCK FALSE
