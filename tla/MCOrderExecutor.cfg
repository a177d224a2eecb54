CONSTANTS
  Runner = {r1, r2}
  Manual = {m1}
  Script = {s1}
  NoOne = NoOne
  TTL = 1
  MaxDecision = 2
  MaxTime = 3
  MaxCrash = 2
SYMMETRY RunnerSymmetry
SPECIFICATION Spec
INVARIANTS
  DuplicateNeedsRace
  OwnDecision
  ReconcilesOwn
