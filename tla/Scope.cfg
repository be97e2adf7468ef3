CONSTANTS
  Stage <- TwoStages
  Seed <- OrderSeed
  Programs <- MCPrograms
  Paths <- AllPaths
  CloneDepth = 4
SPECIFICATION HeapSpec
INVARIANT CallerUntouched
INVARIANT Deterministic
PROPERTY SiblingIsolation
