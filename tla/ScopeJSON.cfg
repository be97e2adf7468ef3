CONSTANTS
  Values <- MCValues
  Foreign <- MCForeign
  Half = 8
  Exact = 4
  FloatMax = 40
  Minute = 2
  MaxYear = 9
  MaxDepth = 2
  MaxTrips = 3
SPECIFICATION Spec
INVARIANT RestoredAsSaved
INVARIANT RefusesExactly
INVARIANT GettersSurvive
