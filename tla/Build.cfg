CONSTANTS
  Names <- MCNames
  StageLists <- MCStageLists
  DepLists <- MCDepLists
  Bounds <- MCBounds
SPECIFICATION Spec
INVARIANT BuiltOrder
INVARIANT CycleIsReal
INVARIANT VerdictIsRight
INVARIANT LevelsByDepth
PROPERTY Terminates
