CONSTANTS
  Half = 8
  Exact = 4
  Shortest <- MCShortest
  Lists <- UpToThree
SPECIFICATION FoldSpec
INVARIANT SumExact
INVARIANT OverflowIsReal
INVARIANT ElementIsExtreme
