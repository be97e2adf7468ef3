CONSTANTS
  Stage <- Three
  Pipelines <- MCThree
SPECIFICATION Spec
INVARIANT DepsVisible
INVARIANT SemaphoreBound
INVARIANT IsolatedOverlap
INVARIANT NoLeak
INVARIANT NothingPastFailure
INVARIANT ReportedOrder
INVARIANT SameErrorIfAligned
PROPERTY KeepsContract
PROPERTY Terminates
