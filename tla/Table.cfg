CONSTANTS
  Tables <- MCTables
  Keys = {"x", "y"}
  Values <- MCValues
  Agree <- MCAgree
  Reduce <- MCReduce
  MaxCalls = 2
SPECIFICATION Spec
INVARIANT FiringIsWhatMatched
INVARIANT OutputsAreDecided
INVARIANT FailuresLeaveAPrefix
