CONSTANTS
  Collections <- MCCollections
  Rollups <- MCRollups
  Values <- MCValues
  Rules <- MCRules
  Reduce <- MCReduce
  MaxCalls = 2
SPECIFICATION Spec
INVARIANT ElementsApart
INVARIANT RollupsMatchItems
INVARIANT RecordsFollowElements
