CONSTANTS
  Order <- MCOrder
  Seeds <- MCSeeds
  Outputs <- MCOutputs
  Namespace <- G
  Locals = {"x", "y"}
  Reads <- MCReads
  Elements <- MCElements
  ElementGraphs <- MCElementGraphs
  Restored <- MCRestored
  MaxLineageDepth = 4
  MaxWrites = 3
SPECIFICATION Spec
INVARIANT LineageIsReachable
INVARIANT LineageIsDataflow
