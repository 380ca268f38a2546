SPECIFICATION FairSpec
CONSTANTS
  None = None
  Default = Default
  c0 = c0
  c1 = c1
  late = late
  invalid = invalid
  p1 = p1
  p2 = p2
  Configs <- AllConfigs
  Pools <- MCPools
  PoolsOf <- MCPoolsOf
  Verdict <- MCVerdict
  InitialConfig = c0
  Operators = {o1}
  Requests = {r1}
  Kinds = {"validate", "apply", "bundle"}
INVARIANTS PublishedIsValid SlotIsLastApplied 
PROPERTIES OperationEnds
