SPECIFICATION FairSpec
CONSTANTS
  Filters <- MCFilters
  MaxAttempts = 3
INVARIANTS HeldIsDeferred OneAnswer UpstreamComesLast AttemptsBounded
 
CHECK_DEADLOCK FALSE
