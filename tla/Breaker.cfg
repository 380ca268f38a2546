SPECIFICATION FairSpec
CONSTANTS
  Requests = {r1, r2}
  HalfOpenMaxProbes = 1
  MinimumRequests = 1
  Threshold = 50
  MaxAttempts = 2
  MaxCount = 1
INVARIANTS ProbeDeficitBounded
PROPERTIES HalfOpenEnds
