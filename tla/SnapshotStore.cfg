SPECIFICATION FairSpec
CONSTANTS
  Requests = {r1, r2}
  Appliers = {a1}
  Snapshots = {s0, s1, s2}
  Initial = s0
  None = None
  MaxRetired = 1
INVARIANTS RefCountExact RetiredWhileHeldStaysListed RetiredBounded
PROPERTIES RetiredReclaimed
