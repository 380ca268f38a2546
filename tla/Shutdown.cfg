SPECIFICATION FairSpec
CONSTANTS
  Conns = {c1, c2}
  MaxRequests = 2
INVARIANTS DrainedMeansIdle IdleTrackerSignals
PROPERTIES ShutdownEndsUnlessPanic
CHECK_DEADLOCK FALSE
