SPECIFICATION Spec
CONSTANTS
  None = None
  Requests = {r1, r2, r3}
  Keys = {k1, k2, k3}
  Coalesced = {k1, k2}
  MaxFlights = 1
  TTL = 1
  MaxClock = 2
CHECK_DEADLOCK FALSE
INVARIANTS SharedOnlyIfCacheable FlightHasLeader FollowerIsReleased
