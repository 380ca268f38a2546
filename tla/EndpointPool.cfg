SPECIFICATION FairSpec
CONSTANTS
  None = None
  Addrs = {a1, a2}
  Configs = {{a1}, {a1, a2}}
  Runtimes = {e1, e2}
  Requests = {r1}
  UnhealthyAfter = 1
  HealthyAfter = 1
  Active = TRUE
INVARIANTS ConfiguredServes InflightNeverOver
PROPERTIES Recovers
