SPECIFICATION FairSpec
CONSTANTS
  Appliers = {a1}
  Requests = {r1}
  Configs = {ca, cb, bad}
  Unbuildable = {bad}
  Off = Off
  None = None
  Plans = {p1, p2, p3, p4}
  MaxApplies = 3
INVARIANTS RunningIsListed
PROPERTIES ReloadKeepsPlan 
