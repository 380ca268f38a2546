SPECIFICATION FairSpec
CONSTANTS
  None = None
  Requests = {r1, r2}
  Configs <- ThreeRoutes
  Clients = {c1, c2, c3}
INVARIANTS SlotsComeBack OpenIsAccountedFor CalledIsOpen
 
