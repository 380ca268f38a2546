SPECIFICATION Spec
CONSTANTS
  Requests = {q1, q2}
  Clients = {c1, c2}
  None = None
  Policies = {"old", "new"}
  RoutePercent <- MCRoutePercent
  ClientPercent <- MCClientPercent
  Burst = 1
  LRUSize = 1
  MaxSuccesses = 3
  MaxBudgets = 4
SYMMETRY MCSymmetry
INVARIANTS RetriesWithinBudget RetriesWithinClientCap
CHECK_DEADLOCK FALSE
