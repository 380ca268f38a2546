--------------------------- MODULE MCRetryBudget ---------------------------
EXTENDS RetryBudget, TLC

MCRoutePercent == [p \in Policies |-> IF p = "old" THEN 50 ELSE 100]
MCClientPercent == [p \in Policies |-> 100]
MCSymmetry == Permutations(Requests) \cup Permutations(Clients)
=============================================================================
