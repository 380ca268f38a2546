--------------------------- MODULE MCConfigApply ---------------------------
EXTENDS ConfigApply, TLC

CONSTANTS c0, c1, late, invalid, p1, p2

AllConfigs == {c0, c1, late, invalid}
GoodConfigs == {c0, c1}
MCPools == {p1, p2}

\* c1 adds p2 to c0; the two bad ones name p2 only.
MCPoolsOf ==
  [c \in Configs |-> Pools \cap (CASE c = c0 -> {p1} [] c = c1 -> {p1, p2} [] OTHER -> {p2})]
MCVerdict ==
  [c \in Configs |-> CASE c = late -> "late" [] c = invalid -> "invalid" [] OTHER -> "ok"]

Symmetry == Permutations(Operators)
=============================================================================
