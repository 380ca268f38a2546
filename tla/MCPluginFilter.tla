--------------------------- MODULE MCPluginFilter ---------------------------
EXTENDS PluginFilter

Cfg(enabled, failures, probes) == [enabled |-> enabled, failures |-> failures, probes |-> probes]

\* Two routes that ask for the same filter with different settings, and one
\* whose breaker is disabled.
TwoRoutes == {Cfg(TRUE, 2, 1), Cfg(TRUE, 1, 2)}
ThreeRoutes == TwoRoutes \cup {Cfg(FALSE, 1, 1)}
=============================================================================
