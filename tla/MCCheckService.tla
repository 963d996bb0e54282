--------------------------- MODULE MCCheckService ---------------------------
(* Instances of CheckService for TLC.                                      *)
EXTENDS CheckService, TLC

CONSTANTS c1, c2, p1, p2

OneCheck == {c1}
TwoChecks == {c1, c2}
OnePoller == {p1}
TwoPollers == {p1, p2}

Symmetry == Permutations(Checks) \cup Permutations(Pollers)
=============================================================================
