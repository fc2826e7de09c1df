----------------------------- MODULE MCSandbox -----------------------------
EXTENDS Sandbox, TLC

CONSTANTS d1, d2, l1, l2

Symmetry == Permutations({l1, l2}) \cup Permutations({d1, d2})
=============================================================================
