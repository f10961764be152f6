------------------------------ MODULE MCPurge ------------------------------
(* Small instances of GracePurge.                                          *)
EXTENDS GracePurge, TLC

CONSTANTS p1, p2, d1, s1, c1, i1, i2

Symmetry == Permutations(Purgers) \cup Permutations(Items)
============================================================================
