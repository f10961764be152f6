--------------------------- MODULE MCPlaidLink ---------------------------
(* One link token, opened in two windows.                                  *)
EXTENDS PlaidLink, TLC

CONSTANTS s1, a, b

OneSession == [t \in Tokens |-> s1]

Symmetry == Permutations(Tokens)
==========================================================================
