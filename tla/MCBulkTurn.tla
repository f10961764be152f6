----------------------------- MODULE MCBulkTurn -----------------------------
(* Small instances of BulkTurn.                                            *)
EXTENDS MCBulk, BulkTurn
=============================================================================
