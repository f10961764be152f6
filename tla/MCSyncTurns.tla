---------------------------- MODULE MCSyncTurns ----------------------------
(* SyncTurns for TLC: two new Items with one turn between them, a full     *)
(* sync and another holder of the household's lock, one mishap.  Two pulls *)
(* are all there can be: one with the turn, one that a cancel cost it.     *)
EXTENDS SyncTurns

CONSTANTS i1, i2, f1, d1, p1, p2, nobody
============================================================================
