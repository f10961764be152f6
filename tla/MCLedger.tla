------------------------------ MODULE MCLedger ------------------------------
(***************************************************************************)
(* Two purchases of one payee and price, reported in four entries.         *)
(***************************************************************************)
EXTENDS ChargeLedger

CONSTANTS c1, c2

MCCharges == {c1, c2}
=============================================================================
