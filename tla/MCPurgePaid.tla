----------------------------- MODULE MCPurgePaid -----------------------------
(* Small instances of PurgePaid.                                           *)
EXTENDS MCPurge, PurgePaid
=============================================================================
