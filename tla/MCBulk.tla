------------------------------- MODULE MCBulk -------------------------------
(* Small instances of BulkImport.                                          *)
EXTENDS BulkImport, TLC

CONSTANTS j1, j2, w1, w2

(* Worker processes of one lane each, or lanes of one process.             *)
OwnHost == [w \in Workers |-> w]
OneHost == [w \in Workers |-> "worker"]

(* The first file a PDF, the second not; or every file a PDF.              *)
FirstPdf == [j \in Jobs |-> {1}]
AllPdfs  == [j \in Jobs |-> Files]

Symmetry == Permutations(Workers) \cup Permutations(Jobs)
=============================================================================
