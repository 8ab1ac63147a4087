----------------------------- MODULE MCSeqFile ------------------------------
(* Short and empty records, one that outgrows a page and one that fails.             *)
EXTENDS SeqFile

MCLength == [r \in 1 .. 5 |-> CASE r = 1 -> 1 [] r = 2 -> 0 [] r = 3 -> 4 [] r = 4 -> 2 [] r = 5 -> 1]
=============================================================================
