-------------------------- MODULE MCRowProcessing --------------------------
(* RowProcessing for TLC: two workers with chunks of up to two rows.       *)
EXTENDS RowProcessing

CONSTANTS w1, w2

MCRow == 1 .. 4
MCWorker == {w1, w2}
MCOwnerOf == [r \in MCRow |-> IF r <= 2 THEN w1 ELSE w2]
=============================================================================
