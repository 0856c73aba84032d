---------------------------- MODULE MCWorkQueue ----------------------------
(* WorkQueue for TLC: two workers and two rows.                            *)
EXTENDS WorkQueue, TLC

CONSTANTS w1, w2, r1

MCItem == 1 .. 2
MCWorker == {w1, w2}
MCRef == {r1}

MCSymmetry == Permutations(MCWorker)
=============================================================================
