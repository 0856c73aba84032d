----------------------------- MODULE MCIngestor -----------------------------
(* Ingestor for TLC: every file of five lines over two ids.                *)
EXTENDS Ingestor, TLC

CONSTANTS x1, x2, p1, p2

MCId == {x1, x2}
TwoPasses == {p1, p2}

MCSymmetry == Permutations(MCId) \cup Permutations(TwoPasses)
=============================================================================
