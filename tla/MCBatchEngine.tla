--------------------------- MODULE MCBatchEngine ---------------------------
(* BatchEngine for TLC: two workers, in one run or in a run each.          *)
EXTENDS BatchEngine

CONSTANTS w1, w2, r1, r2

MCWorker == {w1, w2}

OneRun == {r1}
Pool == [w \in MCWorker |-> r1]

TwoRuns == {r1, r2}
Replicas == [w \in MCWorker |-> IF w = w1 THEN r1 ELSE r2]

TwoItems == 1 .. 2
ThreeItems == 1 .. 3

NoneLate == {}
LastLate == {2}

ProcessFaults == {"crash"}
PoolFaults == {"db", "storage", "heartbeat"}
=============================================================================
