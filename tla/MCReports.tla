----------------------------- MODULE MCReports -----------------------------
(* Reports for TLC: one process, two workers, one client.                  *)
EXTENDS Reports, TLC

CONSTANTS w1, w2, r1

TwoWorkers == {w1, w2}
OneRun == {r1}
Pool == [w \in TwoWorkers |-> r1]
JustSubmit == [r \in OneRun |-> "submit"]
TwoItems == 1 .. 2
ThreeItems == 1 .. 3
NoneRejected == {}
LastRejected == {3}
NoneSplits == {}
FirstSplits == {1}
NoFaults == {}
PoolFaults == {"db", "storage", "heartbeat"}
Symmetry == Permutations(TwoWorkers)
=============================================================================
