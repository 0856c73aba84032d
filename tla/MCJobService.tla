---------------------------- MODULE MCJobService ----------------------------
(* JobService for TLC: an API process, its successors and run_worker.      *)
EXTENDS JobService

CONSTANTS w1, w2, w3, r1, r2, r3

TwoWorkers == {w1, w2}
ThreeWorkers == {w1, w2, w3}
TwoRuns == {r1, r2}
ThreeRuns == {r1, r2, r3}

OneEach == [w \in TwoWorkers |-> IF w = w1 THEN r1 ELSE r2]
OneOfThree == [w \in ThreeWorkers |-> IF w = w1 THEN r1
                                      ELSE IF w = w2 THEN r2 ELSE r3]

SubmitResume == [r \in TwoRuns |-> IF r = r1 THEN "submit" ELSE "resume"]
SubmitResumeTwice == [r \in ThreeRuns |-> IF r = r1 THEN "submit" ELSE "resume"]
OneOfAKind == [r \in ThreeRuns |-> IF r = r1 THEN "submit"
                                   ELSE IF r = r2 THEN "resume" ELSE "worker"]

OneItem == {1}
ThreeItems == 1 .. 3
LastRejected == {2}
NoneRejected == {}

ProcessFaults == {"crash"}
OverlapFaults == {"db", "crash"}
=============================================================================
