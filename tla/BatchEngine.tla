---------------------------- MODULE BatchEngine ----------------------------
(***************************************************************************)
(* BatchEngine.run and its Workers, over the table of WorkQueue and the    *)
(* result objects of the storage backend, for one job.  A run is one call  *)
(* of BatchEngine.run: in the process that accepted the job, in one that   *)
(* resumed it, or in run_worker.  Runs share only the table and the        *)
(* storage.  Rows that are ingested while a run is going on (a resumed     *)
(* replica's pass, run_worker started early) are Late.                     *)
(*                                                                         *)
(* A worker is suspended at each await, so every action below is the code  *)
(* between two of them.                                                    *)
(***************************************************************************)
EXTENDS Integers, FiniteSets

CONSTANTS
  Item, Worker, ChunkSize, LeaseTTL, TxnAge, RetryMaxAttempts, MaxDeliveries,
  NoWorker, NoRef,   \* see WorkQueue
  NoResult,          \* the worker has no ResultRecord for the row
  Late,              \* the rows not yet in the table when it all begins
  Run,               \* the calls of BatchEngine.run there can be
  RunOf,             \* the call each worker belongs to
  Faults             \* which failures happen: see AllFaults

VARIABLES
  status, owner, lease, attempts, ref, lock, txn,  \* the table, see WorkQueue
  pc,        \* where a worker is
  held,      \* ClaimedItem.attempts of its chunk's rows, 0 for other rows
  outcome,   \* its ResultRecords
  todo,      \* the results complete_items has still to write
  hb,        \* its heartbeat task
  objects,   \* the result objects in storage
  run        \* the state of each run

(* An object is named by a uuid4; the claim it was written for stands for  *)
(* that name, since no worker claims the same delivery of a row twice.     *)
Ref == [by : Worker, held : [Item -> Nat]]

Q == INSTANCE WorkQueue

tableVars == <<status, owner, lease, attempts, ref, lock, txn>>
wvars == <<pc, held, outcome, todo, hb>>
vars == <<tableVars, wvars, objects, run>>

AllFaults == {"db", "storage", "heartbeat", "crash"}

ASSUME EngineAssumption ==
  /\ Item \subseteq Nat
  /\ IsFiniteSet(Item)
  /\ ChunkSize \in Nat \ {0}
  /\ LeaseTTL \in Nat
  /\ TxnAge \in 0 .. LeaseTTL
  /\ RetryMaxAttempts \in Nat \ {0}
  /\ MaxDeliveries \in Nat \ {0}
  /\ NoWorker \notin Worker
  /\ NoRef \notin Ref
  /\ NoResult \notin Q!Result
  /\ Late \subseteq Item
  /\ RunOf \in [Worker -> Run]
  /\ Faults \subseteq AllFaults

(* Settings.worker_pool_size is positive.                                  *)
ASSUME PoolAssumption == \A r \in Run : \E w \in Worker : RunOf[w] = r

Working == {"process", "flush", "commit"}
Ended == {"done", "raised", "dead"}

TypeOK ==
  /\ Q!TypeOK
  /\ pc \in [Worker -> {"off", "claim"} \cup Working \cup Ended]
  /\ held \in [Worker -> [Item -> Nat]]
  /\ outcome \in [Worker -> [Item -> Q!Result \cup {NoResult}]]
  /\ todo \in [Worker -> SUBSET Item]
  /\ hb \in [Worker -> {"off", "on", "raised"}]
  /\ \A o \in objects :
       o.ref \in Ref /\ o.recs \in [Item -> Q!Result \cup {NoResult}]
  /\ run \in [Run -> {"idle", "running", "completed", "failed", "crashed"}]

NoneHeld == [i \in Item |-> 0]
NoOutcome == [i \in Item |-> NoResult]

(* The other rows of the file are in the table, accepted or rejected.      *)
Init ==
  /\ \E F \in SUBSET (Item \ Late) : Q!InitWith((Item \ Late) \ F, F)
  /\ pc = [w \in Worker |-> "off"]
  /\ held = [w \in Worker |-> NoneHeld]
  /\ outcome = [w \in Worker |-> NoOutcome]
  /\ todo = [w \in Worker |-> {}]
  /\ hb = [w \in Worker |-> "off"]
  /\ objects = {}
  /\ run = [r \in Run |-> "idle"]

Chunk(w) == {i \in Item : held[w][i] > 0}
WorkersOf(r) == {w \in Worker : RunOf[w] = r}

(* The local variables of a chunk's iteration go out of scope.             *)
DropChunks(W) ==
  /\ held' = [w \in Worker |-> IF w \in W THEN NoneHeld ELSE held[w]]
  /\ outcome' = [w \in Worker |-> IF w \in W THEN NoOutcome ELSE outcome[w]]
  /\ todo' = [w \in Worker |-> IF w \in W THEN {} ELSE todo[w]]
  /\ hb' = [w \in Worker |-> IF w \in W THEN "off" ELSE hb[w]]

(* The exception leaves Worker.run; the other workers keep running.        *)
Raises(w) == pc' = [pc EXCEPT ![w] = "raised"] /\ DropChunks({w})

----------------------------------------------------------------------------
(* claim_chunk.                                                            *)
ScanRow(w) ==
  /\ pc[w] = "claim"
  /\ Q!ClaimRow(w)
  /\ UNCHANGED <<wvars, objects, run>>

ClaimChunk(w) ==
  /\ pc[w] = "claim"
  /\ Q!ClaimCommit(w)
  /\ held' = [held EXCEPT ![w] =
                [i \in Item |-> IF lock[i] = w THEN attempts'[i] ELSE 0]]
  /\ pc' = [pc EXCEPT ![w] = "process"]
  /\ hb' = [hb EXCEPT ![w] = "on"]
  /\ UNCHANGED <<outcome, todo, objects, run>>

NoChunk(w) ==
  /\ pc[w] = "claim"
  /\ Q!ClaimNothing(w)
  /\ pc' = [pc EXCEPT ![w] = "done"]
  /\ UNCHANGED <<held, outcome, todo, hb, objects, run>>

(* _heartbeat, beside _process_chunk until the last row is done.           *)
Heartbeat(w) ==
  /\ hb[w] = "on"
  /\ Q!RenewLease(w)
  /\ UNCHANGED <<wvars, objects, run>>

(* renew_lease raises: the task ends, unobserved until it is awaited.      *)
HeartbeatFails(w) ==
  /\ "heartbeat" \in Faults
  /\ hb[w] = "on"
  /\ hb' = [hb EXCEPT ![w] = "raised"]
  /\ UNCHANGED <<tableVars, pc, held, outcome, todo, objects, run>>

(* _process_chunk returns a ResultRecord for every row; the heartbeat is   *)
(* cancelled.                                                              *)
OneAttemptTooMany(w) ==  \* mutant: the retry loop runs once more
  /\ pc[w] = "process"
  /\ hb[w] = "on"
  /\ \E a \in 1 .. RetryMaxAttempts + 1 :
       outcome' = [outcome EXCEPT ![w] =
                    [i \in Item |-> IF i \in Chunk(w)
                                    THEN [status |-> "FAILED", attempts |-> a]
                                    ELSE NoResult]]
  /\ pc' = [pc EXCEPT ![w] = "flush"]
  /\ hb' = [hb EXCEPT ![w] = "off"]
  /\ UNCHANGED <<tableVars, held, todo, objects, run>>

HeartbeatNotCancelled(w) ==  \* mutant: awaited, and only an error ends it
  /\ pc[w] = "process"
  /\ hb[w] = "raised"
  /\ Raises(w)
  /\ UNCHANGED <<tableVars, objects, run>>

ProcessChunk(w) ==
  /\ pc[w] = "process"
  /\ hb[w] = "on"
  /\ \E res \in [Chunk(w) -> Q!Result] :
       outcome' = [outcome EXCEPT ![w] =
                    [i \in Item |-> IF i \in Chunk(w) THEN res[i]
                                    ELSE NoResult]]
  /\ pc' = [pc EXCEPT ![w] = "flush"]
  /\ hb' = [hb EXCEPT ![w] = "off"]
  /\ UNCHANGED <<tableVars, held, todo, objects, run>>

(* "await heartbeat" raises what renew_lease raised: the results are lost. *)
ProcessChunkRaises(w) ==
  /\ pc[w] = "process"
  /\ hb[w] = "raised"
  /\ Raises(w)
  /\ UNCHANGED <<tableVars, objects, run>>

----------------------------------------------------------------------------
Name(w) == [by |-> w, held |-> held[w]]

(* write_chunk, under a fresh name.                                        *)
WriteChunk(w) ==
  /\ pc[w] = "flush"
  /\ objects' = objects \cup {[ref |-> Name(w), recs |-> outcome[w]]}
  /\ todo' = [todo EXCEPT ![w] = Chunk(w)]
  /\ pc' = [pc EXCEPT ![w] = "commit"]
  /\ UNCHANGED <<tableVars, held, outcome, hb, run>>

WriteErrorIgnored(w) ==  \* mutant: the error is logged and the chunk committed
  /\ "storage" \in Faults
  /\ pc[w] = "flush"
  /\ todo' = [todo EXCEPT ![w] = Chunk(w)]
  /\ pc' = [pc EXCEPT ![w] = "commit"]
  /\ UNCHANGED <<tableVars, held, outcome, hb, objects, run>>

WriteErrorSkipsChunk(w) ==  \* mutant: the error is logged, the loop goes on
  /\ "storage" \in Faults
  /\ pc[w] = "flush"
  /\ pc' = [pc EXCEPT ![w] = "claim"]
  /\ DropChunks({w})
  /\ UNCHANGED <<tableVars, objects, run>>

WriteFails(w) ==
  /\ "storage" \in Faults
  /\ pc[w] = "flush"
  /\ Raises(w)
  /\ UNCHANGED <<tableVars, objects, run>>

(* complete_items: one UPDATE per result, then the commit.                 *)
CompleteRow(w) ==
  /\ pc[w] = "commit"
  /\ \E i \in todo[w] :
       /\ Q!CompleteRow(w, i)
       /\ todo' = [todo EXCEPT ![w] = @ \ {i}]
  /\ UNCHANGED <<pc, held, outcome, hb, objects, run>>

NeverCommitted(w) ==  \* mutant: the session is closed without a commit
  /\ pc[w] = "commit"
  /\ todo[w] = {}
  /\ Q!Rollback(w)
  /\ pc' = [pc EXCEPT ![w] = "claim"]
  /\ DropChunks({w})
  /\ UNCHANGED <<objects, run>>

CompleteChunk(w) ==
  /\ pc[w] = "commit"
  /\ todo[w] = {}
  /\ Q!CompleteCommit(w, outcome[w], Name(w))
  /\ pc' = [pc EXCEPT ![w] = "claim"]
  /\ DropChunks({w})
  /\ UNCHANGED <<objects, run>>

(* A statement of claim_chunk or complete_items fails: nothing is written. *)
DbFails(w) ==
  /\ "db" \in Faults
  /\ pc[w] \in {"claim", "commit"}
  /\ Q!Rollback(w)
  /\ Raises(w)
  /\ UNCHANGED <<objects, run>>

(* The connection is lost after the server committed.                      *)
AckLost(w) ==
  /\ "db" \in Faults
  /\ \/ pc[w] = "claim" /\ Q!ClaimCommit(w)
     \/ /\ pc[w] = "commit"
        /\ todo[w] = {}
        /\ Q!CompleteCommit(w, outcome[w], Name(w))
  /\ Raises(w)
  /\ UNCHANGED <<objects, run>>

----------------------------------------------------------------------------
(* BatchEngine.run.                                                        *)
Start(r) ==
  /\ run[r] = "idle"
  /\ run' = [run EXCEPT ![r] = "running"]
  /\ pc' = [w \in Worker |-> IF RunOf[w] = r THEN "claim" ELSE pc[w]]
  /\ UNCHANGED <<tableVars, held, outcome, todo, hb, objects>>

(* gather returned: the job is set COMPLETED.                              *)
FinishAfterErrors(r) ==  \* mutant: gather(..., return_exceptions=True)
  /\ run[r] = "running"
  /\ \A w \in WorkersOf(r) : pc[w] \in {"done", "raised"}
  /\ run' = [run EXCEPT ![r] = "completed"]
  /\ UNCHANGED <<tableVars, wvars, objects>>

Finish(r) ==
  /\ run[r] = "running"
  /\ \A w \in WorkersOf(r) : pc[w] = "done"
  /\ run' = [run EXCEPT ![r] = "completed"]
  /\ UNCHANGED <<tableVars, wvars, objects>>

(* gather raised the first exception of a worker, or set_state failed.     *)
RunFails(r) ==
  /\ run[r] = "running"
  /\ \/ \E w \in WorkersOf(r) : pc[w] = "raised"
     \/ "db" \in Faults /\ \A w \in WorkersOf(r) : pc[w] = "done"
  /\ run' = [run EXCEPT ![r] = "failed"]
  /\ UNCHANGED <<tableVars, wvars, objects>>

(* The process dies; Postgres rolls back its transactions some time later. *)
Crash(r) ==
  /\ "crash" \in Faults
  /\ run[r] \in {"running", "failed"}
  /\ run' = [run EXCEPT ![r] = "crashed"]
  /\ pc' = [w \in Worker |-> IF RunOf[w] = r THEN "dead" ELSE pc[w]]
  /\ DropChunks(WorkersOf(r))
  /\ UNCHANGED <<tableVars, objects>>

ServerRollback(w) ==
  /\ pc[w] = "dead"
  /\ txn[w] # "none"
  /\ Q!Rollback(w)
  /\ UNCHANGED <<wvars, objects, run>>

Tick == Q!Tick /\ UNCHANGED <<wvars, objects, run>>

(* A pass of the ingestor inserts late rows.                               *)
Insert ==
  /\ \E S, F \in SUBSET Late : Q!BulkInsert(S, F)
  /\ UNCHANGED <<wvars, objects, run>>

----------------------------------------------------------------------------
(* What a worker does when nothing goes wrong.                             *)
Step(w) ==
  \/ ScanRow(w) \/ ClaimChunk(w) \/ NoChunk(w)
  \/ ProcessChunk(w) \/ ProcessChunkRaises(w)
  \/ WriteChunk(w) \/ CompleteRow(w) \/ CompleteChunk(w)

Fault(w) == HeartbeatFails(w) \/ WriteFails(w) \/ DbFails(w) \/ AckLost(w)

Next ==
  \/ \E w \in Worker : Step(w) \/ Heartbeat(w) \/ Fault(w) \/ ServerRollback(w)
  \/ \E r \in Run : Start(r) \/ Finish(r) \/ RunFails(r) \/ Crash(r)
  \/ Tick \/ Insert

Spec == Init /\ [][Next]_vars

(* The event loop runs every ready task, inference and database calls end, *)
(* and Postgres notices a dead connection.  Failures, crashes, heartbeats, *)
(* the clock and the decision to start a run are not promised.             *)
Fairness ==
  /\ \A w \in Worker : WF_vars(Step(w)) /\ WF_vars(ServerRollback(w))
  /\ \A r \in Run : WF_vars(Finish(r) \/ RunFails(r))

FairSpec == Spec /\ Fairness

----------------------------------------------------------------------------
(* Properties.                                                             *)

Terminal(i) == status[i] \in Q!Verdict
Recorded(i) == [status |-> status[i], attempts |-> attempts[i]]

(* A worker that goes back to claim_chunk, or ends because it got nothing, *)
(* owns no CLAIMED row: every row of the chunk was settled, or taken over  *)
(* after its lease ran out.  A row it still owned would be renewed with    *)
(* its next chunk's heartbeat and never processed.                         *)
IdleWorkerOwnsNothing ==
  \A w \in Worker, i \in Item :
    pc[w] \in {"claim", "done"} => ~(status[i] = "CLAIMED" /\ owner[i] = w)

(* write_chunk comes before complete_items: a settled row was rejected at  *)
(* ingestion, or its result_ref names a stored object whose record for the *)
(* row has the same status and attempts, whatever failed in between and    *)
(* however many workers processed the row.                                 *)
CommittedRowsAreStored ==
  \A i \in Item : Terminal(i) =>
    \/ ref[i] = NoRef /\ status[i] = "FAILED" /\ attempts[i] = 0
    \/ \E o \in objects : o.ref = ref[i] /\ o.recs[i] = Recorded(i)

(* complete_items settles a row only for the worker that holds the row's   *)
(* latest delivery: a worker whose lease ran out and whose row was         *)
(* re-claimed, even twice, never writes over the new owner's work.         *)
LatestDeliverySettles ==
  [][\A i \in Item :
       status[i] = "CLAIMED" /\ status'[i] \in Q!Verdict =>
         /\ held[owner[i]][i] = attempts[i]
         /\ \A v \in Worker \ {owner[i]} : held[v][i] < attempts[i]]_vars

LoneRun(r) == \A s \in Run \ {r} : run[s] = "idle"

(* A run that finished without an error, and had the table to itself, left *)
(* no row behind that was there when it began: the workers' "no chunk"     *)
(* answers, each given at its own time, add up to a drained queue.         *)
LoneRunDrains ==
  \A r \in Run :
    run[r] = "completed" /\ LoneRun(r) => \A i \in Item \ Late : Terminal(i)

(* Whatever fails, gather returns or raises: no worker waits forever on a  *)
(* row lock or on its heartbeat.                                           *)
EveryRunEnds == \A r \in Run : run[r] = "running" ~> run[r] # "running"

(* While no process dies and nothing fails, every run completes and every  *)
(* row it found is settled, by it or by a run it competes with, even if    *)
(* leases run out under workers that are at work.                          *)
EveryRunDrains ==
  [](\A r \in Run : run[r] \notin {"failed", "crashed"}) =>
    \A r \in Run : run[r] = "running" ~>
      run[r] = "completed" /\ \A i \in Item \ Late : Terminal(i)

(* "idempotent overwrite (effectively exactly-once)", scripts/build_doc.py *)
(* line 290: the results that /download streams hold a row once.           *)
DownloadHasRowOnce ==
  \A i \in Item :
    Cardinality({o \in objects : o.recs[i] # NoResult}) <= 1

(* The table, the workers and the storage are an at-least-once queue with  *)
(* fencing.  A delivery is an increment of attempts, until complete_items  *)
(* reuses that column for the number of inference calls.                   *)
Leased == INSTANCE LeasedQueue WITH
  Consumer <- Worker,
  Verdict <- [status : Q!Verdict, attempts : 0 .. RetryMaxAttempts],
  Open <- NoResult,
  delivery <- [i \in Item |-> IF Terminal(i) THEN 0 ELSE attempts[i]],
  token <- held,
  verdict <- [i \in Item |-> IF Terminal(i) THEN Recorded(i) ELSE NoResult],
  published <- {<<p[1], p[2].recs[p[1]]>> : p \in
                  {q \in Item \X objects : q[2].recs[q[1]] # NoResult}}

ImplementsLeasedQueue == Leased!Spec

----------------------------------------------------------------------------
(* Why the properties hold: an inductive invariant, in parts.              *)

(* Transactions, heartbeats and chunks exist only in their phase; a run    *)
(* that has not begun has no worker at work.                               *)
Phases ==
  \A w \in Worker :
    /\ run[RunOf[w]] = "idle" => pc[w] = "off"
    /\ txn[w] = "claim" => pc[w] \in {"claim", "dead"}
    /\ txn[w] = "complete" => pc[w] \in {"commit", "dead"}
    /\ hb[w] # "off" => pc[w] = "process"
    /\ \A i \in Item : held[w][i] > 0 => pc[w] \in Working

(* A claimed row has an owner that works on this very delivery and has yet *)
(* to settle it, or that failed.                                           *)
OwnersWork ==
  \A i \in Item : status[i] = "CLAIMED" =>
    /\ attempts[i] > 0
    /\ owner[i] \in Worker
    /\ pc[owner[i]] \in Working \cup {"raised", "dead"}
    /\ pc[owner[i]] \in Working => held[owner[i]][i] = attempts[i]
    /\ pc[owner[i]] = "commit" => i \in todo[owner[i]] \/ lock[i] = owner[i]

(* Nobody has touched a row that was never claimed.                        *)
FreshRows ==
  \A i \in Item : status[i] \in {"ABSENT", "PENDING"} =>
    /\ attempts[i] = 0
    /\ ref[i] = NoRef
    /\ \A w \in Worker : held[w][i] = 0

(* No worker holds a delivery the table does not know of, and only the     *)
(* owner can hold the latest one.                                          *)
TokensFenced ==
  \A i \in Item, w \in Worker :
    status[i] = "CLAIMED" =>
      /\ held[w][i] <= attempts[i]
      /\ held[w][i] = attempts[i] => owner[i] = w

(* A worker has results for its chunk only, and between the flush and the  *)
(* commit they are in storage.                                             *)
ResultsKept ==
  \A w \in Worker :
    /\ \A i \in Item \ Chunk(w) : outcome[w][i] = NoResult
    /\ pc[w] \in {"flush", "commit"} =>
         \A i \in Chunk(w) : outcome[w][i] \in Q!Result
    /\ pc[w] = "commit" =>
         \E o \in objects : o.ref = Name(w) /\ o.recs = outcome[w]

EngineInv ==
  /\ TypeOK
  /\ Q!LockedRowsStable
  /\ Phases
  /\ OwnersWork
  /\ FreshRows
  /\ TokensFenced
  /\ ResultsKept
  /\ CommittedRowsAreStored

(* What the workers of a table know when one of them found nothing to      *)
(* claim: a row that is still PENDING is in another worker's claim, or     *)
(* some worker failed.                                                     *)
FoundNothing(i) ==
  \A w \in Worker :
    pc[w] = "done" /\ status[i] = "PENDING" =>
      \/ lock[i] # NoWorker
      \/ \E v \in Worker : pc[v] \in {"raised", "dead"}

CompletedRunsDone ==
  \A r \in Run : run[r] = "completed" => \A w \in WorkersOf(r) : pc[w] = "done"

DrainInv ==
  /\ \A i \in Item \ Late : status[i] # "ABSENT" /\ FoundNothing(i)
  /\ CompletedRunsDone
=============================================================================
