----------------------------- MODULE WorkQueue -----------------------------
(***************************************************************************)
(* The durable work queue: the prompt_items rows of one job in Postgres,   *)
(* and the SQL of PgWorkQueueRepository that reads and writes them.        *)
(*                                                                         *)
(* claim_chunk and complete_items are transactions that hold row locks     *)
(* from one step to a later one, so each is several actions here; an       *)
(* aborted transaction is Rollback.  renew_lease and bulk_insert are one   *)
(* statement each and are one action.  The callers are unconstrained: any  *)
(* worker may call anything with any argument, so what holds here holds    *)
(* for every client of the repository.                                     *)
(***************************************************************************)
EXTENDS Integers, FiniteSets

CONSTANTS
  Item,           \* row ids (prompt_items.id), ordered: claims take the lowest
  Worker,         \* worker ids; every id belongs to one Worker object, ever
  Ref,            \* result_ref values
  ChunkSize,      \* Settings.chunk_size
  LeaseTTL,       \* Settings.lease_ttl_seconds, in clock ticks
  RetryMaxAttempts, \* Settings.retry_max_attempts
  TxnAge,         \* bound: ticks a claim or a renewal transaction can last
  MaxDeliveries,  \* bound on the number of times one row is claimed
  NoWorker,       \* worker_id IS NULL; also: the row is not locked
  NoRef           \* result_ref IS NULL

ASSUME QueueAssumption ==
  /\ Item \subseteq Nat
  /\ IsFiniteSet(Item)
  /\ ChunkSize \in Nat \ {0}
  /\ LeaseTTL \in Nat
  /\ TxnAge \in 0 .. LeaseTTL
  /\ RetryMaxAttempts \in Nat \ {0}
  /\ MaxDeliveries \in Nat \ {0}
  /\ NoWorker \notin Worker
  /\ NoRef \notin Ref

VARIABLES
  status,    \* status column, "ABSENT" for a row not yet inserted
  owner,     \* worker_id column
  lease,     \* lease_until - now(): see Expired and NullLease
  attempts,  \* attempts column
  ref,       \* result_ref column
  lock,      \* the worker whose open transaction holds the row's lock
  txn        \* the transaction a worker has open

rowVars == <<status, owner, lease, attempts, ref>>
qvars == <<status, owner, lease, attempts, ref, lock, txn>>

Verdict == {"SUCCEEDED", "FAILED"}
Status == {"ABSENT", "PENDING", "CLAIMED"} \cup Verdict

(* What complete_items writes for one row: the part of a ResultRecord that *)
(* reaches the table.                                                      *)
Result == [status : Verdict, attempts : 1 .. RetryMaxAttempts]

(* A lease is the time it has left.  At Expired, lease_until < now().      *)
Expired == -1
NullLease == -2

TypeOK ==
  /\ status \in [Item -> Status]
  /\ owner \in [Item -> Worker \cup {NoWorker}]
  /\ lease \in [Item -> NullLease .. LeaseTTL]
  /\ attempts \in [Item -> Nat]
  /\ ref \in [Item -> Ref \cup {NoRef}]
  /\ lock \in [Item -> Worker \cup {NoWorker}]
  /\ txn \in [Worker -> {"none", "claim", "complete"}]

(* The table when S was accepted and F was rejected by the ingestor.       *)
InitWith(S, F) ==
  /\ status = [i \in Item |-> IF i \in S THEN "PENDING"
                              ELSE IF i \in F THEN "FAILED" ELSE "ABSENT"]
  /\ owner = [i \in Item |-> NoWorker]
  /\ lease = [i \in Item |-> NullLease]
  /\ attempts = [i \in Item |-> 0]
  /\ ref = [i \in Item |-> NoRef]
  /\ lock = [i \in Item |-> NoWorker]
  /\ txn = [w \in Worker |-> "none"]

Init == InitWith({}, {})

----------------------------------------------------------------------------
(* bulk_insert: INSERT ... ON CONFLICT DO NOTHING of accepted rows (S) and *)
(* rejected rows (F).  A row that exists is left alone.                    *)
OverwritingInsert(S, F) ==  \* mutant: ON CONFLICT DO UPDATE
  /\ status' = [i \in Item |-> IF i \in S THEN "PENDING"
                               ELSE IF i \in F THEN "FAILED" ELSE status[i]]
  /\ UNCHANGED <<owner, lease, attempts, ref, lock, txn>>

BulkInsert(S, F) ==
  /\ S \cap F = {}
  /\ status' = [i \in Item |-> IF status[i] # "ABSENT" THEN status[i]
                               ELSE IF i \in S THEN "PENDING"
                               ELSE IF i \in F THEN "FAILED" ELSE "ABSENT"]
  /\ UNCHANGED <<owner, lease, attempts, ref, lock, txn>>

(* The WHERE clause of _CLAIM_SQL and of has_open_work.                    *)
ClaimableIgnoringLease(i) ==  \* mutant: the lease test is lost
  status[i] \in {"PENDING", "CLAIMED"}

ClaimableAgain(i) ==  \* mutant: failed rows are retried
  \/ status[i] \in {"PENDING", "FAILED"}
  \/ status[i] = "CLAIMED" /\ lease[i] = Expired

Claimable(i) ==
  \/ status[i] = "PENDING"
  \/ status[i] = "CLAIMED" /\ lease[i] = Expired

(* FOR UPDATE SKIP LOCKED: the rows the claim's scan can take.             *)
Unlocked == {i \in Item : Claimable(i) /\ lock[i] = NoWorker}

LockedBy(w) == {i \in Item : lock[i] = w}

(* ORDER BY id: what is left of w's scan.                                  *)
Ahead(w) == {i \in Unlocked : \A j \in LockedBy(w) : j < i}

(* claim_chunk, a turn of the CTE's scan: select and lock the next row.    *)
ClaimRow(w) ==
  /\ txn[w] \in {"none", "claim"}
  /\ Cardinality(LockedBy(w)) < ChunkSize
  /\ \E i \in Ahead(w) :
       /\ \A j \in Ahead(w) : i <= j
       /\ lock' = [lock EXCEPT ![i] = w]
  /\ txn' = [txn EXCEPT ![w] = "claim"]
  /\ UNCHANGED rowVars

(* claim_chunk when the CTE selects nothing: an empty list, no change.     *)
ClaimNothing(w) ==
  /\ txn[w] = "none"
  /\ Unlocked = {}
  /\ UNCHANGED qvars

Release(w) ==
  /\ lock' = [i \in Item |-> IF lock[i] = w THEN NoWorker ELSE lock[i]]
  /\ txn' = [txn EXCEPT ![w] = "none"]

(* A full chunk, or the scan's end, is what the UPDATE waits for.          *)
ScanEnds(w) == Cardinality(LockedBy(w)) = ChunkSize \/ Ahead(w) = {}

(* now() is the time its transaction began, so at the commit a new lease   *)
(* can have less than LeaseTTL left.                                       *)
NewLease == LeaseTTL - TxnAge .. LeaseTTL

(* claim_chunk, second half: the UPDATE and the commit.  RETURNING gives   *)
(* the caller LockedBy(w) with the incremented attempts.                   *)
ClaimCommit(w) ==
  /\ txn[w] = "claim"
  /\ ScanEnds(w)
  /\ status' = [i \in Item |-> IF lock[i] = w THEN "CLAIMED" ELSE status[i]]
  /\ owner' = [i \in Item |-> IF lock[i] = w THEN w ELSE owner[i]]
  /\ \E t \in NewLease :
       lease' = [i \in Item |-> IF lock[i] = w THEN t ELSE lease[i]]
  /\ attempts' = [i \in Item |->
                    IF lock[i] = w THEN attempts[i] + 1 ELSE attempts[i]]
  /\ UNCHANGED ref
  /\ Release(w)

----------------------------------------------------------------------------
(* The WHERE clause of _COMPLETE_SQL.                                      *)
MatchesAnyOwner(w, i) == status[i] = "CLAIMED"  \* mutant: no worker_id guard

Matches(w, i) == owner[i] = w /\ status[i] = "CLAIMED"

(* complete_items, one turn of its loop: a matching row is locked, waiting *)
(* for any other transaction that has it; a row that does not match is     *)
(* passed over (rowcount 0).                                               *)
CompleteRow(w, i) ==
  /\ txn[w] # "claim"
  /\ Matches(w, i) => lock[i] \in {NoWorker, w}
  /\ lock' = IF Matches(w, i) THEN [lock EXCEPT ![i] = w] ELSE lock
  /\ txn' = [txn EXCEPT ![w] = "complete"]
  /\ UNCHANGED rowVars

(* complete_items, the commit: every row the loop updated shows its result *)
(* res[i] and the object r that holds it.  lease_until and worker_id stay. *)
CompleteCommit(w, res, r) ==
  /\ txn[w] = "complete"
  /\ status' = [i \in Item |->
                  IF lock[i] = w THEN res[i].status ELSE status[i]]
  /\ attempts' = [i \in Item |->
                    IF lock[i] = w THEN res[i].attempts ELSE attempts[i]]
  /\ ref' = [i \in Item |-> IF lock[i] = w THEN r ELSE ref[i]]
  /\ UNCHANGED <<owner, lease>>
  /\ Release(w)

(* The transaction is abandoned: an error, or the caller's death.          *)
Rollback(w) ==
  /\ Release(w)
  /\ UNCHANGED rowVars

(* renew_lease: on a connection of its own, so it waits for any row that a *)
(* transaction has locked, one of the same worker included.                *)
RenewFromOldLease(w) ==  \* mutant: lease_until = lease_until + ttl
  /\ \A i \in Item : Matches(w, i) => lock[i] = NoWorker
  /\ lease' = [i \in Item |-> IF Matches(w, i) THEN lease[i] + LeaseTTL
                              ELSE lease[i]]
  /\ UNCHANGED <<status, owner, attempts, ref, lock, txn>>

RenewLease(w) ==
  /\ \A i \in Item : Matches(w, i) => lock[i] = NoWorker
  /\ \E t \in NewLease :
       lease' = [i \in Item |-> IF Matches(w, i) THEN t ELSE lease[i]]
  /\ UNCHANGED <<status, owner, attempts, ref, lock, txn>>

(* Time passes.  Only a claimed row's lease matters, and the lease of a    *)
(* row's last delivery never runs out: that bounds the deliveries.         *)
Ages(i) ==
  /\ status[i] = "CLAIMED"
  /\ lease[i] >= (IF attempts[i] < MaxDeliveries THEN 0 ELSE 1)

Tick ==
  /\ \E i \in Item : Ages(i)
  /\ lease' = [i \in Item |-> IF Ages(i) THEN lease[i] - 1 ELSE lease[i]]
  /\ UNCHANGED <<status, owner, attempts, ref, lock, txn>>

----------------------------------------------------------------------------
Insert == \E S, F \in SUBSET Item : BulkInsert(S, F)

Claim(w) == ClaimRow(w) \/ ClaimNothing(w) \/ ClaimCommit(w)

Complete(w) ==
  \/ \E i \in Item : CompleteRow(w, i)
  \/ \E res \in [Item -> Result], r \in Ref : CompleteCommit(w, res, r)

Next ==
  \/ Insert
  \/ \E w \in Worker : Claim(w) \/ Complete(w) \/ RenewLease(w) \/ Rollback(w)
  \/ Tick

Spec == Init /\ [][Next]_qvars

----------------------------------------------------------------------------
(* Properties of the table, whatever its clients do.                       *)

(* A row that is SUCCEEDED or FAILED is final: its verdict, its attempts   *)
(* and its result_ref are never rewritten, by a late worker, a re-claim or *)
(* a second ingestion of the same file.                                    *)
TerminalRowsFinal ==
  [][\A i \in Item : status[i] \in Verdict =>
       /\ status'[i] = status[i]
       /\ attempts'[i] = attempts[i]
       /\ ref'[i] = ref[i]
       /\ owner'[i] = owner[i]]_qvars

(* A claimed row changes hands only after its lease ran out: SKIP LOCKED,  *)
(* the lease test and the row lock held from the test to the commit        *)
(* together never let a second worker take a row from under a live lease.  *)
OnlyExpiredLeasesStolen ==
  [][\A i \in Item :
       status[i] = "CLAIMED" /\ owner'[i] # owner[i] => lease[i] = Expired]_qvars

(* A row that a claim transaction has locked stays claimable until that    *)
(* transaction ends, so the UPDATE never takes a row the SELECT would not  *)
(* have returned; a row complete_items has locked stays the caller's.      *)
LockedRowsStable ==
  \A i \in Item, w \in Worker :
    lock[i] = w =>
      \/ txn[w] = "claim" /\ Claimable(i)
      \/ txn[w] = "complete" /\ status[i] = "CLAIMED" /\ owner[i] = w
=============================================================================
