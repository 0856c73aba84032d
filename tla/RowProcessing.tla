--------------------------- MODULE RowProcessing ---------------------------
(***************************************************************************)
(* What Worker._process_chunk does between claim and write: the rows of a  *)
(* chunk run as tasks of one event loop, all the workers of a process pass *)
(* through one ConcurrencyLimiter, and each row calls the inference        *)
(* client until it has an answer, a permanent error or no attempt left.    *)
(* BatchEngine takes a worker's records as given; this module says where   *)
(* they come from.                                                         *)
(*                                                                         *)
(* An action is what a task does between two awaits.  The limiter is       *)
(* asyncio.Semaphore, which is not part of the repository: a task queues   *)
(* when no permit is free or somebody is queued already, a release wakes   *)
(* the first in the queue, and a woken task holds its permit before it     *)
(* has run again.                                                          *)
(***************************************************************************)
EXTENDS Integers, Sequences, FiniteSets

CONSTANTS
  Row,               \* the places of a chunk, of all workers
  Worker, OwnerOf,   \* the workers of one process, and whose place a Row is
  MaxConcurrency,    \* the permits of the limiter
  RetryMaxAttempts,  \* RetryPolicy.max_attempts, settings.retry_max_attempts
  NoResult

ASSUME RowAssumption ==
  /\ IsFiniteSet(Row)
  /\ OwnerOf \in [Row -> Worker]
  /\ MaxConcurrency \in Nat \ {0}
  /\ RetryMaxAttempts \in Nat \ {0}

VARIABLES
  pc,       \* where the row's task is
  attempt,  \* its loop variable
  record,   \* its ResultRecord
  heard,    \* the answers its calls had
  value,    \* Semaphore._value
  ahead     \* who was in the semaphore's queue when the row joined it

vars == <<pc, attempt, record, heard, value, ahead>>

Answer == {"ok", "retryable", "permanent"}
Result == [status : {"SUCCEEDED", "FAILED"}, attempts : 1 .. RetryMaxAttempts]

At(places) == {r \in Row : pc[r] \in places}
Queued == At({"waiting", "woken"})
Holders == At({"woken", "calling", "asleep"})  \* have a permit

(* build_services makes one limiter, which the workers of all jobs share.  *)
Init ==
  /\ pc = [r \in Row |-> "idle"]
  /\ attempt = [r \in Row |-> 0]
  /\ record = [r \in Row |-> NoResult]
  /\ heard = [r \in Row |-> <<>>]
  /\ value = MaxConcurrency
  /\ ahead = [r \in Row |-> {}]

-----------------------------------------------------------------------------
(* gather makes a task for every row of the chunk, which may be shorter    *)
(* than the worker's places.                                               *)
Begin(w, chunk) ==
  /\ chunk # {}
  /\ \A r \in Row : OwnerOf[r] = w => pc[r] = "idle"
  /\ pc' = [r \in Row |-> IF r \in chunk THEN "ready" ELSE pc[r]]
  /\ UNCHANGED <<attempt, record, heard, value, ahead>>

(* The worker goes on with its records when the last of them is there.     *)
Gathered(w) ==
  LET mine == {r \in Row : OwnerOf[r] = w} IN
  /\ \E r \in mine : pc[r] = "done"
  /\ \A r \in mine : pc[r] \in {"idle", "done"}
  /\ pc' = [r \in Row |-> IF r \in mine THEN "idle" ELSE pc[r]]
  /\ attempt' = [r \in Row |-> IF r \in mine THEN 0 ELSE attempt[r]]
  /\ record' = [r \in Row |-> IF r \in mine THEN NoResult ELSE record[r]]
  /\ heard' = [r \in Row |-> IF r \in mine THEN <<>> ELSE heard[r]]
  /\ UNCHANGED <<value, ahead>>

-----------------------------------------------------------------------------
(* _wake_up_next, with v free permits and the tasks at p: the first of the *)
(* queue that was not woken yet takes one.                                 *)
WakeNext(p, v) ==
  LET unserved == {r \in Row : p[r] = "waiting"} IN
  \/ /\ unserved = {}
     /\ pc' = p
     /\ value' = v
  \/ \E r \in unserved :
       /\ ahead[r] \cap unserved = {}
       /\ pc' = [p EXCEPT ![r] = "woken"]
       /\ value' = v - 1

(* async with self._sem: a free permit is taken only if nobody is queued.  *)
Acquire(r) ==
  /\ pc[r] = "ready"
  /\ \/ /\ value > 0
        /\ Queued = {}
        /\ pc' = [pc EXCEPT ![r] = "calling"]
        /\ value' = value - 1
        /\ UNCHANGED ahead
     \/ /\ value = 0 \/ Queued # {}
        /\ pc' = [pc EXCEPT ![r] = "waiting"]
        /\ ahead' = [ahead EXCEPT ![r] = Queued]
        /\ UNCHANGED value
  /\ UNCHANGED <<attempt, record, heard>>

(* A woken task leaves the queue, and wakes the next if permits are free.  *)
Resume(r) ==
  /\ pc[r] = "woken"
  /\ ahead' = [x \in Row |-> ahead[x] \ {r}]
  /\ LET resumed == [pc EXCEPT ![r] = "calling"] IN
       \/ value > 0 /\ WakeNext(resumed, value)
       \/ value = 0 /\ pc' = resumed /\ UNCHANGED value
  /\ UNCHANGED <<attempt, record, heard>>

-----------------------------------------------------------------------------
(* The client's answer, after its own mapping of errors: rate limits,      *)
(* timeouts, lost connections and 5xx can be retried, others cannot.       *)
Hears(r, answer) ==
  /\ pc[r] = "calling"
  /\ heard' = [heard EXCEPT ![r] = Append(@, answer)]

(* _process_row returns, and the limiter releases the permit.              *)
EndsWithPermit(r, status) ==  \* mutant: acquire() without a release
  /\ record' = [record EXCEPT ![r] = [status |-> status, attempts |-> attempt[r] + 1]]
  /\ pc' = [pc EXCEPT ![r] = "done"]
  /\ UNCHANGED <<attempt, value, ahead>>

Ends(r, status) ==
  /\ record' = [record EXCEPT ![r] = [status |-> status, attempts |-> attempt[r] + 1]]
  /\ WakeNext([pc EXCEPT ![r] = "done"], value + 1)
  /\ UNCHANGED <<attempt, ahead>>

CallSucceeds(r) == Hears(r, "ok") /\ Ends(r, "SUCCEEDED")

(* The row sleeps with its permit, unless this was the last attempt: then  *)
(* the loop runs out.                                                      *)
RetriesOnceMore(r) ==  \* mutant: attempt < retry_max_attempts
  /\ Hears(r, "retryable")
  /\ \/ /\ attempt[r] < RetryMaxAttempts
        /\ pc' = [pc EXCEPT ![r] = "asleep"]
        /\ UNCHANGED <<attempt, record, value, ahead>>
     \/ /\ attempt[r] >= RetryMaxAttempts
        /\ Ends(r, "FAILED")

SleepsWithoutPermit(r) ==  \* mutant: the limiter holds only the call
  /\ Hears(r, "retryable")
  /\ \/ /\ attempt[r] < RetryMaxAttempts - 1
        /\ WakeNext([pc EXCEPT ![r] = "asleep"], value + 1)
        /\ UNCHANGED <<attempt, record, ahead>>
     \/ /\ attempt[r] >= RetryMaxAttempts - 1
        /\ Ends(r, "FAILED")

CallRetryable(r) ==
  /\ Hears(r, "retryable")
  /\ \/ /\ attempt[r] < RetryMaxAttempts - 1
        /\ pc' = [pc EXCEPT ![r] = "asleep"]
        /\ UNCHANGED <<attempt, record, value, ahead>>
     \/ /\ attempt[r] >= RetryMaxAttempts - 1
        /\ Ends(r, "FAILED")

(* PermanentInferenceError and any other exception leave the loop.         *)
RetriesAnyError(r) ==  \* mutant: except InferenceError, for both
  /\ Hears(r, "permanent")
  /\ \/ /\ attempt[r] < RetryMaxAttempts - 1
        /\ pc' = [pc EXCEPT ![r] = "asleep"]
        /\ UNCHANGED <<attempt, record, value, ahead>>
     \/ /\ attempt[r] >= RetryMaxAttempts - 1
        /\ Ends(r, "FAILED")

CallPermanent(r) == Hears(r, "permanent") /\ Ends(r, "FAILED")

(* The back-off is over, however long RetryPolicy.delay_for made it.       *)
Wakes(r) ==
  /\ pc[r] = "asleep"
  /\ pc' = [pc EXCEPT ![r] = "calling"]
  /\ attempt' = [attempt EXCEPT ![r] = @ + 1]
  /\ UNCHANGED <<record, heard, value, ahead>>

-----------------------------------------------------------------------------
Step(r) ==
  Acquire(r) \/ Resume(r) \/ CallSucceeds(r) \/ CallRetryable(r) \/ CallPermanent(r) \/ Wakes(r)

Next ==
  \/ \E w \in Worker : \E chunk \in SUBSET {r \in Row : OwnerOf[r] = w} : Begin(w, chunk)
  \/ \E w \in Worker : Gathered(w)
  \/ \E r \in Row : Step(r)

(* The event loop runs every task that can go on, sleeps end, and a call   *)
(* ends at the latest with the client's timeout.  Whether another chunk is *)
(* claimed is the worker's affair.                                         *)
Fairness == (\A r \in Row : WF_vars(Step(r))) /\ (\A w \in Worker : WF_vars(Gathered(w)))

Spec == Init /\ [][Next]_vars /\ Fairness

-----------------------------------------------------------------------------
(* Every variable has its type; a record is one that complete_items can    *)
(* write, with 1 to RetryMaxAttempts attempts: _process_row.               *)
TypeOK ==
  /\ pc \in [Row -> {"idle", "ready", "waiting", "woken", "calling", "asleep", "done"}]
  /\ attempt \in [Row -> 0 .. RetryMaxAttempts - 1]
  /\ record \in [Row -> Result \cup {NoResult}]
  /\ heard \in [Row -> Seq(Answer)]
  /\ value \in 0 .. MaxConcurrency
  /\ ahead \in [Row -> SUBSET Row]

(* ConcurrencyLimiter: whatever the rows and their calls do, the permits   *)
(* they hold and the free ones are MaxConcurrency together.  None is       *)
(* lost, so the limiter never clogs, and none is made, so MAX_CONCURRENCY  *)
(* is the hard cap on in-flight calls that the README promises.            *)
NoPermitLost == value + Cardinality(Holders) = MaxConcurrency

(* _process_row's record tells what happened to the calls: it counts       *)
(* every call of the row, says SUCCEEDED if the last of them was answered, *)
(* and a row gives up before its last attempt only on a permanent error.   *)
RecordsTellCalls ==
  \A r \in At({"done"}) :
    LET n == Len(heard[r]) IN
    /\ record[r].attempts = n
    /\ record[r].status = "SUCCEEDED" <=> heard[r][n] = "ok"
    /\ \A i \in 1 .. n - 1 : heard[r][i] = "retryable"
    /\ n < RetryMaxAttempts => heard[r][n] # "retryable"

(* Every chunk whose rows were handed to gather ends with all its records, *)
(* although rows sleep with their permits and other workers' chunks keep   *)
(* queueing for them: _process_chunk returns.                              *)
EveryChunkGathers == \A r \in Row : pc[r] = "ready" ~> pc[r] = "idle"

=============================================================================
