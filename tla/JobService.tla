----------------------------- MODULE JobService -----------------------------
(***************************************************************************)
(* JobService: the life of one job, from submit to a terminal state, in    *)
(* the processes that execute it.  A process accepts the job (submit),     *)
(* starts later and resumes what it finds (resume_active), or runs the     *)
(* engine only (run_worker.py).  Processes share the jobs row, the table   *)
(* and the storage.  The engine is BatchEngine, a run in each process; a   *)
(* pass of the ingestor is a flush per row (what a pass inserts is in      *)
(* Ingestor).                                                              *)
(***************************************************************************)
EXTENDS BatchEngine

CONSTANTS
  Rejected,  \* the rows of the file that ingestion refuses
  Kind,      \* what the process of each run is
  Replicas   \* whether API processes can overlap in time

VARIABLES
  jobState,  \* jobs.state, "ABSENT" before the job is created
  total,     \* jobs.total_items
  stage,     \* where each process is with the job
  at         \* the rows its pass has flushed

jobVars == <<jobState, total, stage, at>>
allVars == <<vars, jobVars>>

ASSUME JobAssumption ==
  /\ Late = Item
  /\ Item = 1 .. Cardinality(Item)
  /\ Rejected \subseteq Item
  /\ Kind \in [Run -> {"submit", "resume", "worker"}]
  /\ Replicas \in BOOLEAN

JobState == {"ABSENT", "PENDING", "INGESTING", "RUNNING", "COMPLETED", "FAILED"}
Over == {"COMPLETED", "FAILED"}
Executing == {"start", "ingest", "ingested", "engine", "failing"}

JobTypeOK ==
  /\ jobState \in JobState
  /\ total \in 0 .. Cardinality(Item)
  /\ stage \in [Run -> {"off", "over", "dead"} \cup Executing]
  /\ at \in [Run -> 0 .. Cardinality(Item)]

JobInit ==
  /\ Init
  /\ jobState = "ABSENT"
  /\ total = 0
  /\ stage = [r \in Run |-> "off"]
  /\ at = [r \in Run |-> 0]

Moves(r, from, to) == stage[r] = from /\ stage' = [stage EXCEPT ![r] = to]

MayStart(r) ==
  Replicas \/ \A s \in Run \ {r} : Kind[s] # "worker" => stage[s] \in {"off", "dead"}

----------------------------------------------------------------------------
(* submit, for a request that _validate_submit accepts.                    *)
Create ==
  /\ jobState = "ABSENT"
  /\ jobState' = "PENDING"
  /\ UNCHANGED total

Submit(r) ==
  /\ Kind[r] = "submit" /\ MayStart(r)
  /\ Create
  /\ Moves(r, "off", "start")
  /\ UNCHANGED <<vars, at>>

(* lifespan and resume_active, in a process that starts after the job was  *)
(* created.  list_active returns the job or it does not.                   *)
ListsOnlyRunning(r) ==  \* mutant: INGESTING is left out
  /\ Kind[r] = "resume" /\ MayStart(r)
  /\ jobState # "ABSENT"
  /\ Moves(r, "off", IF jobState = "RUNNING" THEN "start" ELSE "over")
  /\ UNCHANGED <<vars, jobState, total, at>>

ListsEveryJob(r) ==  \* mutant: no WHERE clause
  /\ Kind[r] = "resume" /\ MayStart(r)
  /\ jobState # "ABSENT"
  /\ Moves(r, "off", "start")
  /\ UNCHANGED <<vars, jobState, total, at>>

ResumeActive(r) ==
  /\ Kind[r] = "resume" /\ MayStart(r)
  /\ jobState # "ABSENT"
  /\ Moves(r, "off", IF jobState \in {"INGESTING", "RUNNING"} THEN "start" ELSE "over")
  /\ UNCHANGED <<vars, jobState, total, at>>

(* "never block startup on resume": the list_active query failed.          *)
ResumeFails(r) ==
  /\ "db" \in Faults
  /\ Kind[r] = "resume" /\ MayStart(r)
  /\ jobState # "ABSENT"
  /\ Moves(r, "off", "over")
  /\ UNCHANGED <<vars, jobState, total, at>>

(* _execute.                                                               *)
ResumeSkipsIngestion(r) ==  \* mutant: a resumed job is taken as ingested
  /\ Moves(r, "start", IF Kind[r] = "resume" THEN "ingested" ELSE "ingest")
  /\ jobState' = "INGESTING"
  /\ UNCHANGED <<vars, total, at>>

SetIngesting(r) ==
  /\ Moves(r, "start", "ingest")
  /\ jobState' = "INGESTING"
  /\ UNCHANGED <<vars, total, at>>

FlushPastEnd(r) ==  \* mutant: <= instead of <
  /\ stage[r] = "ingest"
  /\ at[r] <= Cardinality(Item)
  /\ at' = [at EXCEPT ![r] = @ + 1]
  /\ Q!BulkInsert({at'[r]} \ Rejected, {at'[r]} \cap Rejected)
  /\ UNCHANGED <<wvars, objects, run>>
  /\ UNCHANGED <<jobState, total, stage>>

FlushOverwrites(r) ==  \* mutant: ON CONFLICT DO UPDATE
  /\ stage[r] = "ingest"
  /\ at[r] < Cardinality(Item)
  /\ at' = [at EXCEPT ![r] = @ + 1]
  /\ Q!OverwritingInsert({at'[r]} \ Rejected, {at'[r]} \cap Rejected)
  /\ UNCHANGED <<wvars, objects, run>>
  /\ UNCHANGED <<jobState, total, stage>>

Flush(r) ==
  /\ stage[r] = "ingest"
  /\ at[r] < Cardinality(Item)
  /\ at' = [at EXCEPT ![r] = @ + 1]
  /\ Q!BulkInsert({at'[r]} \ Rejected, {at'[r]} \cap Rejected)
  /\ UNCHANGED <<wvars, objects, run>>
  /\ UNCHANGED <<jobState, total, stage>>

SetTotal(r) ==
  /\ at[r] = Cardinality(Item)
  /\ Moves(r, "ingest", "ingested")
  /\ total' = at[r]
  /\ UNCHANGED <<vars, jobState, at>>

(* Its next statement is engine.run, which starts the workers.             *)
SetRunning(r) ==
  /\ Moves(r, "ingested", "engine")
  /\ jobState' = "RUNNING"
  /\ Start(r)
  /\ UNCHANGED <<total, at>>

(* python workers/run_worker.py <job_id>.                                  *)
RunWorker(r) ==
  /\ Kind[r] = "worker"
  /\ jobState # "ABSENT"
  /\ Moves(r, "off", "engine")
  /\ Start(r)
  /\ UNCHANGED <<jobState, total, at>>

(* engine.run sets the job COMPLETED and returns.                          *)
EngineReturns(r) ==
  /\ Finish(r)
  /\ Moves(r, "engine", "over")
  /\ jobState' = "COMPLETED"
  /\ UNCHANGED <<total, at>>

(* engine.run raises; set_state(COMPLETED) may have been committed.        *)
EngineRaises(r) ==
  /\ RunFails(r)
  /\ Moves(r, "engine", IF Kind[r] = "worker" THEN "over" ELSE "failing")
  /\ \/ UNCHANGED jobState
     \/ /\ \A w \in WorkersOf(r) : pc[w] = "done"
        /\ jobState' = "COMPLETED"
  /\ UNCHANGED <<total, at>>

(* A statement of the jobs repository or a flush fails, or the file cannot *)
(* be read or parsed.  A statement whose answer is lost was committed: but *)
(* for set_state(RUNNING), that is its step and then a failure.            *)
ExecuteRaises(r) ==
  /\ "db" \in Faults
  /\ \E s \in {"start", "ingest", "ingested"} : Moves(r, s, "failing")
  /\ \/ UNCHANGED jobState
     \/ stage[r] = "ingested" /\ jobState' = "RUNNING"
  /\ UNCHANGED <<vars, total, at>>

SetFailed(r) ==
  /\ Moves(r, "failing", "over")
  /\ jobState' = "FAILED"
  /\ UNCHANGED <<vars, total, at>>

(* set_state(FAILED) raises as well: the task ends, the job stays active.  *)
SetFailedRaises(r) ==
  /\ "db" \in Faults
  /\ Moves(r, "failing", "over")
  /\ UNCHANGED <<vars, jobState, total, at>>

(* A process dies.  Bound: another one is left to take its place.          *)
ProcessDies(r) ==
  /\ "crash" \in Faults
  /\ \E s \in Run \ {r} : Kind[s] = "resume" /\ stage[s] = "off"
  /\ stage[r] \notin {"off", "dead"}
  /\ stage' = [stage EXCEPT ![r] = "dead"]
  /\ IF run[r] \in {"running", "failed"} THEN Crash(r)
     ELSE UNCHANGED vars
  /\ UNCHANGED <<jobState, total, at>>

----------------------------------------------------------------------------
Execute(r) ==
  \/ SetIngesting(r) \/ Flush(r) \/ SetTotal(r) \/ SetRunning(r)
  \/ EngineReturns(r) \/ EngineRaises(r) \/ SetFailed(r)

ExecuteFault(r) == ExecuteRaises(r) \/ SetFailedRaises(r)

(* The workers, the clock and Postgres.                                    *)
EngineStep ==
  /\ \/ \E w \in Worker : \/ Step(w) \/ Heartbeat(w) \/ Fault(w)
                          \/ ServerRollback(w)
     \/ Tick
  /\ UNCHANGED jobVars

JobNext ==
  \/ \E r \in Run : \/ Submit(r) \/ ResumeActive(r) \/ ResumeFails(r)
                    \/ RunWorker(r) \/ Execute(r) \/ ExecuteFault(r) \/ ProcessDies(r)
  \/ EngineStep

JobSpec == JobInit /\ [][JobNext]_allVars

(* The event loop runs _execute, somebody restarts a crashed API process,  *)
(* and the engine's fairness.                                              *)
JobFairness ==
  /\ \A r \in Run : WF_allVars(Execute(r)) /\ WF_allVars(ResumeActive(r))
  /\ \A w \in Worker :
       /\ WF_allVars(Step(w) /\ UNCHANGED jobVars)
       /\ WF_allVars(ServerRollback(w) /\ UNCHANGED jobVars)

JobFairSpec == JobSpec /\ JobFairness

----------------------------------------------------------------------------
(* Properties.                                                             *)

(* COMPLETED is said of a whole file: every row of it was ingested, even   *)
(* if the process that began the ingestion died and another one took over. *)
CompletedMeansIngested ==
  jobState = "COMPLETED" =>
    total = Cardinality(Item) /\ \A i \in Item : status[i] # "ABSENT"

(* A job that is COMPLETED or FAILED stays so: a late process neither runs *)
(* it again nor reports it as active.                                      *)
TerminalJobFinal == [][(jobState \in Over) => jobState' = jobState]_jobState

(* An interrupted job is brought to its end by the process that replaces   *)
(* the one that died, wherever that one was.                               *)
InterruptedJobEnds == jobState \in {"INGESTING", "RUNNING"} ~> jobState \in Over

(* Whatever fails in the process that accepted a job, short of its death,  *)
(* COMPLETED is not said while a row waits: an error of one worker, of the *)
(* ingestion or of the jobs table ends in FAILED or leaves the job active. *)
CompletedMeansSettled ==
  jobState = "COMPLETED" => \A i \in Item : status[i] \in Q!Verdict

(* Where API processes follow each other, the rows that a COMPLETED job    *)
(* left unsettled are deliveries of processes that died: no row waits that *)
(* a living worker has claimed, or that no death has hidden from a scan.   *)
OnlyTheDeadLoseRows ==
  jobState = "COMPLETED" => \A i \in Item :
    \/ Terminal(i)
    \/ status[i] = "CLAIMED" /\ pc[owner[i]] = "dead"
    \/ status[i] = "PENDING" /\ \E w \in Worker : pc[w] = "dead"

(* "no lost work if one dies (its lease expires and the chunk is           *)
(* reclaimed)", README.md:202; "resuming is safe and lossless",            *)
(* job_service.py:91: no chunk of a COMPLETED job waits to be reclaimed.   *)
CompletedLeavesNoClaim ==
  jobState = "COMPLETED" => \A i \in Item : status[i] # "CLAIMED"

(* The processes, seen as runs of the engine and passes that insert rows,  *)
(* do nothing the engine's specification does not allow.                   *)
ImplementsEngine == Spec
=============================================================================
