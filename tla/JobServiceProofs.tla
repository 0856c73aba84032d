-------------------------- MODULE JobServiceProofs --------------------------
(***************************************************************************)
(* For any number of processes of any kind: the life of a job is built     *)
(* from steps of the engine only, so that what BatchEngineProofs proves    *)
(* holds while jobs are accepted, resumed and crash; and COMPLETED means   *)
(* that the whole file was ingested, unless run_worker was used.           *)
(***************************************************************************)
EXTENDS JobService, BatchEngineProofs, FiniteSetTheorems

(* The rows are numbered like the lines of the file.                       *)
LEMMA RowNumbers == Cardinality(Item) \in Nat /\ Item = 1 .. Cardinality(Item)
  BY EngineAssumption, JobAssumption, FS_CardinalityType

(* A flush is an insertion of one row; whatever the process, it never      *)
(* leaves the rows of the file.                                            *)
LEMMA FlushIsInsert == ASSUME JobTypeOK, NEW r \in Run, Flush(r)
                       PROVE  Insert
<1> DEFINE i == at[r] + 1
<1>1. i \in Item /\ at'[r] = i
  BY RowNumbers DEF JobTypeOK, Flush
<1>2. {i} \ Rejected \in SUBSET Late /\ {i} \cap Rejected \in SUBSET Late
  BY <1>1, JobAssumption
<1>3. Q!BulkInsert({i} \ Rejected, {i} \cap Rejected)
  BY <1>1 DEF Flush
<1> QED
  BY <1>1, <1>2, <1>3 DEF Flush, Insert

(* Every step of the processes is one of the engine, or changes nothing    *)
(* the engine can see.                                                     *)
LEMMA StepIsWorkOrFlush ==
  [JobNext]_allVars => Work \/ UNCHANGED vars \/ \E r \in Run : Flush(r)
<1> SUFFICES ASSUME JobNext PROVE Work \/ UNCHANGED vars \/ \E r \in Run : Flush(r)
  BY DEF allVars
<1>1. ASSUME NEW r \in Run, Submit(r) \/ ResumeActive(r) \/ ResumeFails(r)
      PROVE  UNCHANGED vars
  BY <1>1 DEF Submit, Create, ResumeActive, ResumeFails
<1>2. ASSUME NEW r \in Run, RunWorker(r) PROVE Work
  BY <1>2 DEF RunWorker, Work
<1>3. ASSUME NEW r \in Run, Execute(r)
      PROVE  Work \/ UNCHANGED vars \/ Flush(r)
  BY <1>3 DEF Execute, SetIngesting, SetTotal, SetFailed, SetRunning, EngineReturns,
    EngineRaises, Work
<1>4. ASSUME NEW r \in Run, ExecuteFault(r) PROVE UNCHANGED vars
  BY <1>4 DEF ExecuteFault, ExecuteRaises, SetFailedRaises
<1>5. ASSUME NEW r \in Run, ProcessDies(r) PROVE Work \/ UNCHANGED vars
  BY <1>5 DEF ProcessDies, Work
<1>6. CASE EngineStep
  BY <1>6 DEF EngineStep, Work
<1> QED
  BY <1>1, <1>2, <1>3, <1>4, <1>5, <1>6 DEF JobNext

LEMMA StepIsEngineStep == JobTypeOK /\ [JobNext]_allVars => [Next]_vars
  BY StepIsWorkOrFlush, FlushIsInsert DEF Work, Next

(* A pass ends at the last row; the job's columns keep their types.        *)
LEMMA JobTypeStep == JobTypeOK /\ [JobNext]_allVars => JobTypeOK'
<1> SUFFICES ASSUME JobTypeOK, [JobNext]_allVars PROVE JobTypeOK'
  OBVIOUS
<1> USE RowNumbers DEF JobTypeOK, JobState, Executing, Moves
<1>1. ASSUME NEW r \in Run, Submit(r) \/ ResumeActive(r) \/ ResumeFails(r)
      PROVE  JobTypeOK'
  BY <1>1 DEF Submit, Create, ResumeActive, ResumeFails
<1>2. ASSUME NEW r \in Run, RunWorker(r) PROVE JobTypeOK'
  BY <1>2 DEF RunWorker
<1>3. ASSUME NEW r \in Run, Execute(r) PROVE JobTypeOK'
  <2>1. CASE Flush(r)
    BY <2>1 DEF Flush
  <2>2. CASE SetIngesting(r) \/ SetTotal(r) \/ SetFailed(r)
    BY <2>2 DEF SetIngesting, SetTotal, SetFailed
  <2>3. CASE SetRunning(r) \/ EngineReturns(r) \/ EngineRaises(r)
    BY <2>3 DEF SetRunning, EngineReturns, EngineRaises
  <2> QED
    BY <1>3, <2>1, <2>2, <2>3 DEF Execute
<1>4. ASSUME NEW r \in Run, ExecuteFault(r) PROVE JobTypeOK'
  BY <1>4 DEF ExecuteFault, ExecuteRaises, SetFailedRaises
<1>5. ASSUME NEW r \in Run, ProcessDies(r) PROVE JobTypeOK'
  BY <1>5 DEF ProcessDies
<1>6. CASE EngineStep
  BY <1>6 DEF EngineStep, jobVars
<1>7. CASE UNCHANGED allVars
  BY <1>7 DEF allVars, jobVars
<1> QED
  BY <1>1, <1>2, <1>3, <1>4, <1>5, <1>6, <1>7 DEF JobNext

(* The jobs row and the ingestion's position stay within their types.      *)
THEOREM JobTypeCorrect == JobSpec => []JobTypeOK
<1>1. JobInit => JobTypeOK
  BY RowNumbers DEF JobInit, JobTypeOK, JobState
<1> QED
  BY <1>1, JobTypeStep, PTL DEF JobSpec

(* The processes refine the engine: all that is proved of Spec holds of    *)
(* jobs, whoever runs them.                                                *)
THEOREM JobIsEngine == JobSpec => ImplementsEngine
<1>1. JobInit => Init
  BY DEF JobInit
<1> QED
  BY <1>1, JobTypeCorrect, StepIsEngineStep, PTL DEF JobSpec, Spec, ImplementsEngine

----------------------------------------------------------------------------
(* What a pass leaves behind: the rows it has flushed, and the total once  *)
(* it is through the file.                                                 *)
Ingested == \A i \in Item : status[i] # "ABSENT"

IngestInv ==
  /\ \A r \in Run : \A i \in 1 .. at[r] : status[i] # "ABSENT"
  /\ \A r \in Run : stage[r] \in {"ingested", "engine"} =>
       total = Cardinality(Item) /\ Ingested
  /\ CompletedMeansIngested

(* No process but run_worker starts the engine before its own pass ended.  *)
LEMMA IngestStep ==
  ASSUME \A r \in Run : Kind[r] # "worker",
         EngineInv, JobTypeOK, IngestInv, [JobNext]_allVars
  PROVE  IngestInv'
<1>0. \A i \in Item : status[i] # "ABSENT" => status'[i] # "ABSENT"
  BY RowsStay, StepIsEngineStep
<1>a. \A r \in Run : at[r] \in Nat /\ 1 .. at[r] \subseteq Item
  BY RowNumbers DEF JobTypeOK
<1> USE DEF IngestInv, CompletedMeansIngested, Ingested, Moves
<1>b. ASSUME UNCHANGED <<total, at>>,
             \A r \in Run : stage'[r] \in {"ingested", "engine"} =>
               stage[r] \in {"ingested", "engine"},
             jobState' = "COMPLETED" =>
               \/ jobState = "COMPLETED"
               \/ \E r \in Run : stage[r] = "engine"
      PROVE  IngestInv'
  BY <1>0, <1>a, <1>b
<1> USE DEF JobTypeOK
<1>1. ASSUME NEW r \in Run, Submit(r) \/ ResumeActive(r) \/ ResumeFails(r)
      PROVE  IngestInv'
  BY <1>1, <1>b DEF Submit, Create, ResumeActive, ResumeFails
<1>2. ASSUME NEW r \in Run, Execute(r) PROVE IngestInv'
  <2>1. CASE Flush(r)
    <3>1. status'[at[r] + 1] # "ABSENT" /\ at' = [at EXCEPT ![r] = at[r] + 1]
      BY <2>1, RowNumbers DEF Flush, Q!BulkInsert
    <3>2. \A s \in Run : \A i \in 1 .. at'[s] : i \in 1 .. at[s] \/ i = at[r] + 1
      BY <3>1, <1>a
    <3> QED
      BY <3>1, <3>2, <2>1, <1>0, <1>a DEF Flush
  <2>2. CASE SetTotal(r)
    BY <2>2, <1>0, <1>a, RowNumbers DEF SetTotal
  <2>3. CASE SetIngesting(r) \/ SetFailed(r) \/ SetRunning(r)
    BY <2>3, <1>b DEF SetIngesting, SetFailed, SetRunning
  <2>4. CASE EngineReturns(r) \/ EngineRaises(r)
    BY <2>4, <1>b DEF EngineReturns, EngineRaises
  <2> QED
    BY <1>2, <2>1, <2>2, <2>3, <2>4 DEF Execute
<1>3. ASSUME NEW r \in Run, ExecuteFault(r) \/ ProcessDies(r) PROVE IngestInv'
  BY <1>3, <1>b DEF ExecuteFault, ExecuteRaises, SetFailedRaises, ProcessDies
<1>4. CASE EngineStep \/ UNCHANGED allVars
  BY <1>4, <1>b DEF EngineStep, allVars, jobVars
<1> QED
  BY <1>1, <1>2, <1>3, <1>4 DEF JobNext, RunWorker

(* COMPLETED is never said of a file that was not ingested to its last     *)
(* row, however many processes died over it, where run_worker.py, which    *)
(* does not ingest, is not used.                                           *)
THEOREM IngestedBeforeCompleted ==
  ASSUME \A r \in Run : Kind[r] # "worker"
  PROVE  JobSpec => []CompletedMeansIngested
<1>1. JobInit => IngestInv
  BY DEF JobInit, IngestInv, CompletedMeansIngested
<1>2. JobSpec => []EngineInv
  BY JobIsEngine, EngineInvariant DEF ImplementsEngine
<1>3. EngineInv /\ JobTypeOK /\ IngestInv /\ [JobNext]_allVars => IngestInv'
  BY IngestStep
<1>4. IngestInv => CompletedMeansIngested
  BY DEF IngestInv
<1> QED
  BY <1>1, <1>2, <1>3, <1>4, JobTypeCorrect, PTL DEF JobSpec

LEMMA JobEngineInv == JobSpec => []EngineInv
  BY JobIsEngine, EngineInvariant, PTL DEF ImplementsEngine

----------------------------------------------------------------------------
(* A settled row without a file is one that ingestion refused.             *)
OnlyRejectedLackFile ==
  \A i \in Item : status[i] \in Q!Verdict /\ ref[i] = NoRef => i \in Rejected

LEMMA LackFileStep ==
  ASSUME EngineInv, OnlyRejectedLackFile, [JobNext]_allVars
  PROVE  OnlyRejectedLackFile'
<1> SUFFICES ASSUME NEW i \in Item, status'[i] \in Q!Verdict, ref'[i] = NoRef,
                    i \notin Rejected
             PROVE  FALSE
  BY DEF OnlyRejectedLackFile
<1> USE DEF OnlyRejectedLackFile, Q!Verdict
<1>1. CASE Work
  <2>1. Stays(i) \/ IsDelivered(i) \/ IsSettled(i)
    BY <1>1, WorkOnRow
  <2> QED
    BY <2>1, EngineAssumption DEF Stays, IsDelivered, IsSettled
<1>2. ASSUME NEW r \in Run, Flush(r) PROVE FALSE
  BY <1>2 DEF Flush, Q!BulkInsert
<1>3. CASE UNCHANGED vars
  BY <1>3 DEF vars, tableVars
<1> QED
  BY <1>1, <1>2, <1>3, StepIsWorkOrFlush

(* Whoever runs the job, a row that is settled and names no file is one    *)
(* of the rows that ingestion refused: the engine settles no row without a *)
(* result.                                                                 *)
THEOREM RejectedLackFile == JobSpec => []OnlyRejectedLackFile
<1>1. JobInit => OnlyRejectedLackFile
  BY JobAssumption DEF JobInit, Init, Q!InitWith, OnlyRejectedLackFile, Q!Verdict
<1> QED
  BY <1>1, LackFileStep, JobEngineInv, PTL DEF JobSpec

----------------------------------------------------------------------------
(* One API process at a time: the others are still to start or dead.       *)
Alone ==
  \A r, s \in Run :
    r # s => stage[r] \in {"off", "dead"} \/ stage[s] \in {"off", "dead"}

(* Nothing is left to do for a job that is over; its state is set again    *)
(* only by a process that lost the answer when it set it.                  *)
OverMeansOver ==
  jobState \in Over => \A r \in Run :
    /\ stage[r] \notin {"start", "ingest", "ingested", "engine"}
    /\ "db" \notin Faults => stage[r] # "failing"

LEMMA AloneStep ==
  ASSUME ~Replicas, \A r \in Run : Kind[r] # "worker",
         JobTypeOK, Alone, [JobNext]_allVars
  PROVE  Alone'
<1> USE DEF JobTypeOK, Alone, Moves, MayStart
<1>a. ASSUME NEW r \in Run, NEW g, stage[r] \notin {"off", "dead"},
             stage' = [stage EXCEPT ![r] = g]
      PROVE  Alone'
  BY <1>a
<1>1. ASSUME NEW r \in Run, Submit(r) \/ ResumeActive(r) \/ ResumeFails(r)
      PROVE  Alone'
  <2>1. \A s \in Run \ {r} : stage[s] \in {"off", "dead"}
    BY <1>1 DEF Submit, ResumeActive, ResumeFails
  <2>2. PICK g : stage' = [stage EXCEPT ![r] = g]
    BY <1>1 DEF Submit, ResumeActive, ResumeFails
  <2> QED
    BY <2>1, <2>2
<1>2. ASSUME NEW r \in Run, Execute(r) PROVE Alone'
  <2>1. CASE Flush(r)
    BY <2>1 DEF Flush
  <2>2. CASE SetIngesting(r) \/ SetTotal(r) \/ SetFailed(r)
    BY <2>2, <1>a DEF SetIngesting, SetTotal, SetFailed
  <2>3. CASE SetRunning(r) \/ EngineReturns(r) \/ EngineRaises(r)
    BY <2>3, <1>a DEF SetRunning, EngineReturns, EngineRaises
  <2> QED
    BY <1>2, <2>1, <2>2, <2>3 DEF Execute
<1>3. ASSUME NEW r \in Run, ExecuteFault(r) \/ ProcessDies(r) PROVE Alone'
  BY <1>3, <1>a DEF ExecuteFault, ExecuteRaises, SetFailedRaises, ProcessDies
<1>4. CASE EngineStep \/ UNCHANGED allVars
  BY <1>4 DEF EngineStep, allVars, jobVars
<1> QED
  BY <1>1, <1>2, <1>3, <1>4 DEF JobNext, RunWorker

LEMMA OverStep ==
  ASSUME ~Replicas, \A r \in Run : Kind[r] # "worker",
         JobTypeOK, Alone, OverMeansOver, [JobNext]_allVars
  PROVE  /\ OverMeansOver'
         /\ jobState \in Over => jobState' \in Over
         /\ jobState \in Over /\ "db" \notin Faults => jobState' = jobState
<1> DEFINE Goal == /\ OverMeansOver'
                   /\ jobState \in Over => jobState' \in Over
                   /\ jobState \in Over /\ "db" \notin Faults => jobState' = jobState
<1> SUFFICES Goal
  OBVIOUS
<1> USE DEF JobTypeOK, OverMeansOver, Moves, Over
<1>1. ASSUME NEW r \in Run, Submit(r) \/ ResumeActive(r) \/ ResumeFails(r)
      PROVE  Goal
  BY <1>1 DEF Submit, Create, ResumeActive, ResumeFails
<1>2. ASSUME NEW r \in Run, Execute(r) PROVE Goal
  <2>1. CASE Flush(r)
    BY <2>1 DEF Flush
  <2>2. CASE SetIngesting(r) \/ SetTotal(r) \/ SetRunning(r)
    BY <2>2 DEF SetIngesting, SetTotal, SetRunning
  <2>3. CASE SetFailed(r)
    BY <2>3 DEF SetFailed, Alone
  <2>4. CASE EngineReturns(r)
    BY <2>4 DEF EngineReturns, Alone
  <2>5. CASE EngineRaises(r)
    <3>1. \A s \in Run \ {r} : stage'[s] \in {"off", "dead"}
      BY <2>5 DEF EngineRaises, Alone
    <3>2. jobState' \in Over => jobState' = "COMPLETED" /\ "db" \in Faults
      BY <2>5 DEF EngineRaises, RunFails
    <3>3. stage'[r] = "failing" /\ jobState \notin Over
      BY <2>5 DEF EngineRaises
    <3> QED
      BY <3>1, <3>2, <3>3
  <2> QED
    BY <1>2, <2>1, <2>2, <2>3, <2>4, <2>5 DEF Execute
<1>3. ASSUME NEW r \in Run, ExecuteFault(r) \/ ProcessDies(r) PROVE Goal
  BY <1>3 DEF ExecuteFault, ExecuteRaises, SetFailedRaises, ProcessDies
<1>4. CASE EngineStep \/ UNCHANGED allVars
  BY <1>4 DEF EngineStep, allVars, jobVars
<1> QED
  BY <1>1, <1>2, <1>3, <1>4 DEF JobNext, RunWorker

LEMMA OverInit == JobInit => Alone /\ OverMeansOver
  BY DEF JobInit, Alone, OverMeansOver, Over

(* Whatever fails and however often the one API process is replaced, a job *)
(* that is over is never active again.                                     *)
THEOREM OverForGood ==
  ASSUME ~Replicas, \A r \in Run : Kind[r] # "worker"
  PROVE  JobSpec => [][(jobState \in Over) => jobState' \in Over]_jobState
<1>1. JobTypeOK /\ Alone /\ [JobNext]_allVars => Alone'
  BY AloneStep
<1>2. JobTypeOK /\ Alone /\ OverMeansOver /\ [JobNext]_allVars =>
        OverMeansOver' /\ [(jobState \in Over) => jobState' \in Over]_jobState
  BY OverStep
<1> QED
  BY <1>1, <1>2, OverInit, JobTypeCorrect, PTL DEF JobSpec

(* Where no statement on the jobs table fails, its state does not even     *)
(* change: COMPLETED and FAILED are each the last word.                    *)
THEOREM EndedJobFinal ==
  ASSUME ~Replicas, \A r \in Run : Kind[r] # "worker", "db" \notin Faults
  PROVE  JobSpec => TerminalJobFinal
<1>1. JobTypeOK /\ Alone /\ [JobNext]_allVars => Alone'
  BY AloneStep
<1>2. JobTypeOK /\ Alone /\ OverMeansOver /\ [JobNext]_allVars =>
        OverMeansOver' /\ [(jobState \in Over) => jobState' = jobState]_jobState
  BY OverStep
<1> QED
  BY <1>1, <1>2, OverInit, JobTypeCorrect, PTL DEF JobSpec, TerminalJobFinal

----------------------------------------------------------------------------
(* A run of the engine begins once, in a process that has ingested the     *)
(* file; run_worker apart.                                                 *)
LEMMA RunsBegin ==
  ASSUME TypeOK, \A r \in Run : Kind[r] # "worker", [JobNext]_allVars, NEW r \in Run
  PROVE  \/ run'[r] = "idle" <=> run[r] = "idle"
         \/ SetRunning(r)
<1> USE DEF TypeOK
<1>1. ASSUME NEW s \in Run, Execute(s)
      PROVE  (run'[r] = "idle" <=> run[r] = "idle") \/ SetRunning(r)
  BY <1>1 DEF Execute, SetIngesting, Flush, SetTotal, SetFailed, SetRunning, EngineReturns,
    EngineRaises, Start, Finish, RunFails, vars
<1>2. ASSUME NEW s \in Run,
             Submit(s) \/ ResumeActive(s) \/ ResumeFails(s) \/ ExecuteFault(s)
      PROVE  UNCHANGED run
  BY <1>2 DEF Submit, ResumeActive, ResumeFails, ExecuteFault, ExecuteRaises,
    SetFailedRaises, vars
<1>3. ASSUME NEW s \in Run, ProcessDies(s)
      PROVE  run'[r] = "idle" <=> run[r] = "idle"
  BY <1>3 DEF ProcessDies, Crash, vars
<1>4. ASSUME NEW w \in Worker, Step(w) \/ Heartbeat(w) \/ Fault(w) \/ ServerRollback(w)
      PROVE  UNCHANGED run
  BY <1>4
  DEF Step, Fault, ScanRow, ClaimChunk, NoChunk, ProcessChunk, ProcessChunkRaises,
      WriteChunk, CompleteRow, CompleteChunk, HeartbeatFails, WriteFails, DbFails,
      AckLost, Heartbeat, ServerRollback
<1>5. CASE Tick \/ UNCHANGED allVars
  BY <1>5 DEF Tick, allVars, vars
<1> QED
  BY <1>1, <1>2, <1>3, <1>4, <1>5 DEF JobNext, EngineStep, RunWorker

(* COMPLETED is set by a process whose workers are all done.               *)
LEMMA CompletionBegins ==
  ASSUME JobTypeOK, jobState # "COMPLETED", jobState' = "COMPLETED", [JobNext]_allVars
  PROVE  \E r \in Run : /\ EngineReturns(r) \/ EngineRaises(r)
                       /\ \A w \in WorkersOf(r) : pc[w] = "done"
<1>1. ASSUME NEW r \in Run, Submit(r) \/ ResumeActive(r) \/ ResumeFails(r) \/ RunWorker(r)
      PROVE  FALSE
  BY <1>1 DEF Submit, Create, ResumeActive, ResumeFails, RunWorker
<1>2. ASSUME NEW r \in Run, Execute(r)
      PROVE  /\ EngineReturns(r) \/ EngineRaises(r)
             /\ \A w \in WorkersOf(r) : pc[w] = "done"
  BY <1>2 DEF Execute, SetIngesting, Flush, SetTotal, SetFailed, SetRunning, EngineReturns,
    EngineRaises, Finish
<1>3. ASSUME NEW r \in Run, ExecuteFault(r) \/ ProcessDies(r) PROVE FALSE
  BY <1>3 DEF ExecuteFault, ExecuteRaises, SetFailedRaises, ProcessDies
<1>4. CASE EngineStep \/ UNCHANGED allVars
  BY <1>4 DEF EngineStep, allVars, jobVars
<1> QED
  BY <1>1, <1>2, <1>3, <1>4 DEF JobNext

(* What the workers know is true of every row, since none of them begins   *)
(* before the whole file is in the table; and so a job that is COMPLETED   *)
(* after one process alone ran its engine is settled.                      *)
SettleInv ==
  /\ \A r \in Run : run[r] # "idle" => Ingested
  /\ \A i \in Item : FoundNothing(i)
  /\ \A r \in Run :
       jobState = "COMPLETED" /\ run[r] # "idle" /\ LoneRun(r) =>
         \A i \in Item : Terminal(i)

LEMMA SettleStep ==
  ASSUME \A r \in Run : Kind[r] # "worker",
         EngineInv, JobTypeOK, IngestInv, SettleInv, [JobNext]_allVars
  PROVE  SettleInv'
<1>a. TypeOK /\ Phases /\ [Next]_vars
  BY StepIsEngineStep DEF EngineInv
<1>b. \A i \in Item : status[i] # "ABSENT" => status'[i] # "ABSENT"
  BY <1>a, RowsStay
<1>c. \A r \in Run : (run'[r] = "idle" <=> run[r] = "idle") \/ SetRunning(r)
  BY <1>a, RunsBegin
<1>1. ASSUME NEW r \in Run, run'[r] # "idle" PROVE Ingested'
  <2>1. Ingested
    BY <1>1, <1>c DEF SettleInv, SetRunning, Moves, IngestInv
  <2> QED
    BY <2>1, <1>b DEF Ingested
<1>2. ASSUME NEW i \in Item PROVE FoundNothing(i)'
  <2>1. CASE status[i] # "ABSENT"
    BY <2>1, <1>a, FoundStep DEF SettleInv
  <2>2. CASE status[i] = "ABSENT" /\ status'[i] # "PENDING"
    BY <2>2 DEF FoundNothing
  <2>3. CASE status[i] = "ABSENT" /\ status'[i] = "PENDING"
    <3>1. \A r \in Run : run[r] = "idle"
      BY <2>3 DEF SettleInv, Ingested
    <3>2. \A w \in Worker : pc[w] = "off"
      BY <3>1, <1>a, EngineAssumption DEF Phases
    <3>3. PICK r \in Run : Flush(r)
      <4>1. ~ Work
        BY <2>3, WorkOnRow DEF Stays, IsDelivered, IsSettled
      <4>2. ~ UNCHANGED vars
        BY <2>3 DEF vars, tableVars
      <4> QED
        BY <4>1, <4>2, StepIsWorkOrFlush
    <3>4. UNCHANGED pc
      BY <3>3 DEF Flush, wvars
    <3> QED
      BY <3>2, <3>4 DEF FoundNothing
  <2> QED
    BY <2>1, <2>2, <2>3
<1>3. ASSUME NEW r \in Run, jobState' = "COMPLETED", run'[r] # "idle", LoneRun(r)',
             NEW i \in Item
      PROVE  Terminal(i)'
  <2>1. run[r] # "idle" /\ LoneRun(r)
    BY <1>3, <1>c DEF LoneRun, SetRunning
  <2>2. Terminal(i) => Terminal(i)'
    BY <1>a, RowsStay DEF Terminal
  <2>3. CASE jobState = "COMPLETED"
    BY <2>1, <2>2, <2>3 DEF SettleInv
  <2>4. CASE jobState # "COMPLETED"
    <3>1. PICK s \in Run : /\ EngineReturns(s) \/ EngineRaises(s)
                           /\ \A w \in WorkersOf(s) : pc[w] = "done"
      BY <1>3, <2>4, CompletionBegins
    <3>2. run[s] # "idle" /\ stage[s] = "engine"
      BY <3>1 DEF EngineReturns, EngineRaises, Finish, RunFails, Moves
    <3>3. s = r
      BY <2>1, <3>2 DEF LoneRun
    <3>4. status[i] # "ABSENT"
      BY <3>2 DEF IngestInv, Ingested
    <3> QED
      BY <2>1, <2>2, <3>1, <3>3, <3>4, LoneRunSettles DEF SettleInv
  <2> QED
    BY <2>3, <2>4
<1> QED
  BY <1>1, <1>2, <1>3 DEF SettleInv

LEMMA SettleInvariant ==
  ASSUME \A r \in Run : Kind[r] # "worker"
  PROVE  JobSpec => [](IngestInv /\ SettleInv)
<1>1. JobInit => IngestInv /\ SettleInv
  BY EngineAssumption DEF JobInit, Init, IngestInv, CompletedMeansIngested, SettleInv,
    FoundNothing
<1>2. EngineInv /\ JobTypeOK /\ IngestInv /\ SettleInv /\ [JobNext]_allVars =>
        IngestInv' /\ SettleInv'
  BY IngestStep, SettleStep
<1> QED
  BY <1>1, <1>2, JobEngineInv, JobTypeCorrect, PTL DEF JobSpec

(* A job whose engine ran in one process only, be it the one that accepted *)
(* the job or one that resumed it before its engine began, is COMPLETED    *)
(* only when every row of the file is settled.                             *)
THEOREM LoneJobsSettle ==
  ASSUME \A r \in Run : Kind[r] # "worker"
  PROVE  JobSpec =>
           [](\A r \in Run : jobState = "COMPLETED" /\ run[r] # "idle" /\ LoneRun(r) =>
                \A i \in Item : Terminal(i))
<1>1. SettleInv => \A r \in Run : jobState = "COMPLETED" /\ run[r] # "idle" /\ LoneRun(r) =>
                     \A i \in Item : Terminal(i)
  BY DEF SettleInv
<1> QED
  BY <1>1, SettleInvariant, PTL

----------------------------------------------------------------------------
(* The job in the process that accepted it, which does not die.            *)
SoloInv ==
  /\ jobState = "ABSENT" => \A r \in Run : stage[r] = "off"
  /\ \A r \in Run : run[r] # "idle" => stage[r] \in {"engine", "failing", "over"}
  /\ \A r, s \in Run : stage[r] # "off" /\ stage[s] # "off" => r = s

(* Nobody works for the job any more, and nothing is left to do.           *)
Quiet ==
  /\ jobState # "ABSENT"
  /\ \A r \in Run : stage[r] \in {"off", "failing", "over"}
  /\ \A w \in Worker : pc[w] \in {"off", "done"}
  /\ \A i \in Item : Terminal(i)

CompletedIsQuiet == jobState = "COMPLETED" => Quiet

LEMMA SoloStep ==
  ASSUME \A r \in Run : Kind[r] = "submit",
         TypeOK, JobTypeOK, SoloInv, [JobNext]_allVars
  PROVE  SoloInv'
<1>a. \A r \in Run : (run'[r] = "idle" <=> run[r] = "idle") \/ SetRunning(r)
  BY RunsBegin
<1> USE DEF JobTypeOK, SoloInv, Moves
<1>1. ASSUME NEW r \in Run, Submit(r) PROVE SoloInv'
  BY <1>1 DEF Submit, Create, vars
<1>2. ASSUME NEW r \in Run, Execute(r) PROVE SoloInv'
  <2>1. CASE SetIngesting(r) \/ SetTotal(r) \/ SetFailed(r)
    BY <2>1 DEF SetIngesting, SetTotal, SetFailed, vars
  <2>2. CASE Flush(r)
    BY <2>2 DEF Flush
  <2>3. CASE SetRunning(r)
    BY <2>3 DEF SetRunning, Start, TypeOK
  <2>4. CASE EngineReturns(r) \/ EngineRaises(r)
    <3>1. /\ stage[r] = "engine" /\ jobState' # "ABSENT"
          /\ \E g \in {"failing", "over"} : stage' = [stage EXCEPT ![r] = g]
          /\ \A s \in Run \ {r} : run'[s] = run[s]
      BY <2>4 DEF EngineReturns, EngineRaises, Finish, RunFails, TypeOK
    <3> QED
      BY <3>1
  <2> QED
    BY <1>2, <2>1, <2>2, <2>3, <2>4 DEF Execute
<1>3. ASSUME NEW r \in Run, ExecuteFault(r) PROVE SoloInv'
  BY <1>3 DEF ExecuteFault, ExecuteRaises, SetFailedRaises, vars
<1>4. CASE EngineStep \/ UNCHANGED allVars
  <2>1. UNCHANGED jobVars
    BY <1>4 DEF EngineStep, allVars
  <2>2. \A r \in Run : ~ SetRunning(r)
    BY <2>1 DEF SetRunning, jobVars
  <2> QED
    BY <2>1, <2>2, <1>a DEF jobVars
<1> QED
  BY <1>1, <1>2, <1>3, <1>4 DEF JobNext, ResumeActive, ResumeFails, RunWorker, ProcessDies

(* Once it is quiet it stays so: no row, no file and no worker moves.      *)
LEMMA QuietStep ==
  ASSUME \A r \in Run : Kind[r] = "submit",
         EngineInv, JobTypeOK, Quiet, [JobNext]_allVars
  PROVE  Quiet' /\ UNCHANGED <<status, objects, pc>>
<1>a. TypeOK /\ Phases
  BY DEF EngineInv
<1>b. \A w \in Worker : hb[w] = "off"
  BY <1>a DEF Quiet, Phases, TypeOK
<1> USE DEF JobTypeOK, Quiet, Moves
<1>1. ASSUME NEW r \in Run, Execute(r) \/ ExecuteFault(r)
      PROVE  /\ UNCHANGED vars
             /\ stage' = [stage EXCEPT ![r] = "over"]
             /\ jobState' # "ABSENT"
  BY <1>1 DEF Execute, SetIngesting, Flush, SetTotal, SetFailed, SetRunning, EngineReturns,
    EngineRaises, ExecuteFault, ExecuteRaises, SetFailedRaises
<1>2. ASSUME NEW w \in Worker, Step(w) \/ Heartbeat(w) \/ Fault(w) \/ ServerRollback(w)
      PROVE  FALSE
  BY <1>2, <1>b
  DEF Step, Fault, ScanRow, ClaimChunk, NoChunk, ProcessChunk, ProcessChunkRaises,
      WriteChunk, CompleteRow, CompleteChunk, HeartbeatFails, WriteFails, DbFails,
      AckLost, Heartbeat, ServerRollback
<1>3. CASE EngineStep \/ UNCHANGED allVars
  <2>1. UNCHANGED <<jobVars, status, objects, pc>>
    BY <1>2, <1>3 DEF EngineStep, Tick, Q!Tick, wvars, allVars, vars, tableVars
  <2> QED
    BY <2>1 DEF jobVars, Terminal
<1>4. ASSUME NEW r \in Run, Execute(r) \/ ExecuteFault(r)
      PROVE  Quiet' /\ UNCHANGED <<status, objects, pc>>
  <2>1. UNCHANGED <<status, objects, pc>>
    BY <1>1, <1>4 DEF vars, tableVars, wvars
  <2> QED
    BY <1>1, <1>4, <2>1 DEF Terminal
<1> QED
  BY <1>3, <1>4
  DEF JobNext, Submit, Create, ResumeActive, ResumeFails, RunWorker, ProcessDies

LEMMA CompletedQuietStep ==
  ASSUME \A r \in Run : Kind[r] = "submit",
         EngineInv, JobTypeOK, IngestInv, SettleInv, SoloInv, CompletedIsQuiet,
         [JobNext]_allVars
  PROVE  CompletedIsQuiet'
<1> SUFFICES ASSUME jobState' = "COMPLETED" PROVE Quiet'
  BY DEF CompletedIsQuiet
<1>1. CASE jobState = "COMPLETED"
  BY <1>1, QuietStep DEF CompletedIsQuiet
<1>2. CASE jobState # "COMPLETED"
  <2>a. TypeOK /\ Phases
    BY DEF EngineInv
  <2>1. PICK r \in Run : /\ EngineReturns(r) \/ EngineRaises(r)
                         /\ \A w \in WorkersOf(r) : pc[w] = "done"
    BY <1>2, CompletionBegins
  <2>2. /\ run[r] # "idle" /\ stage[r] = "engine"
        /\ \E g \in {"failing", "over"} : stage' = [stage EXCEPT ![r] = g]
        /\ UNCHANGED <<tableVars, wvars>>
    BY <2>1 DEF EngineReturns, EngineRaises, Finish, RunFails, Moves
  <2>3. LoneRun(r)
    BY <2>2 DEF SoloInv, LoneRun
  <2>4. \A w \in Worker : pc[w] \in {"off", "done"}
    BY <2>a, <2>1, <2>3, EngineAssumption DEF LoneRun, WorkersOf, Phases
  <2>5. \A i \in Item : Terminal(i)
    BY <2>1, <2>2, <2>3, LoneRunSettles DEF SettleInv, IngestInv, Ingested
  <2>6. \A s \in Run : stage'[s] \in {"off", "failing", "over"}
    BY <2>2 DEF SoloInv, JobTypeOK
  <2> QED
    BY <2>2, <2>4, <2>5, <2>6 DEF Quiet, Terminal, tableVars, wvars
<1> QED
  BY <1>1, <1>2

LEMMA SoloInvariant ==
  ASSUME \A r \in Run : Kind[r] = "submit"
  PROVE  JobSpec => [](SoloInv /\ CompletedIsQuiet)
<1>1. JobInit => SoloInv /\ CompletedIsQuiet
  BY DEF JobInit, Init, SoloInv, CompletedIsQuiet
<1>2. /\ EngineInv /\ JobTypeOK /\ IngestInv /\ SettleInv
      /\ SoloInv /\ CompletedIsQuiet /\ [JobNext]_allVars
      => SoloInv' /\ CompletedIsQuiet'
  BY SoloStep, CompletedQuietStep DEF EngineInv
<1>3. JobSpec => [](IngestInv /\ SettleInv)
  BY SettleInvariant
<1> QED
  BY <1>1, <1>2, <1>3, JobEngineInv, JobTypeCorrect, PTL DEF JobSpec

(* In the process that accepted a job, and as long as that process lives,  *)
(* COMPLETED means that every row is settled, whatever fails: the workers, *)
(* the ingestion, the database, the storage or the heartbeats.             *)
THEOREM AcceptedJobSettles ==
  ASSUME \A r \in Run : Kind[r] = "submit"
  PROVE  JobSpec => []CompletedMeansSettled
<1>1. CompletedIsQuiet => CompletedMeansSettled
  BY DEF CompletedIsQuiet, Quiet, Terminal, CompletedMeansSettled
<1> QED
  BY <1>1, SoloInvariant, PTL

----------------------------------------------------------------------------
(* Processes that follow each other, some of which died: a dead one has    *)
(* taken its run and its workers along, one that is to begin has none.     *)
RunsFollow ==
  /\ CompletedRunsDone
  /\ \A r \in Run :
       /\ stage[r] \in {"off", "start", "ingest", "ingested"} => run[r] = "idle"
       /\ stage[r] = "dead" => run[r] \notin {"running", "failed"}
       /\ run[r] = "crashed" => \A w \in WorkersOf(r) : pc[w] = "dead"

(* What a job that is over leaves behind of a row, when nobody works.      *)
SettledOrDied(i) ==
  \/ Terminal(i)
  \/ status[i] = "CLAIMED" /\ pc[owner[i]] = "dead"
  \/ status[i] = "PENDING" /\ \E w \in Worker : pc[w] = "dead"

NobodyWorks == \A w \in Worker : pc[w] \in {"off", "done", "dead"}

CompletedAmongDead ==
  jobState = "COMPLETED" => NobodyWorks /\ \A i \in Item : SettledOrDied(i)

(* Nothing wakes a dead worker.                                            *)
LEMMA DeadStay ==
  ASSUME TypeOK, Phases, [Next]_vars, NEW w \in Worker, pc[w] = "dead"
  PROVE  pc'[w] = "dead"
<1> USE DEF TypeOK
<1>1. ASSUME NEW v \in Worker, Step(v) \/ Heartbeat(v) \/ Fault(v) \/ ServerRollback(v)
      PROVE  pc'[w] = "dead"
  BY <1>1
  DEF Step, Fault, ScanRow, ClaimChunk, NoChunk, ProcessChunk, ProcessChunkRaises,
      WriteChunk, CompleteRow, CompleteChunk, HeartbeatFails, WriteFails, DbFails,
      AckLost, Heartbeat, ServerRollback, Raises, Phases, wvars
<1>2. ASSUME NEW r \in Run, Start(r) \/ Finish(r) \/ RunFails(r) \/ Crash(r)
      PROVE  pc'[w] = "dead"
  BY <1>2 DEF Start, Finish, RunFails, Crash, Phases, wvars
<1>3. CASE Tick \/ Insert \/ UNCHANGED vars
  BY <1>3 DEF Tick, Insert, vars, wvars
<1> QED
  BY <1>1, <1>2, <1>3 DEF Next

LEMMA RunsFollowStep ==
  ASSUME \A r \in Run : Kind[r] # "worker",
         EngineInv, JobTypeOK, RunsFollow, [JobNext]_allVars
  PROVE  RunsFollow'
<1>a. TypeOK /\ Phases /\ [Next]_vars
  BY StepIsEngineStep DEF EngineInv
<1>b. CompletedRunsDone'
  BY <1>a, CompletedStep DEF RunsFollow
<1>c. \A w \in Worker : pc[w] = "dead" => pc'[w] = "dead"
  BY <1>a, DeadStay
<1> DEFINE Follow(r) ==
      /\ stage[r] \in {"off", "start", "ingest", "ingested"} => run[r] = "idle"
      /\ stage[r] = "dead" => run[r] \notin {"running", "failed"}
      /\ run[r] = "crashed" => \A w \in WorkersOf(r) : pc[w] = "dead"
<1>d. \A r \in Run : Follow(r)
  BY DEF RunsFollow
<1> SUFFICES ASSUME NEW r \in Run PROVE Follow(r)'
  BY <1>b DEF RunsFollow
<1> USE DEF TypeOK, JobTypeOK, Moves, WorkersOf
<1>e. ASSUME UNCHANGED run,
             stage'[r] \in {"off", "start", "ingest", "ingested"} =>
               stage[r] \in {"off", "start", "ingest", "ingested"},
             stage'[r] = "dead" => stage[r] = "dead"
      PROVE  Follow(r)'
  BY <1>c, <1>d, <1>e
<1>1. ASSUME NEW s \in Run, Submit(s) \/ ResumeActive(s) \/ ResumeFails(s) \/ ExecuteFault(s)
      PROVE  Follow(r)'
  <2>1. UNCHANGED run
    BY <1>1 DEF Submit, ResumeActive, ResumeFails, ExecuteFault, ExecuteRaises,
      SetFailedRaises, vars
  <2>2. /\ stage[s] \notin {"engine", "over", "dead"}
        /\ \E g \in Executing \cup {"over"} : stage' = [stage EXCEPT ![s] = g]
        /\ stage[s] = "failing" => stage'[s] = "over"
    BY <1>1 DEF Submit, ResumeActive, ResumeFails, ExecuteFault, ExecuteRaises,
      SetFailedRaises, Executing
  <2> QED
    BY <2>1, <2>2, <1>e DEF Executing
<1>2. ASSUME NEW s \in Run, Execute(s) PROVE Follow(r)'
  <2>1. CASE SetIngesting(s) \/ SetTotal(s) \/ SetFailed(s)
    BY <2>1, <1>e DEF SetIngesting, SetTotal, SetFailed, vars
  <2>2. CASE Flush(s)
    BY <2>2, <1>e DEF Flush
  <2>3. CASE SetRunning(s) \/ EngineReturns(s) \/ EngineRaises(s)
    <3>1. /\ \E g \in {"engine", "failing", "over"} : stage' = [stage EXCEPT ![s] = g]
          /\ \E g \in {"running", "completed", "failed"} : run' = [run EXCEPT ![s] = g]
      BY <2>3 DEF SetRunning, EngineReturns, EngineRaises, Start, Finish, RunFails
    <3> QED
      BY <3>1, <1>c, <1>d
  <2> QED
    BY <1>2, <2>1, <2>2, <2>3 DEF Execute
<1>3. ASSUME NEW s \in Run, ProcessDies(s) PROVE Follow(r)'
  <2>1. CASE run[s] \in {"running", "failed"}
    <3>1. /\ stage' = [stage EXCEPT ![s] = "dead"]
          /\ run' = [run EXCEPT ![s] = "crashed"]
          /\ \A w \in WorkersOf(s) : pc'[w] = "dead"
      BY <1>3, <2>1 DEF ProcessDies, Crash
    <3> QED
      BY <3>1, <1>a, <1>c, <1>d
  <2>2. CASE run[s] \notin {"running", "failed"}
    <3>1. stage' = [stage EXCEPT ![s] = "dead"] /\ UNCHANGED run
      BY <1>3, <2>2 DEF ProcessDies, vars
    <3> QED
      BY <3>1, <2>2, <1>c, <1>d
  <2> QED
    BY <2>1, <2>2
<1>4. CASE EngineStep \/ UNCHANGED allVars
  <2>1. UNCHANGED <<jobVars, run>>
    BY <1>4
    DEF EngineStep, Tick, allVars, vars, Step, Fault, ScanRow, ClaimChunk, NoChunk,
        ProcessChunk, ProcessChunkRaises, WriteChunk, CompleteRow, CompleteChunk,
        HeartbeatFails, WriteFails, DbFails, AckLost, Heartbeat, ServerRollback
  <2> QED
    BY <2>1, <1>e DEF jobVars
<1> QED
  BY <1>1, <1>2, <1>3, <1>4 DEF JobNext, RunWorker

(* Where a worker found nothing and the others are off, done or dead, the  *)
(* dead ones have all that is not settled.                                 *)
LEMMA DoneAmongDead ==
  ASSUME EngineInv, NobodyWorks, \E w \in Worker : pc[w] = "done",
         NEW i \in Item, status[i] # "ABSENT", FoundNothing(i)
  PROVE  SettledOrDied(i)
<1>1. status[i] = "CLAIMED" => pc[owner[i]] = "dead"
  BY DEF EngineInv, OwnersWork, Working, NobodyWorks
<1>2. status[i] = "PENDING" /\ lock[i] # NoWorker => \E w \in Worker : pc[w] = "dead"
  <2>1. lock[i] \in Worker \cup {NoWorker}
    BY DEF EngineInv, TypeOK, Q!TypeOK
  <2>2. \A v \in Worker : lock[i] = v => txn[v] \in {"claim", "complete"}
    BY DEF EngineInv, Q!LockedRowsStable
  <2>3. \A v \in Worker : txn[v] \in {"claim", "complete"} => pc[v] = "dead"
    BY DEF EngineInv, Phases, NobodyWorks
  <2> QED
    BY <2>1, <2>2, <2>3
<1>3. status[i] = "PENDING" => \E w \in Worker : pc[w] = "dead"
  BY <1>2 DEF FoundNothing, NobodyWorks
<1> QED
  BY <1>1, <1>3 DEF EngineInv, TypeOK, Q!TypeOK, Q!Status, Terminal, SettledOrDied

LEMMA AmongDeadStep ==
  ASSUME ~Replicas, \A r \in Run : Kind[r] # "worker",
         EngineInv, JobTypeOK, IngestInv, SettleInv, Alone, OverMeansOver, RunsFollow,
         CompletedAmongDead, [JobNext]_allVars
  PROVE  CompletedAmongDead'
<1>a. TypeOK /\ Phases /\ OwnersWork
  BY DEF EngineInv
<1>b. ASSUME NobodyWorks, \A i \in Item : SettledOrDied(i), UNCHANGED <<status, owner>>,
             \A w \in Worker : pc'[w] = pc[w] \/ pc'[w] = "dead"
      PROVE  CompletedAmongDead'
  BY <1>a, <1>b DEF CompletedAmongDead, NobodyWorks, SettledOrDied, Terminal, OwnersWork
<1>c. CASE jobState' # "COMPLETED"
  BY <1>c DEF CompletedAmongDead
<1>d. CASE jobState = "COMPLETED" /\ jobState' = "COMPLETED"
  <2>a. NobodyWorks /\ \A i \in Item : SettledOrDied(i)
    BY <1>d DEF CompletedAmongDead
  <2>b. \A w \in Worker : hb[w] = "off"
    BY <1>a, <2>a DEF NobodyWorks, Phases, TypeOK
  <2>c. CASE UNCHANGED vars
    BY <1>b, <2>a, <2>c DEF vars, tableVars, wvars
  <2>1. ASSUME NEW r \in Run, Submit(r) \/ ResumeActive(r) \/ ResumeFails(r) \/ ExecuteFault(r)
        PROVE  UNCHANGED vars
    BY <2>1 DEF Submit, ResumeActive, ResumeFails, ExecuteFault, ExecuteRaises,
      SetFailedRaises
  <2>2. ASSUME NEW r \in Run, Execute(r) PROVE FALSE
    BY <1>d, <2>2 DEF OverMeansOver, Over, Execute, SetIngesting, Flush, SetTotal,
      SetFailed, SetRunning, EngineReturns, EngineRaises, Moves
  <2>3. ASSUME NEW r \in Run, ProcessDies(r), ~ UNCHANGED vars
        PROVE  CompletedAmongDead'
    <3>1. /\ UNCHANGED <<status, owner>>
          /\ \A w \in Worker : pc'[w] = pc[w] \/ pc'[w] = "dead"
      BY <2>3 DEF ProcessDies, Crash, tableVars
    <3> QED
      BY <1>b, <2>a, <3>1
  <2>4. ASSUME NEW w \in Worker, Step(w) \/ Heartbeat(w) \/ Fault(w) PROVE FALSE
    BY <2>4, <2>a, <2>b
    DEF NobodyWorks, Step, Fault, ScanRow, ClaimChunk, NoChunk, ProcessChunk,
        ProcessChunkRaises, WriteChunk, CompleteRow, CompleteChunk, HeartbeatFails,
        WriteFails, DbFails, AckLost, Heartbeat
  <2>5. ASSUME NEW w \in Worker, ServerRollback(w) PROVE CompletedAmongDead'
    BY <2>5, <1>b, <2>a DEF ServerRollback, Q!Rollback, Q!rowVars, wvars
  <2>6. CASE Tick
    BY <2>6, <1>b, <2>a DEF Tick, Q!Tick, wvars
  <2> QED
    BY <2>c, <2>1, <2>2, <2>3, <2>4, <2>5, <2>6 DEF JobNext, EngineStep, RunWorker, allVars
<1>e. CASE jobState # "COMPLETED" /\ jobState' = "COMPLETED"
  <2>1. PICK r \in Run : /\ EngineReturns(r) \/ EngineRaises(r)
                         /\ \A w \in WorkersOf(r) : pc[w] = "done"
    BY <1>e, CompletionBegins
  <2>2. stage[r] = "engine" /\ UNCHANGED <<tableVars, wvars>>
    BY <2>1 DEF EngineReturns, EngineRaises, Finish, RunFails, Moves
  <2>3. ASSUME NEW w \in Worker PROVE pc[w] \in {"off", "done", "dead"}
    <3>1. CASE RunOf[w] = r
      BY <2>1, <3>1 DEF WorkersOf
    <3>2. CASE RunOf[w] # r
      <4>1. RunOf[w] \in Run /\ stage[RunOf[w]] \in {"off", "dead"}
        BY <2>2, <3>2, EngineAssumption DEF Alone
      <4>2. run[RunOf[w]] \in {"idle", "completed", "crashed"}
        BY <1>a, <4>1 DEF RunsFollow, TypeOK
      <4> QED
        BY <1>a, <4>1, <4>2 DEF RunsFollow, CompletedRunsDone, WorkersOf, Phases
    <3> QED
      BY <3>1, <3>2
  <2>4. \E w \in Worker : pc[w] = "done"
    BY <2>1, PoolAssumption DEF WorkersOf
  <2>5. \A i \in Item : SettledOrDied(i)
    BY <2>2, <2>3, <2>4, DoneAmongDead DEF NobodyWorks, IngestInv, Ingested, SettleInv
  <2> QED
    BY <1>b, <2>2, <2>3, <2>5 DEF NobodyWorks, tableVars, wvars
<1> QED
  BY <1>c, <1>d, <1>e

(* Where one API process follows another, whatever failed and however many *)
(* of them died: a COMPLETED job has left nothing undone but what a dead   *)
(* process had claimed, or may have hidden from a scan with its locks.     *)
THEOREM SuccessorsLeaveOnlyTheDead ==
  ASSUME ~Replicas, \A r \in Run : Kind[r] # "worker"
  PROVE  JobSpec => []OnlyTheDeadLoseRows
<1>1. JobInit => Alone /\ OverMeansOver /\ RunsFollow /\ CompletedAmongDead
  BY OverInit DEF JobInit, Init, RunsFollow, CompletedRunsDone, CompletedAmongDead
<1>2. /\ EngineInv /\ JobTypeOK /\ IngestInv /\ SettleInv
      /\ Alone /\ OverMeansOver /\ RunsFollow /\ CompletedAmongDead /\ [JobNext]_allVars
      => Alone' /\ OverMeansOver' /\ RunsFollow' /\ CompletedAmongDead'
  BY AloneStep, OverStep, RunsFollowStep, AmongDeadStep
<1>3. CompletedAmongDead => OnlyTheDeadLoseRows
  BY DEF CompletedAmongDead, SettledOrDied, OnlyTheDeadLoseRows
<1>4. JobSpec => [](IngestInv /\ SettleInv)
  BY SettleInvariant
<1> QED
  BY <1>1, <1>2, <1>3, <1>4, JobEngineInv, JobTypeCorrect, PTL DEF JobSpec
=============================================================================
