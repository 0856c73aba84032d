------------------------- MODULE BatchEngineProofs -------------------------
(***************************************************************************)
(* The engine's guarantees for any number of runs, workers and rows, any   *)
(* chunk size and lease, and every combination of the failures: EngineInv  *)
(* is inductive, and the properties follow from it.                        *)
(***************************************************************************)
EXTENDS BatchEngine, TLAPS

(* A row that complete_items has locked is in the caller's chunk, in its   *)
(* latest delivery, and has a result.                                      *)
LEMMA LockedHasResult ==
  ASSUME EngineInv, NEW w \in Worker, NEW i \in Item,
         pc[w] = "commit", txn[w] = "complete", lock[i] = w
  PROVE  /\ status[i] = "CLAIMED" /\ owner[i] = w
         /\ held[w][i] = attempts[i] /\ i \in Chunk(w)
         /\ outcome[w][i] \in Q!Result
<1>1. status[i] = "CLAIMED" /\ owner[i] = w
  BY DEF EngineInv, Q!LockedRowsStable
<1>2. held[w][i] = attempts[i] /\ attempts[i] > 0
  BY <1>1 DEF EngineInv, OwnersWork, Working
<1> QED
  BY <1>1, <1>2 DEF EngineInv, ResultsKept, Chunk

(* The table keeps its types when a worker commits its chunk.              *)
LEMMA CommitTypes ==
  ASSUME EngineInv, NEW w \in Worker, pc[w] = "commit",
         Q!CompleteCommit(w, outcome[w], Name(w))
  PROVE  Q!TypeOK'
<1>1. Name(w) \in Ref
  BY DEF EngineInv, TypeOK, Name, Ref
<1>2. \A i \in Item : lock[i] = w =>
        outcome[w][i].status \in Q!Verdict /\ outcome[w][i].attempts \in Nat
  BY LockedHasResult, EngineAssumption DEF Q!CompleteCommit, Q!Result
<1> QED
  BY <1>1, <1>2
  DEF Q!CompleteCommit, Q!Release, EngineInv, TypeOK, Q!TypeOK, Q!Status

(* What a pass of the ingestor does to a row: it can only appear.          *)
LEMMA InsertEffect ==
  ASSUME Insert, NEW i \in Item
  PROVE  /\ status[i] # "ABSENT" => status'[i] = status[i]
         /\ status[i] = "ABSENT" => status'[i] \in {"ABSENT", "PENDING", "FAILED"}
         /\ UNCHANGED <<owner, lease, attempts, ref, lock, txn>>
         /\ UNCHANGED <<pc, held, outcome, todo, hb, objects, run>>
  BY DEF Insert, Q!BulkInsert, wvars

(* Every action keeps the types of the table and of the engine.            *)
LEMMA TypeStep == EngineInv /\ [Next]_vars => TypeOK'
<1> SUFFICES ASSUME EngineInv, TypeOK, [Next]_vars PROVE TypeOK'
  BY DEF EngineInv
<1> USE EngineAssumption
<1> USE DEF TypeOK, Q!TypeOK, Q!Status, Q!Verdict, Q!Expired, Q!NullLease,
            Working, Ended
<1>a. NoneHeld \in [Item -> Nat] /\ NoOutcome \in [Item -> Q!Result \cup {NoResult}]
  BY DEF NoneHeld, NoOutcome
<1>b. ASSUME NEW W \in SUBSET Worker, DropChunks(W)
      PROVE  /\ held' \in [Worker -> [Item -> Nat]]
             /\ outcome' \in [Worker -> [Item -> Q!Result \cup {NoResult}]]
             /\ todo' \in [Worker -> SUBSET Item]
             /\ hb' \in [Worker -> {"off", "on", "raised"}]
  BY <1>a, <1>b DEF DropChunks
<1>c. ASSUME NEW w \in Worker, Raises(w)
      PROVE  /\ held' \in [Worker -> [Item -> Nat]]
             /\ outcome' \in [Worker -> [Item -> Q!Result \cup {NoResult}]]
             /\ todo' \in [Worker -> SUBSET Item]
             /\ hb' \in [Worker -> {"off", "on", "raised"}]
             /\ pc' \in [Worker -> {"off", "claim"} \cup Working \cup Ended]
  BY <1>b, <1>c DEF Raises
<1>d. ASSUME NEW w \in Worker, Q!ClaimCommit(w) PROVE Q!TypeOK'
  BY <1>d DEF Q!ClaimCommit, Q!Release, Q!NewLease
<1>e. ASSUME NEW w \in Worker, Q!Rollback(w) PROVE Q!TypeOK'
  BY <1>e DEF Q!Rollback, Q!Release, Q!rowVars
<1>1. ASSUME NEW w \in Worker, ScanRow(w) PROVE TypeOK'
  BY <1>1 DEF ScanRow, Q!ClaimRow, Q!rowVars, Q!Ahead, Q!Unlocked, wvars
<1>2. ASSUME NEW w \in Worker, ClaimChunk(w) PROVE TypeOK'
  BY <1>2, <1>d DEF ClaimChunk
<1>3. ASSUME NEW w \in Worker, NoChunk(w) PROVE TypeOK'
  BY <1>3 DEF NoChunk, Q!ClaimNothing, Q!qvars
<1>4. ASSUME NEW w \in Worker, Heartbeat(w) PROVE TypeOK'
  BY <1>4 DEF Heartbeat, Q!RenewLease, Q!NewLease, wvars
<1>5. ASSUME NEW w \in Worker, HeartbeatFails(w) PROVE TypeOK'
  BY <1>5 DEF HeartbeatFails, tableVars
<1>6. ASSUME NEW w \in Worker, ProcessChunk(w) PROVE TypeOK'
  BY <1>6 DEF ProcessChunk, tableVars, Chunk
<1>7. ASSUME NEW w \in Worker, ProcessChunkRaises(w) PROVE TypeOK'
  BY <1>7, <1>c DEF ProcessChunkRaises, tableVars
<1>8. ASSUME NEW w \in Worker, WriteChunk(w) PROVE TypeOK'
  BY <1>8 DEF WriteChunk, tableVars, Chunk, Name, Ref
<1>9. ASSUME NEW w \in Worker, WriteFails(w) PROVE TypeOK'
  BY <1>9, <1>c DEF WriteFails, tableVars
<1>10. ASSUME NEW w \in Worker, CompleteRow(w) PROVE TypeOK'
  BY <1>10 DEF CompleteRow, Q!CompleteRow, Q!rowVars
<1>11. ASSUME NEW w \in Worker, DbFails(w) PROVE TypeOK'
  BY <1>11, <1>c, <1>e DEF DbFails
<1>12. ASSUME NEW w \in Worker, CompleteChunk(w) PROVE TypeOK'
  <2>1. Q!TypeOK'
    BY <1>12, CommitTypes DEF CompleteChunk
  <2> QED
    BY <1>12, <1>b, <2>1 DEF CompleteChunk
<1>13. ASSUME NEW w \in Worker, AckLost(w) PROVE TypeOK'
  <2>1. Q!TypeOK'
    BY <1>13, <1>d, CommitTypes DEF AckLost
  <2> QED
    BY <1>13, <1>c, <2>1 DEF AckLost
<1>14. ASSUME NEW r \in Run, Start(r) PROVE TypeOK'
  BY <1>14 DEF Start, tableVars
<1>15. ASSUME NEW r \in Run, Finish(r) \/ RunFails(r) PROVE TypeOK'
  BY <1>15 DEF Finish, RunFails, tableVars, wvars
<1>16. ASSUME NEW r \in Run, Crash(r) PROVE TypeOK'
  <2>1. WorkersOf(r) \in SUBSET Worker
    BY DEF WorkersOf
  <2> QED
    BY <1>16, <1>b, <2>1 DEF Crash, tableVars
<1>17. ASSUME NEW w \in Worker, ServerRollback(w) PROVE TypeOK'
  BY <1>17, <1>e DEF ServerRollback, wvars
<1>18. CASE Tick
  BY <1>18 DEF Tick, Q!Tick, Q!Ages, wvars
<1>19. CASE UNCHANGED vars
  BY <1>19 DEF vars, tableVars, wvars
<1>20. CASE Insert
  BY <1>20 DEF Insert, Q!BulkInsert, Q!Status, Q!Verdict, wvars
<1> QED
  BY <1>1, <1>2, <1>3, <1>4, <1>5, <1>6, <1>7, <1>8, <1>9, <1>10, <1>11,
     <1>12, <1>13, <1>14, <1>15, <1>16, <1>17, <1>18, <1>19, <1>20
  DEF Next, Step, Fault

(* A worker's next row locked by its claim.                                *)
LEMMA ScanLocks ==
  ASSUME EngineInv, NEW w \in Worker, Q!ClaimRow(w)
  PROVE  \E i \in Item : /\ Q!Claimable(i)
                         /\ lock[i] = NoWorker
                         /\ lock' = [lock EXCEPT ![i] = w]
  BY DEF Q!ClaimRow, Q!Ahead, Q!Unlocked

(* Row locks protect what a claim or a completion has seen.                *)
LEMMA LockStep == EngineInv /\ [Next]_vars => Q!LockedRowsStable'
<1> SUFFICES ASSUME EngineInv, Q!LockedRowsStable, [Next]_vars
             PROVE  Q!LockedRowsStable'
  BY DEF EngineInv
<1> USE EngineAssumption
<1>a. TypeOK /\ Q!TypeOK
  BY DEF EngineInv, TypeOK
<1> USE DEF Q!LockedRowsStable, Q!Claimable, Q!Expired, Q!TypeOK
<1>b. ASSUME NEW w \in Worker, Q!Rollback(w) PROVE Q!LockedRowsStable'
  BY <1>a, <1>b DEF Q!Rollback, Q!Release, Q!rowVars
<1>c. ASSUME NEW w \in Worker, Q!ClaimCommit(w) PROVE Q!LockedRowsStable'
  BY <1>a, <1>c DEF Q!ClaimCommit, Q!Release
<1>e. ASSUME NEW j \in Item, NEW v \in Worker, lock[j] = v
      PROVE  \/ txn[v] = "claim" /\ Q!Claimable(j)
             \/ txn[v] = "complete" /\ status[j] = "CLAIMED" /\ owner[j] = v
  BY <1>e
<1>d. ASSUME NEW w \in Worker, NEW res, NEW r, Q!CompleteCommit(w, res, r)
      PROVE  Q!LockedRowsStable'
  <2>1. ASSUME NEW j \in Item, NEW v \in Worker, lock'[j] = v
        PROVE  /\ v # w /\ lock[j] = v /\ txn'[v] = txn[v]
               /\ status'[j] = status[j]
    BY <1>a, <1>d, <2>1 DEF Q!CompleteCommit, Q!Release
  <2>2. UNCHANGED <<owner, lease>>
    BY <1>d DEF Q!CompleteCommit
  <2>3. ASSUME NEW j \in Item, NEW v \in Worker, lock'[j] = v
        PROVE  \/ txn'[v] = "claim" /\ Q!Claimable(j)'
               \/ txn'[v] = "complete" /\ status'[j] = "CLAIMED" /\ owner'[j] = v
    <3>1. v # w /\ lock[j] = v /\ txn'[v] = txn[v] /\ status'[j] = status[j]
      BY <2>1, <2>3
    <3> HIDE DEF Q!LockedRowsStable, Q!Claimable, Q!TypeOK
    <3>2. \/ txn[v] = "claim" /\ Q!Claimable(j)
          \/ txn[v] = "complete" /\ status[j] = "CLAIMED" /\ owner[j] = v
      BY <3>1, <1>e
    <3> USE DEF Q!Claimable
    <3>3. Q!Claimable(j) => Q!Claimable(j)'
      BY <2>2, <3>1
    <3> HIDE DEF Q!Claimable
    <3> QED
      BY <2>2, <3>1, <3>2, <3>3
  <2> HIDE DEF Q!Claimable, Q!TypeOK
  <2> QED
    BY <2>3
<1>1. ASSUME NEW w \in Worker, ScanRow(w) PROVE Q!LockedRowsStable'
  <2>1. PICK i \in Item : Q!Claimable(i) /\ lock' = [lock EXCEPT ![i] = w]
    BY <1>1, ScanLocks DEF ScanRow
  <2>2. /\ txn' = [txn EXCEPT ![w] = "claim"]
        /\ txn[w] # "complete"
        /\ UNCHANGED <<status, owner, lease>>
    BY <1>1 DEF ScanRow, Q!ClaimRow, Q!rowVars
  <2>3. ASSUME NEW j \in Item, NEW v \in Worker, lock'[j] = v
        PROVE  \/ txn'[v] = "claim" /\ Q!Claimable(j)
               \/ txn'[v] = "complete" /\ status[j] = "CLAIMED" /\ owner[j] = v
    <3>1. CASE v = w
      BY <1>a, <2>1, <2>2, <2>3, <3>1
    <3>2. CASE v # w
      BY <1>a, <2>1, <2>2, <2>3, <3>2
    <3> QED
      BY <3>1, <3>2
  <2>4. UNCHANGED <<status, owner, lease>>
    BY <2>2
  <2> QED
    BY <2>3, <2>4
<1>2. ASSUME NEW w \in Worker, Heartbeat(w) PROVE Q!LockedRowsStable'
  BY <1>a, <1>2 DEF Heartbeat, Q!RenewLease, Q!Matches
<1>3. ASSUME NEW w \in Worker, CompleteRow(w) PROVE Q!LockedRowsStable'
  <2>1. PICK i \in Item : Q!CompleteRow(w, i)
    BY <1>3, <1>a DEF CompleteRow, TypeOK
  <2> QED
    BY <1>a, <2>1 DEF Q!CompleteRow, Q!rowVars, Q!Matches
<1>4. ASSUME NEW w \in Worker,
             NoChunk(w) \/ HeartbeatFails(w) \/ ProcessChunk(w)
               \/ ProcessChunkRaises(w) \/ WriteChunk(w) \/ WriteFails(w)
      PROVE  Q!LockedRowsStable'
  <2>1. UNCHANGED tableVars
    BY <1>4 DEF NoChunk, HeartbeatFails, ProcessChunk, ProcessChunkRaises,
                WriteChunk, WriteFails, Q!ClaimNothing, Q!qvars, tableVars
  <2> QED
    BY <2>1 DEF tableVars
<1>5. ASSUME NEW r \in Run, Start(r) \/ Finish(r) \/ RunFails(r) \/ Crash(r)
      PROVE  Q!LockedRowsStable'
  BY <1>5 DEF Start, Finish, RunFails, Crash, tableVars
<1>6. CASE Tick
  <2>1. \A i \in Item : lease[i] = Q!Expired => lease'[i] = Q!Expired
    BY <1>6, <1>a DEF Tick, Q!Tick, Q!Ages, Q!Expired, Q!NullLease
  <2>2. UNCHANGED <<status, owner, lock, txn>>
    BY <1>6 DEF Tick, Q!Tick
  <2>3. \A i \in Item : Q!Claimable(i) => Q!Claimable(i)'
    BY <2>1, <2>2
  <2> HIDE DEF Q!Claimable
  <2> QED
    BY <2>2, <2>3
<1>7. CASE UNCHANGED vars
  BY <1>7 DEF vars, tableVars
<1>8. CASE Insert
  <2>1. /\ UNCHANGED <<owner, lease, lock, txn>>
        /\ \A i \in Item : status[i] # "ABSENT" => status'[i] = status[i]
    BY <1>8 DEF Insert, Q!BulkInsert
  <2>2. ASSUME NEW j \in Item, NEW v \in Worker, lock'[j] = v
        PROVE  \/ txn'[v] = "claim" /\ Q!Claimable(j)'
               \/ txn'[v] = "complete" /\ status'[j] = "CLAIMED" /\ owner'[j] = v
    <3>1. \/ txn[v] = "claim" /\ Q!Claimable(j)
          \/ txn[v] = "complete" /\ status[j] = "CLAIMED" /\ owner[j] = v
      BY <2>1, <2>2
    <3> HIDE DEF Q!LockedRowsStable, Q!TypeOK
    <3> QED
      BY <2>1, <3>1
  <2> HIDE DEF Q!Claimable, Q!TypeOK
  <2> QED
    BY <2>2
<1> QED
  BY <1>b, <1>c, <1>d, <1>1, <1>2, <1>3, <1>4, <1>5, <1>6, <1>7, <1>8
  DEF Next, Step, Fault, ClaimChunk, CompleteChunk, DbFails, AckLost,
      ServerRollback

(* Transactions, heartbeats and chunks stay within their phase.            *)
LEMMA PhasesStep == EngineInv /\ [Next]_vars => Phases'
<1> SUFFICES ASSUME EngineInv, TypeOK, Phases, [Next]_vars PROVE Phases'
  BY DEF EngineInv
<1> USE EngineAssumption
<1> USE DEF TypeOK, Q!TypeOK, Phases, Working, Ended
<1>b. ASSUME NEW w \in Worker, Raises(w), UNCHANGED run, pc[w] # "off",
             Q!Release(w) \/ (pc[w] \in {"process", "flush"} /\ UNCHANGED txn)
      PROVE  Phases'
  BY <1>b DEF Raises, DropChunks, NoneHeld, Q!Release
<1>1. ASSUME NEW w \in Worker, ScanRow(w) PROVE Phases'
  BY <1>1 DEF ScanRow, Q!ClaimRow, wvars
<1>2. ASSUME NEW w \in Worker, ClaimChunk(w) PROVE Phases'
  BY <1>2 DEF ClaimChunk, Q!ClaimCommit, Q!Release
<1>3. ASSUME NEW w \in Worker, NoChunk(w) PROVE Phases'
  BY <1>3 DEF NoChunk, Q!ClaimNothing, Q!qvars
<1>4. ASSUME NEW w \in Worker, Heartbeat(w) PROVE Phases'
  BY <1>4 DEF Heartbeat, Q!RenewLease, wvars
<1>5. ASSUME NEW w \in Worker,
             HeartbeatFails(w) \/ ProcessChunk(w) \/ WriteChunk(w)
      PROVE  Phases'
  BY <1>5 DEF HeartbeatFails, ProcessChunk, WriteChunk, tableVars
<1>6. ASSUME NEW w \in Worker,
             ProcessChunkRaises(w) \/ WriteFails(w) \/ DbFails(w) \/ AckLost(w)
      PROVE  Phases'
  <2> HIDE DEF TypeOK, Q!TypeOK, Phases, Working, Ended
  <2>1. Raises(w) /\ UNCHANGED run /\ pc[w] # "off"
    BY <1>6 DEF ProcessChunkRaises, WriteFails, DbFails, AckLost
  <2>2. Q!Release(w) \/ (pc[w] \in {"process", "flush"} /\ UNCHANGED txn)
    BY <1>6 DEF ProcessChunkRaises, WriteFails, DbFails, AckLost, Q!Rollback,
                Q!ClaimCommit, Q!CompleteCommit, tableVars
  <2> QED
    BY <1>b, <2>1, <2>2
<1>7. ASSUME NEW w \in Worker, CompleteRow(w) PROVE Phases'
  BY <1>7 DEF CompleteRow, Q!CompleteRow
<1>8. ASSUME NEW w \in Worker, CompleteChunk(w) PROVE Phases'
  <2>1. /\ pc' = [pc EXCEPT ![w] = "claim"] /\ pc[w] = "commit"
        /\ txn' = [txn EXCEPT ![w] = "none"]
        /\ UNCHANGED run
    BY <1>8 DEF CompleteChunk, Q!CompleteCommit, Q!Release
  <2>2. /\ held' = [v \in Worker |-> IF v = w THEN NoneHeld ELSE held[v]]
        /\ hb' = [v \in Worker |-> IF v = w THEN "off" ELSE hb[v]]
    BY <1>8 DEF CompleteChunk, DropChunks
  <2> QED
    BY <2>1, <2>2 DEF NoneHeld
<1>9. ASSUME NEW r \in Run, Start(r) PROVE Phases'
  BY <1>9 DEF Start, tableVars
<1>10. ASSUME NEW r \in Run, Finish(r) \/ RunFails(r) PROVE Phases'
  BY <1>10 DEF Finish, RunFails, tableVars, wvars
<1>11. ASSUME NEW r \in Run, Crash(r) PROVE Phases'
  BY <1>11 DEF Crash, tableVars, DropChunks, NoneHeld, WorkersOf
<1>12. ASSUME NEW w \in Worker, ServerRollback(w) PROVE Phases'
  BY <1>12 DEF ServerRollback, Q!Rollback, Q!Release, wvars
<1>13. CASE Tick
  BY <1>13 DEF Tick, Q!Tick, wvars
<1>14. CASE Insert \/ UNCHANGED vars
  BY <1>14 DEF Insert, Q!BulkInsert, vars, tableVars, wvars
<1> QED
  BY <1>1, <1>2, <1>3, <1>4, <1>5, <1>6, <1>7, <1>8, <1>9, <1>10, <1>11,
     <1>12, <1>13, <1>14
  DEF Next, Step, Fault

(* What a claim's commit does to the rows.                                 *)
LEMMA ClaimEffect ==
  ASSUME EngineInv, NEW w \in Worker, Q!ClaimCommit(w), pc[w] = "claim",
         NEW i \in Item
  PROVE  /\ lock[i] = w => /\ status[i] \in {"PENDING", "CLAIMED"}
                           /\ status'[i] = "CLAIMED" /\ owner'[i] = w
                           /\ attempts'[i] = attempts[i] + 1
         /\ lock[i] # w => /\ status'[i] = status[i] /\ owner'[i] = owner[i]
                           /\ attempts'[i] = attempts[i] /\ lock'[i] = lock[i]
                           /\ ref'[i] = ref[i]
         /\ lock'[i] \in {lock[i], NoWorker}
         /\ status[i] = "CLAIMED" => owner[i] # w
<1>1. Q!TypeOK
  BY DEF EngineInv, TypeOK
<1>2. lock[i] = w => status[i] \in {"PENDING", "CLAIMED"}
  BY DEF EngineInv, Q!LockedRowsStable, Q!Claimable, Q!ClaimCommit
<1>3. status[i] = "CLAIMED" => owner[i] # w
  BY DEF EngineInv, OwnersWork, Working
<1> QED
  BY <1>1, <1>2, <1>3 DEF Q!ClaimCommit, Q!Release, Q!TypeOK

(* What a chunk's commit does to the rows: it settles what it locked, and  *)
(* leaves the worker without a claimed row.                                *)
LEMMA CommitEffect ==
  ASSUME EngineInv, NEW w \in Worker, pc[w] = "commit", todo[w] = {},
         Q!CompleteCommit(w, outcome[w], Name(w)), NEW i \in Item
  PROVE  /\ lock[i] = w => /\ status[i] = "CLAIMED" /\ owner[i] = w
                           /\ held[w][i] = attempts[i]
                           /\ outcome[w][i] \in Q!Result
                           /\ status'[i] = outcome[w][i].status
                           /\ status'[i] \in Q!Verdict
                           /\ attempts'[i] = outcome[w][i].attempts
                           /\ ref'[i] = Name(w)
         /\ lock[i] # w => /\ status'[i] = status[i]
                           /\ attempts'[i] = attempts[i] /\ lock'[i] = lock[i]
                           /\ ref'[i] = ref[i]
                           /\ status[i] = "CLAIMED" => owner[i] # w
         /\ owner'[i] = owner[i]
<1>1. Q!TypeOK /\ txn[w] = "complete"
  BY DEF EngineInv, TypeOK, Q!CompleteCommit
<1>2. lock[i] = w => /\ status[i] = "CLAIMED" /\ owner[i] = w
                     /\ held[w][i] = attempts[i]
                     /\ outcome[w][i] \in Q!Result
                     /\ outcome[w][i].status \in Q!Verdict
  BY <1>1, LockedHasResult DEF Q!Result
<1>3. lock[i] # w /\ status[i] = "CLAIMED" => owner[i] # w
  BY DEF EngineInv, OwnersWork
<1> QED
  BY <1>1, <1>2, <1>3 DEF Q!CompleteCommit, Q!Release, Q!TypeOK

(* Every claimed row keeps an owner that works on its latest delivery.     *)
LEMMA OwnersStep == EngineInv /\ [Next]_vars => OwnersWork'
<1> SUFFICES ASSUME EngineInv, [Next]_vars,
                    NEW i \in Item, status'[i] = "CLAIMED"
             PROVE  /\ attempts'[i] > 0
                    /\ owner'[i] \in Worker
                    /\ pc'[owner'[i]] \in Working \cup {"raised", "dead"}
                    /\ pc'[owner'[i]] \in Working => held'[owner'[i]][i] = attempts'[i]
                    /\ pc'[owner'[i]] = "commit" =>
                         i \in todo'[owner'[i]] \/ lock'[i] = owner'[i]
  BY DEF OwnersWork
<1> DEFINE Goal == /\ attempts'[i] > 0
                   /\ owner'[i] \in Worker
                   /\ pc'[owner'[i]] \in Working \cup {"raised", "dead"}
                   /\ pc'[owner'[i]] \in Working => held'[owner'[i]][i] = attempts'[i]
                   /\ pc'[owner'[i]] = "commit" =>
                        i \in todo'[owner'[i]] \/ lock'[i] = owner'[i]
<1> SUFFICES Goal
  OBVIOUS
<1> USE EngineAssumption
<1>a. TypeOK /\ Q!TypeOK /\ Phases
  BY DEF EngineInv, TypeOK
<1>b. status[i] = "CLAIMED" =>
        /\ attempts[i] > 0
        /\ owner[i] \in Worker
        /\ pc[owner[i]] \in Working \cup {"raised", "dead"}
        /\ pc[owner[i]] \in Working => held[owner[i]][i] = attempts[i]
        /\ pc[owner[i]] = "commit" => i \in todo[owner[i]] \/ lock[i] = owner[i]
  BY DEF EngineInv, OwnersWork
<1> USE DEF TypeOK, Q!TypeOK, Working
<1>1. ASSUME NEW w \in Worker, ScanRow(w) PROVE Goal
  <2>1. \A j \in Item : lock[j] # NoWorker => lock'[j] = lock[j]
    BY <1>1, <1>a, ScanLocks DEF ScanRow
  <2> QED
    BY <1>1, <1>a, <1>b, <2>1 DEF ScanRow, Q!ClaimRow, Q!rowVars, wvars
<1>2. ASSUME NEW w \in Worker, ClaimChunk(w) PROVE Goal
  <2>1. CASE lock[i] = w
    BY <1>2, <1>a, <2>1, ClaimEffect DEF ClaimChunk
  <2>2. CASE lock[i] # w
    BY <1>2, <1>a, <1>b, <2>2, ClaimEffect DEF ClaimChunk
  <2> QED
    BY <2>1, <2>2
<1>3. ASSUME NEW w \in Worker, NoChunk(w) PROVE Goal
  BY <1>3, <1>a, <1>b DEF NoChunk, Q!ClaimNothing, Q!qvars
<1>4. ASSUME NEW w \in Worker, Heartbeat(w) \/ HeartbeatFails(w) PROVE Goal
  BY <1>4, <1>a, <1>b DEF Heartbeat, HeartbeatFails, Q!RenewLease, wvars, tableVars
<1>5. ASSUME NEW w \in Worker, ProcessChunk(w) \/ WriteChunk(w) PROVE Goal
  BY <1>5, <1>a, <1>b DEF ProcessChunk, WriteChunk, tableVars, Chunk
<1>6. ASSUME NEW w \in Worker, ProcessChunkRaises(w) \/ WriteFails(w) PROVE Goal
  BY <1>6, <1>a, <1>b
  DEF ProcessChunkRaises, WriteFails, tableVars, Raises, DropChunks
<1>7. ASSUME NEW w \in Worker, CompleteRow(w) PROVE Goal
  BY <1>7, <1>a, <1>b DEF CompleteRow, Q!CompleteRow, Q!rowVars, Q!Matches
<1>8. ASSUME NEW w \in Worker, CompleteChunk(w) PROVE Goal
  <2>1. lock[i] # w
    BY <1>8, CommitEffect DEF CompleteChunk, Q!Verdict
  <2>2. /\ status[i] = "CLAIMED" /\ owner[i] # w /\ owner'[i] = owner[i]
        /\ attempts'[i] = attempts[i] /\ lock'[i] = lock[i]
    BY <1>8, <2>1, CommitEffect DEF CompleteChunk
  <2> QED
    BY <1>8, <1>a, <1>b, <2>2 DEF CompleteChunk, DropChunks
<1>9. ASSUME NEW w \in Worker, DbFails(w) PROVE Goal
  BY <1>9, <1>a, <1>b
  DEF DbFails, Q!Rollback, Q!Release, Q!rowVars, Raises, DropChunks
<1>10. ASSUME NEW w \in Worker, AckLost(w) PROVE Goal
  <2>1. CASE pc[w] = "claim" /\ Q!ClaimCommit(w)
    <3>1. CASE lock[i] = w
      BY <1>10, <1>a, <2>1, <3>1, ClaimEffect DEF AckLost, Raises
    <3>2. CASE lock[i] # w
      BY <1>10, <1>a, <1>b, <2>1, <3>2, ClaimEffect
      DEF AckLost, Raises, DropChunks
    <3> QED
      BY <3>1, <3>2
  <2>2. CASE /\ pc[w] = "commit" /\ todo[w] = {}
             /\ Q!CompleteCommit(w, outcome[w], Name(w))
    <3>1. lock[i] # w
      BY <2>2, CommitEffect DEF Q!Verdict
    <3>2. /\ status[i] = "CLAIMED" /\ owner[i] # w /\ owner'[i] = owner[i]
          /\ attempts'[i] = attempts[i] /\ lock'[i] = lock[i]
      BY <2>2, <3>1, CommitEffect
    <3>3. Raises(w)
      BY <1>10 DEF AckLost
    <3> QED
      BY <1>a, <1>b, <3>2, <3>3 DEF Raises, DropChunks
  <2> QED
    BY <1>10, <2>1, <2>2 DEF AckLost
<1>11. ASSUME NEW r \in Run, Start(r) PROVE Goal
  BY <1>11, <1>a, <1>b DEF Start, tableVars, Phases
<1>12. ASSUME NEW r \in Run, Finish(r) \/ RunFails(r) PROVE Goal
  BY <1>12, <1>b DEF Finish, RunFails, tableVars, wvars
<1>13. ASSUME NEW r \in Run, Crash(r) PROVE Goal
  BY <1>13, <1>a, <1>b DEF Crash, tableVars, DropChunks, WorkersOf
<1>14. ASSUME NEW w \in Worker, ServerRollback(w) PROVE Goal
  BY <1>14, <1>a, <1>b DEF ServerRollback, Q!Rollback, Q!Release, Q!rowVars, wvars
<1>15. CASE Tick
  BY <1>15, <1>b DEF Tick, Q!Tick, wvars
<1>16. CASE UNCHANGED vars
  BY <1>16, <1>b DEF vars, tableVars, wvars
<1>17. CASE Insert
  <2>1. status[i] = "CLAIMED" /\ UNCHANGED <<owner, attempts, lock, pc, held, todo>>
    BY <1>17, InsertEffect
  <2> QED
    BY <1>b, <2>1
<1> QED
  BY <1>1, <1>2, <1>3, <1>4, <1>5, <1>6, <1>7, <1>8, <1>9, <1>10, <1>11,
     <1>12, <1>13, <1>14, <1>15, <1>16, <1>17
  DEF Next, Step, Fault

(* No worker ever holds a later delivery than the owner, nor the same.     *)
LEMMA TokensStep == EngineInv /\ [Next]_vars => TokensFenced'
<1> SUFFICES ASSUME EngineInv, [Next]_vars, NEW i \in Item, NEW v \in Worker
             PROVE  status'[i] = "CLAIMED" =>
                      /\ held'[v][i] <= attempts'[i]
                      /\ held'[v][i] = attempts'[i] => owner'[i] = v
  BY DEF TokensFenced
<1> DEFINE Goal == status'[i] = "CLAIMED" =>
                     /\ held'[v][i] <= attempts'[i]
                     /\ held'[v][i] = attempts'[i] => owner'[i] = v
<1> SUFFICES Goal
  OBVIOUS
<1>a. /\ TypeOK /\ Q!TypeOK
      /\ status[i] = "CLAIMED" => attempts[i] > 0
      /\ status[i] = "PENDING" => held[v][i] = 0
      /\ status[i] = "CLAIMED" => /\ held[v][i] <= attempts[i]
                                  /\ held[v][i] = attempts[i] => owner[i] = v
  BY DEF EngineInv, TypeOK, OwnersWork, FreshRows, TokensFenced
<1> USE DEF TypeOK, Q!TypeOK
<1>b. ASSUME UNCHANGED <<status, owner, attempts>>,
             held'[v][i] \in {0, held[v][i]}
      PROVE  Goal
  BY <1>a, <1>b
<1>c. ASSUME NEW W \in SUBSET Worker, DropChunks(W)
      PROVE  held'[v][i] \in {0, held[v][i]}
  BY <1>a, <1>c DEF DropChunks, NoneHeld
<1>d. ASSUME NEW w \in Worker, pc[w] = "commit", todo[w] = {},
             Q!CompleteCommit(w, outcome[w], Name(w)), DropChunks({w})
      PROVE  Goal
  <2>1. held'[v][i] \in {0, held[v][i]}
    BY <1>c, <1>d
  <2>2. CASE lock[i] = w
    BY <1>d, <2>2, CommitEffect DEF Q!Verdict
  <2>3. CASE lock[i] # w
    <3>1. /\ status'[i] = status[i] /\ owner'[i] = owner[i]
          /\ attempts'[i] = attempts[i]
      BY <1>d, <2>3, CommitEffect
    <3> QED
      BY <1>b, <2>1, <3>1, <1>a
  <2> QED
    BY <2>2, <2>3
<1>1. ASSUME NEW w \in Worker, ClaimChunk(w) PROVE Goal
  <2>1. CASE lock[i] = w
    <3>1. /\ status[i] \in {"PENDING", "CLAIMED"} /\ owner'[i] = w
          /\ attempts'[i] = attempts[i] + 1
          /\ status'[i] = "CLAIMED"
      BY <1>1, <2>1, ClaimEffect DEF ClaimChunk
    <3>2. v # w => held'[v][i] = held[v][i]
      BY <1>1, <1>a DEF ClaimChunk
    <3>3. v = w => held'[v][i] = attempts'[i]
      BY <1>1, <1>a, <2>1 DEF ClaimChunk
    <3> QED
      BY <1>a, <3>1, <3>2, <3>3
  <2>2. CASE lock[i] # w
    BY <1>1, <1>a, <2>2, ClaimEffect DEF ClaimChunk
  <2> QED
    BY <2>1, <2>2
<1>2. ASSUME NEW w \in Worker, CompleteChunk(w) PROVE Goal
  BY <1>2, <1>d DEF CompleteChunk
<1>3. ASSUME NEW w \in Worker, AckLost(w) PROVE Goal
  <2>1. CASE pc[w] = "claim" /\ Q!ClaimCommit(w)
    <3>1. held'[v][i] \in {0, held[v][i]}
      BY <1>3, <1>c DEF AckLost, Raises
    <3>2. CASE lock[i] = w
      BY <1>a, <2>1, <3>1, <3>2, ClaimEffect
    <3>3. CASE lock[i] # w
      BY <1>a, <2>1, <3>1, <3>3, ClaimEffect
    <3> QED
      BY <3>2, <3>3
  <2>2. CASE /\ pc[w] = "commit" /\ todo[w] = {}
             /\ Q!CompleteCommit(w, outcome[w], Name(w))
    BY <1>3, <1>d, <2>2 DEF AckLost, Raises
  <2> QED
    BY <1>3, <2>1, <2>2 DEF AckLost
<1>4. ASSUME NEW w \in Worker,
             ScanRow(w) \/ NoChunk(w) \/ Heartbeat(w) \/ HeartbeatFails(w)
               \/ ProcessChunk(w) \/ WriteChunk(w) \/ CompleteRow(w)
               \/ ServerRollback(w)
      PROVE  Goal
  <2>1. UNCHANGED <<status, owner, attempts, held>>
    BY <1>4 DEF ScanRow, NoChunk, Heartbeat, HeartbeatFails, ProcessChunk,
      WriteChunk, CompleteRow, ServerRollback, Q!ClaimRow, Q!ClaimNothing,
      Q!RenewLease, Q!CompleteRow, Q!Rollback, Q!rowVars, Q!qvars, wvars, tableVars
  <2> QED
    BY <1>b, <2>1
<1>5. ASSUME NEW w \in Worker,
             ProcessChunkRaises(w) \/ WriteFails(w) \/ DbFails(w)
      PROVE  Goal
  <2>1. UNCHANGED <<status, owner, attempts>> /\ DropChunks({w})
    BY <1>5 DEF ProcessChunkRaises, WriteFails, DbFails, Raises, Q!Rollback,
                Q!rowVars, tableVars
  <2> QED
    BY <1>b, <1>c, <2>1
<1>6. ASSUME NEW r \in Run, Start(r) \/ Finish(r) \/ RunFails(r) \/ Crash(r)
      PROVE  Goal
  <2>1. UNCHANGED <<status, owner, attempts>>
    BY <1>6 DEF Start, Finish, RunFails, Crash, tableVars
  <2>2. held' = held \/ DropChunks(WorkersOf(r))
    BY <1>6 DEF Start, Finish, RunFails, Crash, wvars
  <2> QED
    BY <1>b, <1>c, <2>1, <2>2 DEF WorkersOf
<1>7. CASE Tick \/ UNCHANGED vars
  BY <1>7, <1>b DEF Tick, Q!Tick, vars, tableVars, wvars
<1>8. CASE Insert
  <2>1. /\ status'[i] = "CLAIMED" => status[i] = "CLAIMED"
        /\ UNCHANGED <<owner, attempts, held>>
    BY <1>8, InsertEffect
  <2> QED
    BY <1>a, <2>1
<1> QED
  BY <1>1, <1>2, <1>3, <1>4, <1>5, <1>6, <1>7, <1>8 DEF Next, Step, Fault

(* A row nobody has claimed stays untouched.                               *)
LEMMA FreshStep == EngineInv /\ [Next]_vars => FreshRows'
<1> SUFFICES ASSUME EngineInv, [Next]_vars, NEW i \in Item,
                    status'[i] \in {"ABSENT", "PENDING"}
             PROVE  /\ attempts'[i] = 0 /\ ref'[i] = NoRef
                    /\ \A v \in Worker : held'[v][i] = 0
  BY DEF FreshRows
<1> DEFINE Goal == /\ attempts'[i] = 0 /\ ref'[i] = NoRef
                   /\ \A v \in Worker : held'[v][i] = 0
<1> SUFFICES Goal
  OBVIOUS
<1>a. /\ TypeOK /\ Q!TypeOK
      /\ status[i] \in {"ABSENT", "PENDING"} =>
           /\ attempts[i] = 0 /\ ref[i] = NoRef
           /\ \A v \in Worker : held[v][i] = 0
  BY DEF EngineInv, TypeOK, FreshRows
<1>b. ASSUME status[i] \in {"ABSENT", "PENDING"},
             attempts'[i] = attempts[i], ref'[i] = ref[i],
             \A v \in Worker : held'[v][i] \in {0, held[v][i]}
      PROVE  Goal
  BY <1>a, <1>b
<1>c. ASSUME NEW W \in SUBSET Worker, DropChunks(W)
      PROVE  \A v \in Worker : held'[v][i] \in {0, held[v][i]}
  BY <1>a, <1>c DEF DropChunks, NoneHeld
<1>d. ASSUME NEW w \in Worker, pc[w] = "commit", todo[w] = {},
             Q!CompleteCommit(w, outcome[w], Name(w)), DropChunks({w})
      PROVE  Goal
  <2>1. lock[i] # w
    BY <1>d, CommitEffect DEF Q!Verdict
  <2>2. status'[i] = status[i] /\ attempts'[i] = attempts[i] /\ ref'[i] = ref[i]
    BY <1>d, <2>1, CommitEffect
  <2> QED
    BY <1>b, <1>c, <1>d, <2>2
<1>e. ASSUME NEW w \in Worker, pc[w] = "claim", Q!ClaimCommit(w)
      PROVE  /\ status'[i] = status[i] /\ attempts'[i] = attempts[i]
             /\ ref'[i] = ref[i] /\ lock[i] # w
  BY <1>e, ClaimEffect
<1> HIDE DEF Goal
<1>1. ASSUME NEW w \in Worker, ClaimChunk(w) PROVE Goal
  <2>1. /\ status'[i] = status[i] /\ attempts'[i] = attempts[i]
        /\ ref'[i] = ref[i] /\ lock[i] # w
    BY <1>1, <1>e DEF ClaimChunk
  <2>2. \A v \in Worker : held'[v][i] \in {0, held[v][i]}
    BY <1>1, <1>a, <2>1 DEF ClaimChunk, TypeOK
  <2> QED
    BY <1>b, <2>1, <2>2
<1>2. ASSUME NEW w \in Worker, CompleteChunk(w) PROVE Goal
  BY <1>2, <1>d DEF CompleteChunk
<1>3. ASSUME NEW w \in Worker, AckLost(w) PROVE Goal
  <2>1. CASE pc[w] = "claim" /\ Q!ClaimCommit(w)
    BY <1>3, <1>b, <1>c, <1>e, <2>1 DEF AckLost, Raises
  <2>2. CASE /\ pc[w] = "commit" /\ todo[w] = {}
             /\ Q!CompleteCommit(w, outcome[w], Name(w))
    BY <1>3, <1>d, <2>2 DEF AckLost, Raises
  <2> QED
    BY <1>3, <2>1, <2>2 DEF AckLost
<1>4. ASSUME NEW w \in Worker,
             ScanRow(w) \/ NoChunk(w) \/ Heartbeat(w) \/ HeartbeatFails(w)
               \/ ProcessChunk(w) \/ WriteChunk(w) \/ CompleteRow(w)
               \/ ServerRollback(w)
      PROVE  Goal
  <2>1. UNCHANGED <<status, ref, attempts, held>>
    BY <1>4 DEF ScanRow, NoChunk, Heartbeat, HeartbeatFails, ProcessChunk,
      WriteChunk, CompleteRow, ServerRollback, Q!ClaimRow, Q!ClaimNothing,
      Q!RenewLease, Q!CompleteRow, Q!Rollback, Q!rowVars, Q!qvars, wvars, tableVars
  <2> QED
    BY <1>b, <2>1
<1>5. ASSUME NEW w \in Worker,
             ProcessChunkRaises(w) \/ WriteFails(w) \/ DbFails(w)
      PROVE  Goal
  <2>1. UNCHANGED <<status, ref, attempts>> /\ DropChunks({w})
    BY <1>5 DEF ProcessChunkRaises, WriteFails, DbFails, Raises, Q!Rollback,
                Q!rowVars, tableVars
  <2> QED
    BY <1>b, <1>c, <2>1
<1>6. ASSUME NEW r \in Run, Start(r) \/ Finish(r) \/ RunFails(r) \/ Crash(r)
      PROVE  Goal
  <2>1. UNCHANGED <<status, ref, attempts>>
    BY <1>6 DEF Start, Finish, RunFails, Crash, tableVars
  <2>2. held' = held \/ DropChunks(WorkersOf(r))
    BY <1>6 DEF Start, Finish, RunFails, Crash, wvars
  <2> QED
    BY <1>b, <1>c, <2>1, <2>2 DEF WorkersOf
<1>7. CASE Tick \/ UNCHANGED vars
  BY <1>7, <1>b DEF Tick, Q!Tick, vars, tableVars, wvars
<1>8. CASE Insert
  <2>1. /\ status[i] \in {"ABSENT", "PENDING"}
        /\ UNCHANGED <<ref, attempts, held>>
    BY <1>8, InsertEffect
  <2> QED
    BY <1>b, <2>1
<1> QED
  BY <1>1, <1>2, <1>3, <1>4, <1>5, <1>6, <1>7, <1>8 DEF Next, Step, Fault

(* A worker between the flush and the commit has its results stored.       *)
LEMMA ResultsStep == EngineInv /\ [Next]_vars => ResultsKept'
<1> SUFFICES ASSUME EngineInv, [Next]_vars, NEW v \in Worker
             PROVE  /\ \A i \in Item : ~(held'[v][i] > 0) =>
                                      outcome'[v][i] = NoResult
                    /\ pc'[v] \in {"flush", "commit"} =>
                         \A i \in Item : held'[v][i] > 0 =>
                                           outcome'[v][i] \in Q!Result
                    /\ pc'[v] = "commit" =>
                         \E o \in objects' :
                           /\ o.ref = [by |-> v, held |-> held'[v]]
                           /\ o.recs = outcome'[v]
  BY DEF ResultsKept, Chunk, Name
<1> DEFINE Goal == /\ \A i \in Item : ~(held'[v][i] > 0) =>
                                     outcome'[v][i] = NoResult
                   /\ pc'[v] \in {"flush", "commit"} =>
                        \A i \in Item : held'[v][i] > 0 =>
                                          outcome'[v][i] \in Q!Result
                   /\ pc'[v] = "commit" =>
                        \E o \in objects' :
                          /\ o.ref = [by |-> v, held |-> held'[v]]
                          /\ o.recs = outcome'[v]
<1> SUFFICES Goal
  OBVIOUS
<1>a. TypeOK
  BY DEF EngineInv
<1>b. /\ \A i \in Item : ~(held[v][i] > 0) => outcome[v][i] = NoResult
      /\ pc[v] \in {"flush", "commit"} =>
           \A i \in Item : held[v][i] > 0 => outcome[v][i] \in Q!Result
      /\ pc[v] = "commit" =>
           \E o \in objects : /\ o.ref = [by |-> v, held |-> held[v]]
                              /\ o.recs = outcome[v]
  BY DEF EngineInv, ResultsKept, Chunk, Name
<1>c. ASSUME held'[v] = held[v], outcome'[v] = outcome[v], objects \subseteq objects',
             pc'[v] \in {"flush", "commit"} => pc'[v] = pc[v]
      PROVE  Goal
  BY <1>b, <1>c
<1>d. ASSUME pc'[v] \notin {"flush", "commit"},
             \A i \in Item : outcome'[v][i] = NoResult
      PROVE  Goal
  BY <1>d
<1> HIDE DEF Goal
<1>e. ASSUME NEW W \in SUBSET Worker, DropChunks(W), objects' = objects,
             \A u \in Worker : IF u \in W THEN pc'[u] \notin {"flush", "commit"}
                                          ELSE pc'[u] = pc[u]
      PROVE  Goal
  <2>1. CASE v \in W
    BY <1>d, <1>e, <2>1 DEF DropChunks, NoOutcome
  <2>2. CASE v \notin W
    BY <1>c, <1>e, <2>2 DEF DropChunks
  <2> QED
    BY <2>1, <2>2
<1>f. ASSUME NEW w \in Worker, Raises(w), objects' = objects PROVE Goal
  <2>1. \A u \in Worker : IF u \in {w} THEN pc'[u] \notin {"flush", "commit"}
                                        ELSE pc'[u] = pc[u]
    BY <1>a, <1>f DEF Raises, TypeOK
  <2> QED
    BY <1>e, <1>f, <2>1 DEF Raises
<1>1. ASSUME NEW w \in Worker,
             ScanRow(w) \/ NoChunk(w) \/ Heartbeat(w) \/ HeartbeatFails(w)
               \/ CompleteRow(w) \/ ServerRollback(w)
      PROVE  Goal
  BY <1>1, <1>a, <1>c
  DEF ScanRow, NoChunk, Heartbeat, HeartbeatFails, CompleteRow,
      ServerRollback, wvars, TypeOK
<1>2. ASSUME NEW w \in Worker, ClaimChunk(w) PROVE Goal
  <2>1. CASE v = w
    <3>1. \A i \in Item : ~(held[v][i] > 0)
      BY <1>2, <2>1 DEF ClaimChunk, EngineInv, Phases, Working
    <3> QED
      BY <1>2, <1>a, <1>b, <1>d, <2>1, <3>1 DEF ClaimChunk, TypeOK
  <2>2. CASE v # w
    BY <1>2, <1>a, <1>c, <2>2 DEF ClaimChunk, TypeOK
  <2> QED
    BY <2>1, <2>2
<1>3. ASSUME NEW w \in Worker, ProcessChunk(w) PROVE Goal
  <2>1. CASE v = w
    BY <1>3, <1>a, <2>1 DEF ProcessChunk, TypeOK, Chunk, Goal
  <2>2. CASE v # w
    BY <1>3, <1>a, <1>c, <2>2 DEF ProcessChunk, TypeOK
  <2> QED
    BY <2>1, <2>2
<1>4. ASSUME NEW w \in Worker, WriteChunk(w) PROVE Goal
  <2>1. CASE v = w
    <3>1. /\ held' = held /\ outcome' = outcome /\ pc[v] = "flush"
          /\ [ref |-> [by |-> v, held |-> held[v]], recs |-> outcome[v]] \in objects'
      BY <1>4, <2>1 DEF WriteChunk, Name
    <3> QED
      BY <1>b, <3>1 DEF Goal
  <2>2. CASE v # w
    BY <1>4, <1>a, <1>c, <2>2 DEF WriteChunk, TypeOK
  <2> QED
    BY <2>1, <2>2
<1>5. ASSUME NEW w \in Worker,
             ProcessChunkRaises(w) \/ WriteFails(w) \/ DbFails(w) \/ AckLost(w)
      PROVE  Goal
  BY <1>5, <1>f DEF ProcessChunkRaises, WriteFails, DbFails, AckLost
<1>6. ASSUME NEW w \in Worker, CompleteChunk(w) PROVE Goal
  <2>1. \A u \in Worker : IF u \in {w} THEN pc'[u] \notin {"flush", "commit"}
                                        ELSE pc'[u] = pc[u]
    BY <1>6, <1>a DEF CompleteChunk, TypeOK
  <2> QED
    BY <1>e, <1>6, <2>1 DEF CompleteChunk
<1>7. ASSUME NEW r \in Run, Start(r) PROVE Goal
  BY <1>7, <1>a, <1>c DEF Start, TypeOK
<1>8. ASSUME NEW r \in Run, Finish(r) \/ RunFails(r) PROVE Goal
  BY <1>8, <1>c DEF Finish, RunFails, wvars
<1>9. ASSUME NEW r \in Run, Crash(r) PROVE Goal
  <2>1. /\ WorkersOf(r) \in SUBSET Worker
        /\ \A u \in Worker : IF u \in WorkersOf(r)
                             THEN pc'[u] \notin {"flush", "commit"}
                             ELSE pc'[u] = pc[u]
    BY <1>9, <1>a DEF Crash, TypeOK, WorkersOf
  <2> QED
    BY <1>e, <1>9, <2>1 DEF Crash
<1>10. CASE Tick \/ Insert \/ UNCHANGED vars
  BY <1>10, <1>c DEF Tick, Insert, vars, wvars
<1> QED
  BY <1>1, <1>2, <1>3, <1>4, <1>5, <1>6, <1>7, <1>8, <1>9, <1>10
  DEF Next, Step, Fault

(* A row is settled only with a record that is already in storage.         *)
LEMMA StoredStep == EngineInv /\ [Next]_vars => CommittedRowsAreStored'
<1> SUFFICES ASSUME EngineInv, [Next]_vars, NEW i \in Item,
                    status'[i] \in Q!Verdict
             PROVE  \/ ref'[i] = NoRef /\ status'[i] = "FAILED" /\ attempts'[i] = 0
                    \/ \E o \in objects' :
                         /\ o.ref = ref'[i]
                         /\ o.recs[i] = [status |-> status'[i],
                                         attempts |-> attempts'[i]]
  BY DEF CommittedRowsAreStored, Terminal, Recorded, Q!Verdict
<1> DEFINE Goal == \/ ref'[i] = NoRef /\ status'[i] = "FAILED" /\ attempts'[i] = 0
                   \/ \E o \in objects' :
                        /\ o.ref = ref'[i]
                        /\ o.recs[i] = [status |-> status'[i],
                                        attempts |-> attempts'[i]]
<1> SUFFICES Goal
  OBVIOUS
<1>a. /\ Q!TypeOK
      /\ status[i] \in Q!Verdict =>
           \/ ref[i] = NoRef /\ status[i] = "FAILED" /\ attempts[i] = 0
           \/ \E o \in objects :
                /\ o.ref = ref[i]
                /\ o.recs[i] = [status |-> status[i], attempts |-> attempts[i]]
  BY DEF EngineInv, TypeOK, CommittedRowsAreStored, Terminal, Recorded
<1>b. ASSUME status'[i] = status[i], ref'[i] = ref[i], attempts'[i] = attempts[i],
             objects \subseteq objects'
      PROVE  Goal
  BY <1>a, <1>b
<1>c. ASSUME NEW w \in Worker, pc[w] = "claim", Q!ClaimCommit(w), objects' = objects
      PROVE  Goal
  <2>1. lock[i] # w
    BY <1>c, ClaimEffect DEF Q!Verdict
  <2> QED
    BY <1>b, <1>c, <2>1, ClaimEffect
<1>d. ASSUME NEW w \in Worker, pc[w] = "commit", todo[w] = {},
             Q!CompleteCommit(w, outcome[w], Name(w)), objects' = objects
      PROVE  Goal
  <2>1. CASE lock[i] = w
    <3>1. /\ outcome[w][i] \in Q!Result
          /\ status'[i] = outcome[w][i].status
          /\ attempts'[i] = outcome[w][i].attempts
          /\ ref'[i] = Name(w)
      BY <1>d, <2>1, CommitEffect
    <3>2. PICK o \in objects : o.ref = Name(w) /\ o.recs = outcome[w]
      BY <1>d DEF EngineInv, ResultsKept
    <3>3. outcome[w][i] = [status |-> status'[i], attempts |-> attempts'[i]]
      BY <3>1 DEF Q!Result
    <3> QED
      BY <1>d, <3>1, <3>2, <3>3
  <2>2. CASE lock[i] # w
    BY <1>b, <1>d, <2>2, CommitEffect
  <2> QED
    BY <2>1, <2>2
<1> HIDE DEF Goal
<1>1. ASSUME NEW w \in Worker,
             ScanRow(w) \/ NoChunk(w) \/ Heartbeat(w) \/ HeartbeatFails(w)
               \/ ProcessChunk(w) \/ ProcessChunkRaises(w) \/ WriteChunk(w)
               \/ WriteFails(w) \/ CompleteRow(w) \/ DbFails(w)
               \/ ServerRollback(w)
      PROVE  Goal
  <2>1. UNCHANGED <<status, ref, attempts>> /\ objects \subseteq objects'
    BY <1>1
    DEF ScanRow, NoChunk, Heartbeat, HeartbeatFails, ProcessChunk,
        ProcessChunkRaises, WriteChunk, WriteFails, CompleteRow, DbFails,
        ServerRollback, Q!ClaimRow, Q!ClaimNothing, Q!RenewLease, Q!CompleteRow,
        Q!Rollback, Q!rowVars, Q!qvars, tableVars
  <2> QED
    BY <1>b, <2>1
<1>2. ASSUME NEW w \in Worker,
             ClaimChunk(w) \/ CompleteChunk(w) \/ AckLost(w)
      PROVE  Goal
  BY <1>2, <1>c, <1>d DEF ClaimChunk, CompleteChunk, AckLost
<1>3. ASSUME NEW r \in Run, Start(r) \/ Finish(r) \/ RunFails(r) \/ Crash(r)
      PROVE  Goal
  BY <1>3, <1>b DEF Start, Finish, RunFails, Crash, tableVars
<1>4. CASE Tick \/ UNCHANGED vars
  BY <1>4, <1>b DEF Tick, Q!Tick, vars, tableVars
<1>5. CASE Insert
  <2>1. CASE status[i] = "ABSENT"
    BY <1>5, <2>1, InsertEffect DEF EngineInv, FreshRows, Q!Verdict, Goal
  <2>2. CASE status[i] # "ABSENT"
    BY <1>5, <1>b, <2>2, InsertEffect
  <2> QED
    BY <2>1, <2>2
<1> QED
  BY <1>1, <1>2, <1>3, <1>4, <1>5 DEF Next, Step, Fault

----------------------------------------------------------------------------
(* An unprocessed table with every worker idle satisfies every part.       *)
LEMMA InitInv == Init => EngineInv
<1> SUFFICES ASSUME Init PROVE EngineInv
  OBVIOUS
<1> USE EngineAssumption
<1>1. PICK S \in SUBSET Item, F \in SUBSET Item : Q!InitWith(S, F)
  <2>1. PICK F \in SUBSET (Item \ Late) : Q!InitWith((Item \ Late) \ F, F)
    BY DEF Init
  <2> QED
    BY <2>1
<1>2. TypeOK
  BY <1>1 DEF Init, Q!InitWith, TypeOK, Q!TypeOK, Q!Status, Q!Verdict,
    Q!NullLease, NoneHeld, NoOutcome
<1>3. Q!LockedRowsStable
  BY <1>1 DEF Q!InitWith, Q!LockedRowsStable
<1>4. Phases /\ ResultsKept
  BY <1>1 DEF Init, Q!InitWith, Phases, ResultsKept, NoneHeld, NoOutcome
<1>5. OwnersWork /\ FreshRows /\ TokensFenced
  BY <1>1 DEF Init, Q!InitWith, OwnersWork, FreshRows, TokensFenced, NoneHeld
<1>6. CommittedRowsAreStored
  BY <1>1 DEF Q!InitWith, CommittedRowsAreStored, Terminal, Q!Verdict
<1> QED
  BY <1>2, <1>3, <1>4, <1>5, <1>6 DEF EngineInv

(* EngineInv holds in every reachable state of the engine, whatever fails. *)
THEOREM EngineInvariant == Spec => []EngineInv
<1>1. EngineInv /\ [Next]_vars => EngineInv'
  BY TypeStep, LockStep, PhasesStep, OwnersStep, FreshStep, TokensStep,
     ResultsStep, StoredStep
  DEF EngineInv
<1> QED
  BY <1>1, InitInv, PTL DEF Spec

(* The table's columns and the workers' variables keep their types.        *)
THEOREM EngineTypeCorrect == Spec => []TypeOK
<1>1. EngineInv => TypeOK
  BY DEF EngineInv
<1> QED
  BY <1>1, EngineInvariant, PTL

(* A settled row's result is in storage, and says what the row says.       *)
THEOREM ResultsAreStored == Spec => []CommittedRowsAreStored
<1>1. EngineInv => CommittedRowsAreStored
  BY DEF EngineInv
<1> QED
  BY <1>1, EngineInvariant, PTL

(* A worker that claims again, or is done, has no row left behind.         *)
THEOREM IdleOwnsNothing == Spec => []IdleWorkerOwnsNothing
<1>1. EngineInv => IdleWorkerOwnsNothing
  BY DEF EngineInv, OwnersWork, IdleWorkerOwnsNothing, Working
<1> QED
  BY <1>1, EngineInvariant, PTL

(* Only the holder of a row's latest delivery settles it.                  *)
THEOREM StaleDeliveriesFenced == Spec => LatestDeliverySettles
<1> DEFINE Fenced == \A i \in Item :
             status[i] = "CLAIMED" /\ status'[i] \in Q!Verdict =>
               /\ held[owner[i]][i] = attempts[i]
               /\ \A v \in Worker \ {owner[i]} : held[v][i] < attempts[i]
<1>1. EngineInv /\ [Next]_vars => [Fenced]_vars
  <2> SUFFICES ASSUME EngineInv, Next, NEW i \in Item,
                      status[i] = "CLAIMED", status'[i] \in Q!Verdict
               PROVE  /\ held[owner[i]][i] = attempts[i]
                      /\ \A v \in Worker \ {owner[i]} : held[v][i] < attempts[i]
    OBVIOUS
  <2>1. ASSUME NEW w \in Worker, pc[w] = "commit", todo[w] = {},
               Q!CompleteCommit(w, outcome[w], Name(w))
        PROVE  held[owner[i]][i] = attempts[i]
    BY <2>1, CommitEffect DEF Q!Verdict
  <2>2. ASSUME NEW w \in Worker, pc[w] = "claim", Q!ClaimCommit(w) PROVE FALSE
    BY <2>2, ClaimEffect DEF Q!Verdict
  <2>3. ASSUME status'[i] = status[i] \/ Insert PROVE FALSE
    BY <2>3, InsertEffect DEF Q!Verdict
  <2>4. held[owner[i]][i] = attempts[i]
    BY <2>1, <2>2, <2>3
    DEF Next, Step, Fault, ScanRow, ClaimChunk, NoChunk, Heartbeat,
        HeartbeatFails, ProcessChunk, ProcessChunkRaises, WriteChunk, WriteFails,
        CompleteRow, CompleteChunk, DbFails, AckLost, Start, Finish, RunFails,
        Crash, ServerRollback, Tick, Q!ClaimRow, Q!ClaimNothing, Q!RenewLease,
        Q!CompleteRow, Q!Rollback, Q!Tick, Q!rowVars, Q!qvars, tableVars
  <2>5. ASSUME NEW v \in Worker \ {owner[i]} PROVE held[v][i] < attempts[i]
    <3>1. held[v][i] <= attempts[i] /\ held[v][i] # attempts[i]
      BY DEF EngineInv, TokensFenced
    <3>2. held[v][i] \in Nat /\ attempts[i] \in Nat
      BY DEF EngineInv, TypeOK, Q!TypeOK
    <3> QED
      BY <3>1, <3>2
  <2> QED
    BY <2>4, <2>5
<1> QED
  BY <1>1, EngineInvariant, PTL DEF Spec, LatestDeliverySettles

----------------------------------------------------------------------------
(* What can happen to a row.                                               *)
Stays(i) ==
  status'[i] = status[i] /\ attempts'[i] = attempts[i] /\ ref'[i] = ref[i]
IsDelivered(i) ==
  /\ status[i] \in {"PENDING", "CLAIMED"} /\ status'[i] = "CLAIMED"
  /\ attempts'[i] = attempts[i] + 1 /\ ref'[i] = ref[i]
IsSettled(i) ==
  /\ status[i] = "CLAIMED" /\ status'[i] \in Q!Verdict
  /\ Recorded(i)' \in Q!Result /\ ref'[i] \in Ref
Appears(i) ==
  /\ status[i] = "ABSENT" /\ status'[i] \in {"PENDING", "FAILED"}
  /\ attempts'[i] = attempts[i] /\ ref'[i] = ref[i]

(* A step of the engine that is not the ingestor's.                        *)
Work ==
  \/ \E w \in Worker : Step(w) \/ Heartbeat(w) \/ Fault(w) \/ ServerRollback(w)
  \/ \E r \in Run : Start(r) \/ Finish(r) \/ RunFails(r) \/ Crash(r)
  \/ Tick

LEMMA WorkOnRow ==
  ASSUME EngineInv, Work, NEW i \in Item
  PROVE  Stays(i) \/ IsDelivered(i) \/ IsSettled(i)
<1>1. ASSUME NEW w \in Worker, pc[w] = "commit", todo[w] = {},
             Q!CompleteCommit(w, outcome[w], Name(w))
      PROVE  Stays(i) \/ IsSettled(i)
  <2>1. Name(w) \in Ref
    BY DEF EngineInv, TypeOK, Name, Ref
  <2>2. CASE lock[i] = w
    <3>1. Recorded(i)' = outcome[w][i]
      BY <1>1, <2>2, CommitEffect DEF Recorded, Q!Result
    <3> QED
      BY <1>1, <2>1, <2>2, <3>1, CommitEffect DEF IsSettled
  <2>3. CASE lock[i] # w
    BY <1>1, <2>3, CommitEffect DEF Stays
  <2> QED
    BY <2>2, <2>3
<1>2. ASSUME NEW w \in Worker, pc[w] = "claim", Q!ClaimCommit(w)
      PROVE  Stays(i) \/ IsDelivered(i)
  BY <1>2, ClaimEffect DEF Stays, IsDelivered, Q!ClaimCommit
<1>3. ASSUME NEW w \in Worker, Step(w)
      PROVE  Stays(i) \/ IsDelivered(i) \/ IsSettled(i)
  <2>1. CASE ClaimChunk(w)
    BY <2>1, <1>2 DEF ClaimChunk
  <2>2. CASE CompleteChunk(w)
    BY <2>2, <1>1 DEF CompleteChunk
  <2>3. CASE ScanRow(w) \/ NoChunk(w) \/ CompleteRow(w)
    BY <2>3 DEF Stays, ScanRow, NoChunk, CompleteRow, Q!ClaimRow, Q!ClaimNothing,
      Q!CompleteRow, Q!rowVars, Q!qvars
  <2>4. CASE ProcessChunk(w) \/ ProcessChunkRaises(w) \/ WriteChunk(w)
    BY <2>4 DEF Stays, ProcessChunk, ProcessChunkRaises, WriteChunk, tableVars
  <2> QED
    BY <1>3, <2>1, <2>2, <2>3, <2>4 DEF Step
<1>4. ASSUME NEW w \in Worker, Fault(w)
      PROVE  Stays(i) \/ IsDelivered(i) \/ IsSettled(i)
  <2>1. CASE AckLost(w)
    BY <2>1, <1>1, <1>2 DEF AckLost
  <2>2. CASE HeartbeatFails(w) \/ WriteFails(w) \/ DbFails(w)
    BY <2>2 DEF Stays, HeartbeatFails, WriteFails, DbFails, Q!Rollback, Q!rowVars,
      tableVars
  <2> QED
    BY <1>4, <2>1, <2>2 DEF Fault
<1>5. ASSUME NEW w \in Worker, Heartbeat(w) \/ ServerRollback(w) PROVE Stays(i)
  BY <1>5 DEF Stays, Heartbeat, ServerRollback, Q!RenewLease, Q!Rollback, Q!rowVars
<1>6. ASSUME NEW r \in Run, Start(r) \/ Finish(r) \/ RunFails(r) \/ Crash(r)
      PROVE  Stays(i)
  BY <1>6 DEF Stays, Start, Finish, RunFails, Crash, tableVars
<1>7. CASE Tick
  BY <1>7 DEF Stays, Tick, Q!Tick
<1> QED
  BY <1>3, <1>4, <1>5, <1>6, <1>7 DEF Work

LEMMA RowMoves ==
  ASSUME EngineInv, [Next]_vars, NEW i \in Item
  PROVE  Stays(i) \/ IsDelivered(i) \/ IsSettled(i) \/ Appears(i)
<1>1. CASE Work
  BY <1>1, WorkOnRow
<1>2. CASE Insert
  BY <1>2, InsertEffect DEF Stays, Appears
<1>3. CASE UNCHANGED vars
  BY <1>3 DEF vars, tableVars, Stays
<1> QED
  BY <1>1, <1>2, <1>3 DEF Next, Work

(* A row of the table is never deleted, and a settled one keeps its        *)
(* verdict.                                                                *)
LEMMA RowsStay ==
  ASSUME EngineInv, [Next]_vars, NEW i \in Item
  PROVE  /\ status[i] # "ABSENT" => status'[i] # "ABSENT"
         /\ status[i] \in Q!Verdict =>
              status'[i] = status[i] /\ attempts'[i] = attempts[i] /\ ref'[i] = ref[i]
<1>1. Stays(i) \/ IsDelivered(i) \/ IsSettled(i) \/ Appears(i)
  BY RowMoves
<1> QED
  BY <1>1 DEF Stays, IsDelivered, IsSettled, Appears, Q!Verdict

----------------------------------------------------------------------------
(* A settled row was rejected at ingestion, or shows a result of           *)
(* _process_row: the deliveries that its attempts once counted are gone.   *)
SettledByResult ==
  \A i \in Item : Terminal(i) /\ ref[i] # NoRef => Recorded(i) \in Q!Result

THEOREM SettledRowsShowResults == Spec => []SettledByResult
<1>1. Init => SettledByResult
  BY DEF Init, Q!InitWith, SettledByResult
<1>2. EngineInv /\ SettledByResult /\ [Next]_vars => SettledByResult'
  <2> SUFFICES ASSUME EngineInv, SettledByResult, [Next]_vars,
                      NEW i \in Item, Terminal(i)', ref'[i] # NoRef
               PROVE  Recorded(i)' \in Q!Result
    BY DEF SettledByResult
  <2>1. CASE Stays(i)
    BY <2>1 DEF Stays, SettledByResult, Terminal, Recorded
  <2>2. CASE IsSettled(i)
    BY <2>2 DEF IsSettled
  <2>3. CASE IsDelivered(i)
    BY <2>3 DEF IsDelivered, Terminal, Q!Verdict
  <2>4. CASE Appears(i)
    BY <2>4 DEF Appears, EngineInv, FreshRows
  <2> QED
    BY <2>1, <2>2, <2>3, <2>4, RowMoves
<1> QED
  BY <1>1, <1>2, EngineInvariant, PTL DEF Spec

----------------------------------------------------------------------------
(* What the workers know about a row of the table stays true.              *)
LEMMA FoundStep ==
  ASSUME EngineInv, [Next]_vars, NEW i \in Item, status[i] # "ABSENT", FoundNothing(i)
  PROVE  FoundNothing(i)'
<1> USE EngineAssumption
<1>a. TypeOK /\ Q!TypeOK /\ Phases
  BY DEF EngineInv, TypeOK
<1>p. status'[i] = "PENDING" => status[i] = "PENDING"
  BY RowMoves DEF Stays, IsDelivered, IsSettled, Appears, Q!Verdict
<1> USE DEF TypeOK, Q!TypeOK, FoundNothing
<1>b. ASSUME UNCHANGED lock,
             \A w \in Worker : pc[w] \in {"raised", "dead"} => pc'[w] = pc[w],
             \A w \in Worker : pc'[w] = "done" => pc[w] = "done"
      PROVE  FoundNothing(i)'
  BY <1>b, <1>p
<1>c. ASSUME \E v \in Worker : pc'[v] \in {"raised", "dead"}
      PROVE  FoundNothing(i)'
  BY <1>c
<1>d. ASSUME NEW w \in Worker, Raises(w) PROVE FoundNothing(i)'
  BY <1>a, <1>c, <1>d DEF Raises
<1>e. ASSUME NEW w \in Worker, pc[w] \notin {"raised", "dead", "done"},
             \E p \in {"claim", "process"} : pc' = [pc EXCEPT ![w] = p],
             status'[i] = "PENDING" => lock'[i] = lock[i]
      PROVE  FoundNothing(i)'
  BY <1>a, <1>e, <1>p
<1>1. ASSUME NEW w \in Worker, ScanRow(w) PROVE FoundNothing(i)'
  <2>1. lock[i] # NoWorker => lock'[i] # NoWorker
    <3>1. PICK j \in Item : lock[j] = NoWorker /\ lock' = [lock EXCEPT ![j] = w]
      BY <1>1, ScanLocks DEF ScanRow
    <3> QED
      BY <1>a, <3>1
  <2>2. UNCHANGED pc
    BY <1>1 DEF ScanRow, wvars
  <2> HIDE DEF TypeOK, Q!TypeOK
  <2> QED
    BY <2>1, <2>2, <1>p
<1>2. ASSUME NEW w \in Worker, NoChunk(w) PROVE FoundNothing(i)'
  <2>1. status[i] = "PENDING" => lock[i] # NoWorker
    BY <1>2 DEF NoChunk, Q!ClaimNothing, Q!Unlocked, Q!Claimable
  <2>2. UNCHANGED <<status, lock>>
    BY <1>2 DEF NoChunk, Q!ClaimNothing, Q!qvars
  <2> QED
    BY <2>1, <2>2
<1>3. ASSUME NEW w \in Worker, Heartbeat(w) \/ HeartbeatFails(w)
      PROVE  FoundNothing(i)'
  BY <1>3, <1>b DEF Heartbeat, HeartbeatFails, Q!RenewLease, wvars, tableVars
<1>4. ASSUME NEW w \in Worker, ProcessChunk(w) \/ WriteChunk(w)
      PROVE  FoundNothing(i)'
  BY <1>4, <1>a, <1>b DEF ProcessChunk, WriteChunk, tableVars
<1>5. ASSUME NEW w \in Worker,
             ProcessChunkRaises(w) \/ WriteFails(w) \/ DbFails(w) \/ AckLost(w)
      PROVE  FoundNothing(i)'
  BY <1>5, <1>d DEF ProcessChunkRaises, WriteFails, DbFails, AckLost
<1>6. ASSUME NEW w \in Worker, CompleteRow(w) PROVE FoundNothing(i)'
  <2>1. status[i] = "PENDING" => lock'[i] = lock[i]
    BY <1>6, <1>a DEF CompleteRow, Q!CompleteRow, Q!Matches
  <2>2. UNCHANGED pc
    BY <1>6 DEF CompleteRow
  <2> QED
    BY <2>1, <2>2, <1>p
<1>7. ASSUME NEW w \in Worker, ClaimChunk(w) PROVE FoundNothing(i)'
  <2>1. status'[i] = "PENDING" => lock'[i] = lock[i]
    BY <1>7, ClaimEffect DEF ClaimChunk
  <2> QED
    BY <1>7, <1>e, <2>1 DEF ClaimChunk
<1>8. ASSUME NEW w \in Worker, CompleteChunk(w) PROVE FoundNothing(i)'
  <2>1. status'[i] = "PENDING" => lock'[i] = lock[i]
    BY <1>8, CommitEffect DEF CompleteChunk, Q!Verdict
  <2> QED
    BY <1>8, <1>e, <2>1 DEF CompleteChunk
<1>9. ASSUME NEW r \in Run, Start(r) PROVE FoundNothing(i)'
  <2>1. \A w \in Worker : /\ pc'[w] = "done" => pc[w] = "done"
                          /\ pc[w] # "off" => pc'[w] = pc[w]
    BY <1>9, <1>a DEF Start, Phases
  <2>2. UNCHANGED <<status, lock>>
    BY <1>9 DEF Start, tableVars
  <2> QED
    BY <2>1, <2>2
<1>10. ASSUME NEW r \in Run, Finish(r) \/ RunFails(r) PROVE FoundNothing(i)'
  BY <1>10, <1>b DEF Finish, RunFails, tableVars, wvars
<1>11. ASSUME NEW r \in Run, Crash(r) PROVE FoundNothing(i)'
  <2>1. \E v \in Worker : pc'[v] = "dead"
    BY <1>11, PoolAssumption DEF Crash
  <2> QED
    BY <2>1, <1>c
<1>12. ASSUME NEW w \in Worker, ServerRollback(w) PROVE FoundNothing(i)'
  <2>1. pc'[w] = "dead"
    BY <1>12 DEF ServerRollback, wvars
  <2> QED
    BY <2>1, <1>c
<1>13. CASE Tick \/ UNCHANGED vars
  BY <1>13, <1>b DEF Tick, Q!Tick, vars, tableVars, wvars
<1>14. CASE Insert
  <2>1. UNCHANGED <<lock, pc>>
    BY <1>14 DEF Insert, Q!BulkInsert, wvars
  <2> QED
    BY <2>1, <1>p
<1> QED
  BY <1>1, <1>2, <1>3, <1>4, <1>5, <1>6, <1>7, <1>8, <1>9, <1>10, <1>11,
     <1>12, <1>13, <1>14
  DEF Next, Step, Fault

(* The workers of a run that has completed stay where they are.            *)
LEMMA CompletedStep ==
  ASSUME EngineInv, [Next]_vars, CompletedRunsDone
  PROVE  CompletedRunsDone'
<1> USE DEF CompletedRunsDone, WorkersOf
<1>a. TypeOK
  BY DEF EngineInv
<1> USE DEF TypeOK
<1>b. ASSUME UNCHANGED run, \A w \in Worker : pc[w] = "done" => pc'[w] = "done"
      PROVE  CompletedRunsDone'
  BY <1>b
<1>1. ASSUME NEW w \in Worker, Step(w) \/ Fault(w) PROVE CompletedRunsDone'
  BY <1>1, <1>a, <1>b
  DEF Step, Fault, ScanRow, ClaimChunk, NoChunk, ProcessChunk, ProcessChunkRaises,
      WriteChunk, CompleteRow, CompleteChunk, HeartbeatFails, WriteFails, DbFails,
      AckLost, Raises, wvars
<1>2. ASSUME NEW w \in Worker, Heartbeat(w) \/ ServerRollback(w)
      PROVE  CompletedRunsDone'
  BY <1>2, <1>b DEF Heartbeat, ServerRollback, wvars
<1>3. ASSUME NEW r \in Run, Start(r) \/ Finish(r) \/ RunFails(r) \/ Crash(r)
      PROVE  CompletedRunsDone'
  BY <1>3, <1>a, EngineAssumption DEF Start, Finish, RunFails, Crash, wvars
<1>4. CASE Tick \/ Insert \/ UNCHANGED vars
  BY <1>4, <1>b DEF Tick, Insert, vars, wvars
<1> QED
  BY <1>1, <1>2, <1>3, <1>4 DEF Next

LEMMA DrainStep == EngineInv /\ DrainInv /\ [Next]_vars => DrainInv'
  BY FoundStep, CompletedStep, RowsStay DEF DrainInv

(* When the workers of a lone run are done, a row of which they know what  *)
(* they know is settled.                                                   *)
LEMMA LoneRunSettles ==
  ASSUME EngineInv, NEW r \in Run, \A w \in WorkersOf(r) : pc[w] = "done", LoneRun(r),
         NEW i \in Item, status[i] # "ABSENT", FoundNothing(i)
  PROVE  Terminal(i)
<1>1. \A w \in Worker : pc[w] = IF RunOf[w] = r THEN "done" ELSE "off"
  BY EngineAssumption DEF LoneRun, WorkersOf, EngineInv, Phases
<1>2. \A w \in Worker : pc[w] \in {"done", "off"}
  BY <1>1
<1>3. PICK w \in Worker : RunOf[w] = r /\ pc[w] = "done"
  BY <1>1, PoolAssumption
<1>4. status[i] # "CLAIMED"
  BY <1>2 DEF EngineInv, OwnersWork, Working
<1>5. lock[i] = NoWorker
  <2>1. lock[i] \in Worker \cup {NoWorker}
    BY DEF EngineInv, TypeOK, Q!TypeOK
  <2>2. \A v \in Worker : txn[v] \notin {"claim", "complete"}
    BY <1>2 DEF EngineInv, Phases
  <2>3. \A v \in Worker : lock[i] = v => txn[v] \in {"claim", "complete"}
    BY DEF EngineInv, Q!LockedRowsStable
  <2> QED
    BY <2>1, <2>2, <2>3
<1>6. status[i] # "PENDING"
  BY <1>2, <1>3, <1>5 DEF FoundNothing
<1> QED
  BY <1>4, <1>6 DEF EngineInv, TypeOK, Q!TypeOK, Q!Status, Terminal

(* Without another run, and whatever a run's own workers do to each other, *)
(* "completed" means that no row that was there at the start is left.      *)
THEOREM LoneRunsDrain == Spec => []LoneRunDrains
<1>1. Init => DrainInv
  BY EngineAssumption
  DEF Init, DrainInv, FoundNothing, CompletedRunsDone, Q!InitWith, WorkersOf
<1>2. EngineInv /\ DrainInv => LoneRunDrains
  BY LoneRunSettles DEF DrainInv, CompletedRunsDone, LoneRunDrains
<1> QED
  BY <1>1, <1>2, DrainStep, EngineInvariant, PTL DEF Spec

----------------------------------------------------------------------------
(* Result files: a name is never written twice.                            *)
FreshNames ==
  \A w \in Worker : pc[w] \in {"process", "flush"} => \A o \in objects : o.ref # Name(w)

NamesUnique == \A o1, o2 \in objects : o1.ref = o2.ref => o1 = o2

(* A claim that is not committed has a row; and no file was written for a  *)
(* delivery that the table does not know of.                               *)
ClaimsLock == \A w \in Worker : txn[w] = "claim" => \E i \in Item : lock[i] = w

FilesKnown ==
  \A o \in objects, i \in Item :
    status[i] \notin Q!Verdict => o.ref.held[i] <= attempts[i]

NamesInv == ClaimsLock /\ FilesKnown /\ FreshNames /\ NamesUnique

LEMMA ClaimsLockStep ==
  ASSUME EngineInv, [Next]_vars, ClaimsLock
  PROVE  ClaimsLock'
<1>a. Q!TypeOK
  BY DEF EngineInv, TypeOK
<1> USE EngineAssumption DEF ClaimsLock, Q!TypeOK
<1>b. ASSUME NEW w \in Worker, Q!Release(w) PROVE ClaimsLock'
  BY <1>a, <1>b DEF Q!Release
<1>1. ASSUME NEW w \in Worker, ScanRow(w) PROVE ClaimsLock'
  <2>1. PICK i \in Item : lock[i] = NoWorker /\ lock' = [lock EXCEPT ![i] = w]
    BY <1>1, ScanLocks DEF ScanRow
  <2>2. txn' = [txn EXCEPT ![w] = "claim"]
    BY <1>1 DEF ScanRow, Q!ClaimRow
  <2> QED
    BY <1>a, <2>1, <2>2
<1>2. ASSUME NEW w \in Worker, CompleteRow(w) PROVE ClaimsLock'
  <2>1. PICK i \in Item : Q!CompleteRow(w, i)
    BY <1>2 DEF CompleteRow, EngineInv, TypeOK
  <2> QED
    BY <1>a, <2>1 DEF Q!CompleteRow
<1>3. ASSUME NEW w \in Worker,
             ClaimChunk(w) \/ CompleteChunk(w) \/ DbFails(w) \/ AckLost(w)
               \/ ServerRollback(w)
      PROVE  ClaimsLock'
  BY <1>3, <1>b DEF ClaimChunk, CompleteChunk, DbFails, AckLost, ServerRollback,
    Q!ClaimCommit, Q!CompleteCommit, Q!Rollback
<1>4. CASE UNCHANGED <<lock, txn>>
  BY <1>4
<1>5. ASSUME NEW w \in Worker,
             NoChunk(w) \/ ProcessChunk(w) \/ ProcessChunkRaises(w) \/ WriteChunk(w)
               \/ Heartbeat(w) \/ HeartbeatFails(w) \/ WriteFails(w)
      PROVE  UNCHANGED <<lock, txn>>
  BY <1>5 DEF NoChunk, ProcessChunk, ProcessChunkRaises, WriteChunk, Heartbeat,
    HeartbeatFails, WriteFails, Q!ClaimNothing, Q!RenewLease, Q!qvars, tableVars
<1>6. ASSUME NEW r \in Run, Start(r) \/ Finish(r) \/ RunFails(r) \/ Crash(r)
      PROVE  UNCHANGED <<lock, txn>>
  BY <1>6 DEF Start, Finish, RunFails, Crash, tableVars
<1>7. CASE Tick \/ Insert \/ UNCHANGED vars
  BY <1>7, <1>4 DEF Tick, Q!Tick, Insert, Q!BulkInsert, vars, tableVars
<1> QED
  BY <1>1, <1>2, <1>3, <1>4, <1>5, <1>6, <1>7 DEF Next, Step, Fault

(* Only a flush adds a file, and it names the worker's claim.              *)
LEMMA FilesGrow ==
  ASSUME EngineInv, [Next]_vars
  PROVE  \/ objects' = objects
         \/ \E w \in Worker :
              /\ pc[w] = "flush" /\ pc'[w] = "commit"
              /\ objects' = objects \cup {[ref |-> Name(w), recs |-> outcome[w]]}
              /\ \A v \in Worker \ {w} : pc'[v] = pc[v]
              /\ UNCHANGED <<held, status, attempts>>
<1>1. ASSUME NEW w \in Worker, WriteChunk(w)
      PROVE  /\ pc[w] = "flush" /\ pc'[w] = "commit"
             /\ objects' = objects \cup {[ref |-> Name(w), recs |-> outcome[w]]}
             /\ \A v \in Worker \ {w} : pc'[v] = pc[v]
             /\ UNCHANGED <<held, status, attempts>>
  BY <1>1 DEF WriteChunk, EngineInv, TypeOK, tableVars
<1>2. ASSUME NEW w \in Worker, ~WriteChunk(w),
             Step(w) \/ Fault(w) \/ Heartbeat(w) \/ ServerRollback(w)
      PROVE  objects' = objects
  BY <1>2
  DEF Step, Fault, ScanRow, ClaimChunk, NoChunk, ProcessChunk, ProcessChunkRaises,
      CompleteRow, CompleteChunk, HeartbeatFails, WriteFails, DbFails, AckLost,
      Heartbeat, ServerRollback
<1>3. ASSUME NEW r \in Run, Start(r) \/ Finish(r) \/ RunFails(r) \/ Crash(r)
      PROVE  objects' = objects
  BY <1>3 DEF Start, Finish, RunFails, Crash
<1>4. CASE Tick \/ Insert \/ UNCHANGED vars
  BY <1>4 DEF Tick, Insert, vars
<1> QED
  BY <1>1, <1>2, <1>3, <1>4 DEF Next

(* A worker gets to the rows of a chunk, and to its results, by a claim of *)
(* rows that were not settled: all of them at their next delivery.         *)
LEMMA ChunkIsNew ==
  ASSUME EngineInv, ClaimsLock, [Next]_vars, NEW w \in Worker,
         pc'[w] \in {"process", "flush"}
  PROVE  \/ pc[w] \in {"process", "flush"} /\ Name(w)' = Name(w)
         \/ \E i \in Item : /\ status[i] \notin Q!Verdict
                            /\ held'[w][i] = attempts[i] + 1
<1>a. TypeOK /\ Q!TypeOK
  BY DEF EngineInv, TypeOK
<1> USE DEF TypeOK
<1>1. CASE ClaimChunk(w)
  <2>1. PICK i \in Item : lock[i] = w
    BY <1>1 DEF ClaimChunk, Q!ClaimCommit, ClaimsLock
  <2>2. status[i] \in {"PENDING", "CLAIMED"} /\ attempts'[i] = attempts[i] + 1
    BY <1>1, <2>1, ClaimEffect DEF ClaimChunk
  <2>3. held'[w][i] = attempts'[i]
    BY <1>a, <1>1, <2>1 DEF ClaimChunk
  <2> QED
    BY <2>2, <2>3 DEF Q!Verdict
<1>2. CASE UNCHANGED pc /\ UNCHANGED held
  BY <1>2 DEF Name
<1>3. ASSUME NEW v \in Worker, Step(v), ~(ClaimChunk(v) /\ v = w)
      PROVE  pc[w] \in {"process", "flush"} /\ held'[w] = held[w]
  BY <1>a, <1>3
  DEF Step, ScanRow, ClaimChunk, NoChunk, ProcessChunk, ProcessChunkRaises,
      WriteChunk, CompleteRow, CompleteChunk, Raises, DropChunks, wvars
<1>4. ASSUME NEW v \in Worker, Fault(v)
      PROVE  pc[w] \in {"process", "flush"} /\ held'[w] = held[w]
  BY <1>a, <1>4
  DEF Fault, HeartbeatFails, WriteFails, DbFails, AckLost, Raises, DropChunks
<1>5. ASSUME NEW v \in Worker, Heartbeat(v) \/ ServerRollback(v)
      PROVE  UNCHANGED pc /\ UNCHANGED held
  BY <1>5 DEF Heartbeat, ServerRollback, wvars
<1>6. ASSUME NEW r \in Run, Start(r) \/ Finish(r) \/ RunFails(r) \/ Crash(r)
      PROVE  pc[w] \in {"process", "flush"} /\ held'[w] = held[w]
  BY <1>a, <1>6 DEF Start, Finish, RunFails, Crash, DropChunks, WorkersOf, wvars
<1>7. CASE Tick \/ Insert \/ UNCHANGED vars
  BY <1>7, <1>2 DEF Tick, Insert, vars, wvars
<1> QED
  BY <1>1, <1>2, <1>3, <1>4, <1>5, <1>6, <1>7 DEF Next, Name

LEMMA NamesStep == EngineInv /\ NamesInv /\ [Next]_vars => NamesInv'
<1> SUFFICES ASSUME EngineInv, NamesInv, [Next]_vars PROVE NamesInv'
  OBVIOUS
<1>a. /\ attempts \in [Item -> Nat]
      /\ held \in [Worker -> [Item -> Nat]]
      /\ \A o \in objects : o.ref.held \in [Item -> Nat]
  BY DEF EngineInv, TypeOK, Q!TypeOK, Ref
<1>1. ClaimsLock'
  BY ClaimsLockStep DEF NamesInv
<1>2. \A i \in Item : status'[i] \notin Q!Verdict =>
        status[i] \notin Q!Verdict /\ attempts'[i] \in {attempts[i], attempts[i] + 1}
  BY RowMoves DEF Stays, IsDelivered, IsSettled, Appears, Q!Verdict
<1>3. \A w \in Worker, i \in Item :
        status[i] \notin Q!Verdict => held[w][i] <= attempts[i]
  <2> SUFFICES ASSUME NEW w \in Worker, NEW i \in Item, status[i] \notin Q!Verdict
               PROVE  held[w][i] <= attempts[i]
    OBVIOUS
  <2>1. status[i] \in {"ABSENT", "PENDING", "CLAIMED"}
    BY DEF EngineInv, TypeOK, Q!TypeOK, Q!Status
  <2>2. status[i] \in {"ABSENT", "PENDING"} => held[w][i] = 0 /\ attempts[i] = 0
    BY DEF EngineInv, FreshRows
  <2>3. status[i] = "CLAIMED" => held[w][i] <= attempts[i]
    BY DEF EngineInv, TokensFenced
  <2> QED
    BY <2>1, <2>2, <2>3
<1>4. FilesKnown'
  <2>1. \A o \in objects, i \in Item :
          status'[i] \notin Q!Verdict => o.ref.held[i] <= attempts'[i]
    BY <1>a, <1>2 DEF NamesInv, FilesKnown
  <2>2. ASSUME NEW w \in Worker, NEW i \in Item, status'[i] \notin Q!Verdict
        PROVE  Name(w).held[i] <= attempts'[i]
    BY <1>a, <1>2, <1>3, <2>2 DEF Name
  <2> QED
    BY <2>1, <2>2, FilesGrow DEF FilesKnown
<1>5. ASSUME NEW w \in Worker, pc'[w] \in {"process", "flush"}
      PROVE  \A o \in objects : o.ref # Name(w)'
  <2>1. CASE pc[w] \in {"process", "flush"} /\ Name(w)' = Name(w)
    BY <2>1 DEF NamesInv, FreshNames
  <2>2. CASE \E i \in Item : /\ status[i] \notin Q!Verdict
                             /\ held'[w][i] = attempts[i] + 1
    <3>1. PICK i \in Item : /\ status[i] \notin Q!Verdict
                            /\ held'[w][i] = attempts[i] + 1
      BY <2>2
    <3>2. \A o \in objects : o.ref.held[i] <= attempts[i] /\ o.ref.held[i] \in Nat
      BY <1>a, <3>1 DEF NamesInv, FilesKnown
    <3>3. Name(w)'.held[i] = attempts[i] + 1
      BY <3>1 DEF Name
    <3> QED
      BY <1>a, <3>2, <3>3
  <2> QED
    BY <1>5, <2>1, <2>2, ChunkIsNew DEF NamesInv
<1>6. FreshNames' /\ NamesUnique'
  <2>1. CASE objects' = objects
    BY <1>5, <2>1 DEF NamesInv, FreshNames, NamesUnique
  <2>2. ASSUME NEW v \in Worker,
               pc[v] = "flush", pc'[v] = "commit",
               objects' = objects \cup {[ref |-> Name(v), recs |-> outcome[v]]},
               UNCHANGED held
        PROVE  FreshNames' /\ NamesUnique'
    <3>1. \A o \in objects : o.ref # Name(v)
      BY <2>2 DEF NamesInv, FreshNames
    <3>2. NamesUnique'
      BY <2>2, <3>1 DEF NamesInv, NamesUnique
    <3>3. \A w \in Worker : pc'[w] \in {"process", "flush"} => w # v /\ Name(w)' # Name(v)
      BY <2>2 DEF Name
    <3> QED
      BY <1>5, <2>2, <3>2, <3>3 DEF FreshNames
  <2> QED
    BY <2>1, <2>2, FilesGrow
<1> QED
  BY <1>1, <1>4, <1>6 DEF NamesInv

LEMMA NamesInvariant == Spec => []NamesInv
<1>1. Init => NamesInv
  BY DEF Init, Q!InitWith, NamesInv, ClaimsLock, FilesKnown, FreshNames, NamesUnique
<1> QED
  BY <1>1, NamesStep, EngineInvariant, PTL DEF Spec

(* No two files of a job have the same name, and a worker about to write   *)
(* one does not find its name taken, however often rows are delivered      *)
(* again: a result_ref means one file.                                     *)
THEOREM NamesNeverReused == Spec => [](NamesUnique /\ FreshNames)
<1>1. NamesInv => NamesUnique /\ FreshNames
  BY DEF NamesInv
<1> QED
  BY <1>1, NamesInvariant, PTL
=============================================================================
