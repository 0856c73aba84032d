--------------------------- MODULE WorkQueueProofs ---------------------------
(***************************************************************************)
(* What the table promises to every client, for any set of rows and        *)
(* workers and any chunk size, lease and bound: WorkQueue's properties     *)
(* from one inductive invariant, TypeOK /\ LockedRowsStable.               *)
(***************************************************************************)
EXTENDS WorkQueue, TLAPS

USE QueueAssumption

(* Every operation of the repository keeps the columns in their types.     *)
LEMMA TypeStep == TypeOK /\ [Next]_qvars => TypeOK'
<1> SUFFICES ASSUME TypeOK, [Next]_qvars PROVE TypeOK'
  OBVIOUS
<1> USE DEF TypeOK, Status, Verdict, Expired, NullLease
<1>1. CASE Insert
  BY <1>1 DEF Insert, BulkInsert
<1>2. ASSUME NEW w \in Worker, ClaimRow(w) PROVE TypeOK'
  BY <1>2 DEF ClaimRow, rowVars, Ahead, Unlocked
<1>3. ASSUME NEW w \in Worker, ClaimNothing(w) PROVE TypeOK'
  BY <1>3 DEF ClaimNothing, qvars
<1>4. ASSUME NEW w \in Worker, ClaimCommit(w) PROVE TypeOK'
  BY <1>4 DEF ClaimCommit, Release, NewLease
<1>5. ASSUME NEW w \in Worker, NEW i \in Item, CompleteRow(w, i) PROVE TypeOK'
  BY <1>5 DEF CompleteRow, rowVars
<1>6. ASSUME NEW w \in Worker, NEW res \in [Item -> Result], NEW r \in Ref,
             CompleteCommit(w, res, r)
      PROVE  TypeOK'
  <2>1. \A i \in Item : res[i].status \in Verdict /\ res[i].attempts \in Nat
    BY DEF Result
  <2> QED
    BY <1>6, <2>1 DEF CompleteCommit, Release
<1>7. ASSUME NEW w \in Worker, Rollback(w) PROVE TypeOK'
  BY <1>7 DEF Rollback, Release, rowVars
<1>8. ASSUME NEW w \in Worker, RenewLease(w) PROVE TypeOK'
  BY <1>8 DEF RenewLease, NewLease
<1>9. CASE Tick
  BY <1>9 DEF Tick, Ages
<1>10. CASE UNCHANGED qvars
  BY <1>10 DEF qvars
<1> QED
  BY <1>1, <1>2, <1>3, <1>4, <1>5, <1>6, <1>7, <1>8, <1>9, <1>10
  DEF Next, Claim, Complete

(* No operation takes a locked row away from the transaction holding it.   *)
LEMMA LockStep ==
  TypeOK /\ LockedRowsStable /\ [Next]_qvars => LockedRowsStable'
<1> SUFFICES ASSUME TypeOK, LockedRowsStable, [Next]_qvars
             PROVE  LockedRowsStable'
  OBVIOUS
<1> USE DEF TypeOK, LockedRowsStable, Claimable, Expired, NullLease
<1>1. CASE Insert
  BY <1>1 DEF Insert, BulkInsert
<1>2. ASSUME NEW w \in Worker, ClaimRow(w) PROVE LockedRowsStable'
  <2>1. PICK i \in Item : Claimable(i) /\ lock' = [lock EXCEPT ![i] = w]
    BY <1>2 DEF ClaimRow, Ahead, Unlocked
  <2>2. txn' = [txn EXCEPT ![w] = "claim"] /\ txn[w] # "complete" /\ UNCHANGED rowVars
    BY <1>2 DEF ClaimRow
  <2>3. \A j \in Item, v \in Worker :
          lock[j] = v /\ txn[v] = "claim" => Claimable(j)
    OBVIOUS
  <2>4. \A j \in Item, v \in Worker : lock[j] = v /\ txn[v] # "claim"
          => txn[v] = "complete" /\ status[j] = "CLAIMED" /\ owner[j] = v
    OBVIOUS
  <2>5. \A j \in Item : Claimable(j)' <=> Claimable(j)
    BY <2>2 DEF rowVars
  <2>6. ASSUME NEW j \in Item, NEW v \in Worker, lock'[j] = v
        PROVE  \/ txn'[v] = "claim" /\ Claimable(j)'
               \/ txn'[v] = "complete" /\ status'[j] = "CLAIMED" /\ owner'[j] = v
    <3> HIDE DEF Claimable
    <3>1. CASE v = w
      BY <2>1, <2>2, <2>3, <2>4, <2>5, <2>6, <3>1
    <3>2. CASE v # w
      BY <2>1, <2>2, <2>3, <2>4, <2>5, <2>6, <3>2 DEF rowVars
    <3> QED
      BY <3>1, <3>2
  <2> QED
    BY <2>6
<1>3. ASSUME NEW w \in Worker, ClaimNothing(w) PROVE LockedRowsStable'
  BY <1>3 DEF ClaimNothing, qvars
<1>4. ASSUME NEW w \in Worker, ClaimCommit(w) PROVE LockedRowsStable'
  BY <1>4 DEF ClaimCommit, Release
<1>5. ASSUME NEW w \in Worker, NEW i \in Item, CompleteRow(w, i)
      PROVE  LockedRowsStable'
  BY <1>5 DEF CompleteRow, rowVars, Matches
<1>6. ASSUME NEW w \in Worker, NEW res \in [Item -> Result], NEW r \in Ref,
             CompleteCommit(w, res, r)
      PROVE  LockedRowsStable'
  BY <1>6 DEF CompleteCommit, Release
<1>7. ASSUME NEW w \in Worker, Rollback(w) PROVE LockedRowsStable'
  BY <1>7 DEF Rollback, Release, rowVars
<1>8. ASSUME NEW w \in Worker, RenewLease(w) PROVE LockedRowsStable'
  BY <1>8 DEF RenewLease, Matches
<1>9. CASE Tick
  <2>1. \A i \in Item : lease[i] = Expired => lease'[i] = Expired
    BY <1>9 DEF Tick, Ages
  <2>2. \A i \in Item : Claimable(i) => Claimable(i)'
    BY <1>9, <2>1 DEF Tick
  <2>3. UNCHANGED <<status, owner, lock, txn>>
    BY <1>9 DEF Tick
  <2> HIDE DEF Claimable
  <2> QED
    BY <2>2, <2>3
<1>10. CASE UNCHANGED qvars
  BY <1>10 DEF qvars
<1> QED
  BY <1>1, <1>2, <1>3, <1>4, <1>5, <1>6, <1>7, <1>8, <1>9, <1>10
  DEF Next, Claim, Complete

(* The columns and locks of the table always have their types.             *)
THEOREM TypeCorrect == Spec => []TypeOK
<1>1. Init => TypeOK
  BY DEF Init, InitWith, TypeOK, Status, Verdict, NullLease
<1> QED
  BY <1>1, TypeStep, PTL DEF Spec

(* What a claim or a completion has locked stays claimable, or the         *)
(* caller's, until its transaction ends.                                   *)
THEOREM LocksProtect == Spec => []LockedRowsStable
<1>1. Init => LockedRowsStable
  BY DEF Init, InitWith, LockedRowsStable
<1> QED
  BY <1>1, TypeCorrect, LockStep, PTL DEF Spec

(* A SUCCEEDED or FAILED row keeps its verdict, attempts, result_ref and   *)
(* worker_id through every operation any client can call.                  *)
THEOREM TerminalIsFinal == Spec => TerminalRowsFinal
<1> DEFINE Final == \A i \in Item : status[i] \in Verdict =>
                      /\ status'[i] = status[i]
                      /\ attempts'[i] = attempts[i]
                      /\ ref'[i] = ref[i]
                      /\ owner'[i] = owner[i]
<1>1. TypeOK /\ LockedRowsStable /\ [Next]_qvars => [Final]_qvars
  <2> SUFFICES ASSUME TypeOK, LockedRowsStable, Next PROVE Final
    OBVIOUS
  <2> USE DEF TypeOK, Verdict
  <2>1. \A i \in Item, w \in Worker : lock[i] = w => status[i] \notin Verdict
    BY DEF LockedRowsStable, Claimable
  <2>2. CASE Insert
    BY <2>2 DEF Insert, BulkInsert
  <2>3. ASSUME NEW w \in Worker, Claim(w) PROVE Final
    BY <2>1, <2>3
    DEF Claim, ClaimRow, ClaimNothing, ClaimCommit, rowVars, qvars
  <2>4. ASSUME NEW w \in Worker, Complete(w) PROVE Final
    BY <2>1, <2>4 DEF Complete, CompleteRow, CompleteCommit, rowVars
  <2>5. ASSUME NEW w \in Worker, RenewLease(w) \/ Rollback(w) PROVE Final
    BY <2>5 DEF RenewLease, Rollback, rowVars
  <2>6. CASE Tick
    BY <2>6 DEF Tick
  <2> QED
    BY <2>2, <2>3, <2>4, <2>5, <2>6 DEF Next
<1> QED
  BY <1>1, TypeCorrect, LocksProtect, PTL DEF Spec, TerminalRowsFinal

(* A claimed row changes hands only when its lease has run out.            *)
THEOREM NoLiveLeaseStolen == Spec => OnlyExpiredLeasesStolen
<1> DEFINE Stolen == \A i \in Item :
             status[i] = "CLAIMED" /\ owner'[i] # owner[i] => lease[i] = Expired
<1>1. TypeOK /\ LockedRowsStable /\ [Next]_qvars => [Stolen]_qvars
  <2> SUFFICES ASSUME TypeOK, LockedRowsStable, Next PROVE Stolen
    OBVIOUS
  <2> USE DEF TypeOK
  <2>1. ASSUME NEW w \in Worker, ClaimCommit(w) PROVE Stolen
    BY <2>1 DEF ClaimCommit, LockedRowsStable, Claimable
  <2>2. ASSUME NEW w \in Worker, Claim(w), ~ClaimCommit(w) PROVE Stolen
    BY <2>2 DEF Claim, ClaimRow, ClaimNothing, rowVars, qvars
  <2>3. ASSUME NEW w \in Worker, Complete(w) PROVE Stolen
    BY <2>3 DEF Complete, CompleteRow, CompleteCommit, rowVars
  <2>4. ASSUME NEW w \in Worker, RenewLease(w) \/ Rollback(w) PROVE Stolen
    BY <2>4 DEF RenewLease, Rollback, rowVars
  <2>5. CASE Insert \/ Tick
    BY <2>5 DEF Insert, BulkInsert, Tick
  <2> QED
    BY <2>1, <2>2, <2>3, <2>4, <2>5 DEF Next
<1> QED
  BY <1>1, TypeCorrect, LocksProtect, PTL DEF Spec, OnlyExpiredLeasesStolen
=============================================================================
