------------------------ MODULE BatchEngineRefinement ------------------------
(***************************************************************************)
(* The engine implements LeasedQueue: every step of a worker, a run, the   *)
(* clock or a failure is a delivery, a publication, a settlement, the loss *)
(* of deliveries, or nothing to the abstract queue.                        *)
(***************************************************************************)
EXTENDS BatchEngineProofs

(* The refinement mapping of Leased, by name.                              *)
Result0 == [status : Q!Verdict, attempts : 0 .. RetryMaxAttempts]
Delivery == [i \in Item |-> IF Terminal(i) THEN 0 ELSE attempts[i]]
VerdictOf == [i \in Item |-> IF Terminal(i) THEN Recorded(i) ELSE NoResult]
Published == {<<p[1], p[2].recs[p[1]]>> : p \in
                {q \in Item \X objects : q[2].recs[q[1]] # NoResult}}

(* A result of complete_items is a verdict of the abstract queue, whose     *)
(* verdicts also cover the rows rejected at ingestion (attempts 0).        *)
LEMMA ResultInResult0 == \A x \in Q!Result : x \in Result0
<1> SUFFICES ASSUME NEW x \in Q!Result PROVE x \in Result0
  OBVIOUS
<1>1. /\ x = [status |-> x.status, attempts |-> x.attempts]
      /\ x.status \in Q!Verdict /\ x.attempts \in 1 .. RetryMaxAttempts
  BY DEF Q!Result
<1>2. x.attempts \in 0 .. RetryMaxAttempts
  BY <1>1, EngineAssumption
<1> QED
  BY <1>1, <1>2 DEF Result0

(* A row that does not change looks the same to the abstract queue.        *)
LEMMA SameRows ==
  ASSUME UNCHANGED <<status, attempts>>
  PROVE  Delivery' = Delivery /\ VerdictOf' = VerdictOf
  BY DEF Delivery, VerdictOf, Terminal, Recorded

(* What the rows and the storage show does not change: a stutter, or the   *)
(* loss of what some workers held.                                         *)
LEMMA StutterStep ==
  ASSUME UNCHANGED <<status, attempts, held, objects>>
  PROVE  UNCHANGED Leased!lqvars
<1>1. Delivery' = Delivery /\ VerdictOf' = VerdictOf
  BY SameRows
<1>2. Published' = Published
  BY DEF Published
<1> QED
  BY <1>1, <1>2 DEF Leased!lqvars, Delivery, VerdictOf, Published

(* The rows and the storage do not change and some workers lose their      *)
(* chunks (an exception, a crash): the abstract consumers forget.          *)
LEMMA ForgetStep ==
  ASSUME NEW W \in SUBSET Worker, DropChunks(W),
         UNCHANGED <<status, attempts, objects>>
  PROVE  Leased!Forget(W)
<1>1. Delivery' = Delivery /\ VerdictOf' = VerdictOf
  BY SameRows
<1>2. Published' = Published
  BY DEF Published
<1> QED
  BY <1>1, <1>2
  DEF Leased!Forget, Leased!Nothing, DropChunks, NoneHeld, Delivery, VerdictOf,
      Published

(* A committed claim delivers the rows it had locked.                      *)
LEMMA DeliverStep ==
  ASSUME EngineInv, NEW w \in Worker, pc[w] = "claim", Q!ClaimCommit(w),
         objects' = objects,
         \/ held' = [held EXCEPT ![w] =
                       [i \in Item |-> IF lock[i] = w THEN attempts'[i] ELSE 0]]
         \/ DropChunks({w}),
         NEW S \in SUBSET Item, S = {i \in Item : lock[i] = w}
  PROVE  Leased!Deliver(w, S)
<1>1. \A i \in Item : lock[i] = w => ~Terminal(i) /\ ~Terminal(i)'
                                     /\ attempts'[i] = attempts[i] + 1
  BY ClaimEffect DEF Terminal, Q!Verdict
<1>2. \A i \in Item : lock[i] # w => status'[i] = status[i]
                                     /\ attempts'[i] = attempts[i]
  BY ClaimEffect
<1>3. \A i \in S : VerdictOf[i] = NoResult
  BY <1>1 DEF VerdictOf
<1>4. Delivery' = [i \in Item |-> IF i \in S THEN Delivery[i] + 1 ELSE Delivery[i]]
  BY <1>1, <1>2 DEF Delivery, Terminal
<1>5. VerdictOf' = VerdictOf
  BY <1>1, <1>2 DEF VerdictOf, Terminal, Recorded
<1>6. Published' = Published
  BY DEF Published
<1>7. held \in [Worker -> [Item -> Nat]]
  BY DEF EngineInv, TypeOK
<1>8. \/ held' = [held EXCEPT ![w] =
                    [i \in Item |-> IF i \in S THEN Delivery[i] + 1 ELSE 0]]
      \/ held' = [held EXCEPT ![w] = Leased!Nothing]
  <2>1. CASE held' = [held EXCEPT ![w] =
                       [i \in Item |-> IF lock[i] = w THEN attempts'[i] ELSE 0]]
    <3>1. [i \in Item |-> IF lock[i] = w THEN attempts'[i] ELSE 0]
            = [i \in Item |-> IF i \in S THEN Delivery[i] + 1 ELSE 0]
      BY <1>1 DEF Delivery
    <3> QED
      BY <2>1, <3>1
  <2>2. CASE DropChunks({w})
    BY <1>7, <2>2 DEF DropChunks, NoneHeld, Leased!Nothing
  <2> QED
    BY <2>1, <2>2
<1> QED
  BY <1>3, <1>4, <1>5, <1>6, <1>8
  DEF Leased!Deliver, Delivery, VerdictOf, Published

(* A written object publishes the chunk's results.                         *)
LEMMA PublishStep ==
  ASSUME EngineInv, NEW w \in Worker, WriteChunk(w)
  PROVE  Leased!Publish(w)
<1> DEFINE C == {i \in Item : held[w][i] > 0}
           res == [i \in C |-> outcome[w][i]]
           o == [ref |-> Name(w), recs |-> outcome[w]]
<1>1. \A i \in Item : IF i \in C THEN outcome[w][i] \in Q!Result
                                 ELSE outcome[w][i] = NoResult
  BY DEF EngineInv, ResultsKept, WriteChunk, Chunk
<1>2. res \in [C -> Result0]
  BY <1>1, ResultInResult0
<1>3. Published' = Published \cup {<<i, res[i]>> : i \in C}
  <2>1. objects' = objects \cup {o}
    BY DEF WriteChunk
  <2>2. Published' = Published \cup
          {<<i, outcome[w][i]>> : i \in {j \in Item : outcome[w][j] # NoResult}}
    <3> DEFINE Pairs(O) == {q \in Item \X O : q[2].recs[q[1]] # NoResult}
               Shown(P) == {<<p[1], p[2].recs[p[1]]>> : p \in P}
               new == {q \in Item \X {o} : q[2].recs[q[1]] # NoResult}
    <3>1. Pairs(objects') = Pairs(objects) \cup new
      BY <2>1
    <3>2. Shown(Pairs(objects) \cup new) = Shown(Pairs(objects)) \cup Shown(new)
      OBVIOUS
    <3>3. Shown(new) = {<<i, outcome[w][i]>> :
                          i \in {j \in Item : outcome[w][j] # NoResult}}
      <4>1. \A i \in Item : <<i, o>>[1] = i /\ <<i, o>>[2] = o
        OBVIOUS
      <4>2. o.recs = outcome[w]
        OBVIOUS
      <4>3. ASSUME NEW i \in Item, outcome[w][i] # NoResult
            PROVE  <<i, outcome[w][i]>> \in Shown(new)
        <5>1. <<i, o>> \in new
          BY <4>2, <4>3
        <5> QED
          BY <4>1, <4>2, <5>1
      <4>4. ASSUME NEW q \in new
            PROVE  /\ q[1] \in Item /\ outcome[w][q[1]] # NoResult
                   /\ <<q[1], q[2].recs[q[1]]>> = <<q[1], outcome[w][q[1]]>>
        BY <4>2
      <4> QED
        BY <4>3, <4>4
    <3>4. Published = Shown(Pairs(objects)) /\ Published' = Shown(Pairs(objects'))
      BY DEF Published
    <3> QED
      BY <3>1, <3>2, <3>3, <3>4
  <2>3. {j \in Item : outcome[w][j] # NoResult} = C
    BY <1>1, EngineAssumption
  <2> QED
    BY <2>2, <2>3
<1>4. Delivery' = Delivery /\ VerdictOf' = VerdictOf /\ held' = held
  BY SameRows DEF WriteChunk, tableVars
<1> QED
  BY <1>2, <1>3, <1>4
  DEF Leased!Publish, Delivery, VerdictOf, Published, Result0

(* A committed chunk settles the rows it had locked with published results.*)
LEMMA SettleStep ==
  ASSUME EngineInv, NEW w \in Worker, pc[w] = "commit", todo[w] = {},
         Q!CompleteCommit(w, outcome[w], Name(w)), DropChunks({w}),
         objects' = objects,
         NEW S \in SUBSET Item, S = {i \in Item : lock[i] = w}
  PROVE  Leased!Settle(w, S)
<1> DEFINE res == [i \in S |-> outcome[w][i]]
<1>1. \A i \in S : /\ ~Terminal(i) /\ Terminal(i)'
                   /\ held[w][i] = attempts[i] /\ attempts[i] > 0
                   /\ outcome[w][i] \in Q!Result
                   /\ Recorded(i)' = outcome[w][i]
  <2> SUFFICES ASSUME NEW i \in S
               PROVE  /\ ~Terminal(i) /\ Terminal(i)'
                      /\ held[w][i] = attempts[i] /\ attempts[i] > 0
                      /\ outcome[w][i] \in Q!Result
                      /\ Recorded(i)' = outcome[w][i]
    OBVIOUS
  <2>1. /\ status[i] = "CLAIMED" /\ held[w][i] = attempts[i]
        /\ outcome[w][i] \in Q!Result
        /\ status'[i] = outcome[w][i].status /\ status'[i] \in Q!Verdict
        /\ attempts'[i] = outcome[w][i].attempts
    BY CommitEffect
  <2>2. attempts[i] > 0
    BY <2>1 DEF EngineInv, OwnersWork
  <2> QED
    BY <2>1, <2>2 DEF Terminal, Recorded, Q!Verdict, Q!Result
<1>2. \A i \in Item \ S : status'[i] = status[i] /\ attempts'[i] = attempts[i]
  BY CommitEffect
<1>3. \A i \in S : /\ VerdictOf[i] = NoResult /\ held[w][i] = Delivery[i]
                   /\ Delivery[i] > 0
  BY <1>1 DEF VerdictOf, Delivery
<1>4. res \in [S -> Result0]
  BY <1>1, ResultInResult0
<1>5. \A i \in S : <<i, res[i]>> \in Published
  <2>1. PICK o \in objects : o.recs = outcome[w]
    BY DEF EngineInv, ResultsKept
  <2>2. ASSUME NEW i \in S PROVE <<i, outcome[w][i]>> \in Published
    <3>1. o.recs[i] # NoResult
      BY <1>1, <2>1, EngineAssumption
    <3>2. <<i, o>> \in {q \in Item \X objects : q[2].recs[q[1]] # NoResult}
      BY <3>1
    <3> QED
      BY <2>1, <3>2 DEF Published
  <2> QED
    BY <2>2
<1>6. VerdictOf' = [i \in Item |-> IF i \in S THEN res[i] ELSE VerdictOf[i]]
  BY <1>1, <1>2 DEF VerdictOf, Terminal, Recorded
<1>7. Delivery' = [i \in Item |-> IF i \in S THEN 0 ELSE Delivery[i]]
  BY <1>1, <1>2 DEF Delivery, Terminal
<1>8. held' = [held EXCEPT ![w] = Leased!Nothing] /\ Published' = Published
  BY DEF DropChunks, NoneHeld, Leased!Nothing, Published, EngineInv, TypeOK
<1> HIDE DEF res
<1> QED
  BY <1>3, <1>4, <1>5, <1>6, <1>7, <1>8
  DEF Leased!Settle, Delivery, VerdictOf, Published, Result0

(* An insert refuses the rows it inserts as FAILED; the other rows it      *)
(* inserts are open for the abstract queue already.                        *)
LEMMA RefuseStep ==
  ASSUME EngineInv, Insert, NEW S \in SUBSET Item,
         S = {i \in Item : status[i] = "ABSENT" /\ status'[i] = "FAILED"}
  PROVE  Leased!Refuse(S)
<1> DEFINE v == [status |-> "FAILED", attempts |-> 0]
<1>1. v \in Result0
  BY EngineAssumption DEF Result0, Q!Verdict
<1>2. ASSUME NEW i \in Item
      PROVE  /\ i \in S => ~Terminal(i) /\ attempts[i] = 0
             /\ i \in S => Terminal(i)' /\ Recorded(i)' = v
             /\ i \notin S => (Terminal(i)' <=> Terminal(i))
             /\ i \notin S /\ Terminal(i) => Recorded(i)' = Recorded(i)
             /\ attempts'[i] = attempts[i]
             /\ ~Terminal(i) => (Terminal(i)' => attempts[i] = 0)
  BY <1>2, InsertEffect DEF EngineInv, FreshRows, Terminal, Recorded, Q!Verdict
<1>3. Delivery' = Delivery
  <2>1. \A i \in Item : (IF Terminal(i) THEN 0 ELSE attempts[i])'
                        = IF Terminal(i) THEN 0 ELSE attempts[i]
    BY <1>2
  <2> QED
    BY <2>1 DEF Delivery
<1>4. VerdictOf' = [i \in Item |-> IF i \in S THEN v ELSE VerdictOf[i]]
  BY <1>2 DEF VerdictOf
<1>5. \A i \in S : VerdictOf[i] = NoResult /\ Delivery[i] = 0
  BY <1>2 DEF VerdictOf, Delivery
<1>6. UNCHANGED <<held, objects>>
  BY DEF Insert, wvars
<1>7. Published' = Published
  BY <1>6 DEF Published
<1> QED
  BY <1>1, <1>3, <1>4, <1>5, <1>6, <1>7
  DEF Leased!Refuse, Delivery, VerdictOf, Published, Result0

(* Every step of the engine is a step of the queue, or changes nothing.    *)
LEMMA StepMaps == EngineInv /\ [Next]_vars => [Leased!Next]_(Leased!lqvars)
<1> DEFINE Goal == [Leased!Next]_(Leased!lqvars)
<1> SUFFICES ASSUME EngineInv, [Next]_vars PROVE Goal
  OBVIOUS
<1>a. ASSUME UNCHANGED <<status, attempts, held, objects>> PROVE Goal
  BY <1>a, StutterStep
<1>b. ASSUME NEW W \in SUBSET Worker, DropChunks(W),
             UNCHANGED <<status, attempts, objects>>
      PROVE  Goal
  <2>1. Leased!Forget(W)
    BY <1>b, ForgetStep
  <2> QED
    BY <2>1 DEF Leased!Next
<1>c. ASSUME NEW w \in Worker, pc[w] = "claim", Q!ClaimCommit(w),
             objects' = objects,
             \/ held' = [held EXCEPT ![w] =
                  [i \in Item |-> IF lock[i] = w THEN attempts'[i] ELSE 0]]
             \/ DropChunks({w})
      PROVE  Goal
  <2>1. PICK S \in SUBSET Item : S = {i \in Item : lock[i] = w}
    OBVIOUS
  <2>2. Leased!Deliver(w, S)
    BY <1>c, <2>1, DeliverStep
  <2> QED
    BY <2>2 DEF Leased!Next
<1>d. ASSUME NEW w \in Worker, pc[w] = "commit", todo[w] = {},
             Q!CompleteCommit(w, outcome[w], Name(w)), DropChunks({w}),
             objects' = objects
      PROVE  Goal
  <2>1. PICK S \in SUBSET Item : S = {i \in Item : lock[i] = w}
    OBVIOUS
  <2>2. Leased!Settle(w, S)
    BY <1>d, <2>1, SettleStep
  <2> QED
    BY <2>2 DEF Leased!Next
<1> HIDE DEF Goal
<1>1. ASSUME NEW w \in Worker,
             ScanRow(w) \/ NoChunk(w) \/ Heartbeat(w) \/ HeartbeatFails(w)
               \/ ProcessChunk(w) \/ CompleteRow(w) \/ ServerRollback(w)
      PROVE  Goal
  <2>1. UNCHANGED <<status, attempts, held, objects>>
    BY <1>1 DEF ScanRow, NoChunk, Heartbeat, HeartbeatFails, ProcessChunk,
      CompleteRow, ServerRollback, Q!ClaimRow, Q!ClaimNothing, Q!RenewLease,
      Q!CompleteRow, Q!Rollback, Q!rowVars, Q!qvars, wvars, tableVars
  <2> QED
    BY <1>a, <2>1
<1>2. ASSUME NEW w \in Worker,
             ProcessChunkRaises(w) \/ WriteFails(w) \/ DbFails(w)
      PROVE  Goal
  <2>1. UNCHANGED <<status, attempts, objects>> /\ DropChunks({w})
    BY <1>2 DEF ProcessChunkRaises, WriteFails, DbFails, Raises, Q!Rollback,
                Q!rowVars, tableVars
  <2> QED
    BY <1>b, <2>1
<1>3. ASSUME NEW w \in Worker, ClaimChunk(w) PROVE Goal
  BY <1>3, <1>c DEF ClaimChunk
<1>4. ASSUME NEW w \in Worker, WriteChunk(w) PROVE Goal
  <2>1. Leased!Publish(w)
    BY <1>4, PublishStep
  <2> QED
    BY <2>1 DEF Leased!Next, Goal
<1>5. ASSUME NEW w \in Worker, CompleteChunk(w) PROVE Goal
  BY <1>5, <1>d DEF CompleteChunk
<1>6. ASSUME NEW w \in Worker, AckLost(w) PROVE Goal
  <2>1. DropChunks({w}) /\ objects' = objects
    BY <1>6 DEF AckLost, Raises
  <2> QED
    BY <1>6, <1>c, <1>d, <2>1 DEF AckLost
<1>7. ASSUME NEW r \in Run, Start(r) \/ Finish(r) \/ RunFails(r) PROVE Goal
  BY <1>7, <1>a DEF Start, Finish, RunFails, tableVars, wvars
<1>8. ASSUME NEW r \in Run, Crash(r) PROVE Goal
  <2>1. WorkersOf(r) \in SUBSET Worker
    BY DEF WorkersOf
  <2> QED
    BY <1>8, <1>b, <2>1 DEF Crash, tableVars
<1>9. ASSUME Tick \/ UNCHANGED vars PROVE Goal
  <2>1. UNCHANGED <<status, attempts, held, objects>>
    BY <1>9 DEF Tick, Q!Tick, vars, tableVars, wvars
  <2> QED
    BY <1>a, <2>1
<1>10. CASE Insert
  <2>1. PICK S \in SUBSET Item : S = {i \in Item : status[i] = "ABSENT"
                                                /\ status'[i] = "FAILED"}
    OBVIOUS
  <2>2. Leased!Refuse(S)
    BY <1>10, <2>1, RefuseStep
  <2> QED
    BY <2>2 DEF Leased!Next, Goal
<1> QED
  BY <1>1, <1>2, <1>3, <1>4, <1>5, <1>6, <1>7, <1>8, <1>9, <1>10
  DEF Next, Step, Fault

(* A table with no worker at work is an abstract queue that nobody         *)
(* has taken from.                                                         *)
LEMMA InitMaps == Init => Leased!Init
<1> SUFFICES ASSUME Init PROVE Leased!Init
  OBVIOUS
<1>1. PICK S \in SUBSET Item, F \in SUBSET Item : Q!InitWith(S, F)
  <2>1. PICK F \in SUBSET (Item \ Late) : Q!InitWith((Item \ Late) \ F, F)
    BY DEF Init
  <2> QED
    BY <2>1
<1>2. \A i \in Item : attempts[i] = 0 /\ (Terminal(i) => status[i] = "FAILED")
  BY <1>1 DEF Q!InitWith, Terminal, Q!Verdict
<1>3. Delivery = Leased!Nothing
  BY <1>2 DEF Delivery, Leased!Nothing
<1>4. VerdictOf \in [Item -> Result0 \cup {NoResult}]
  <2>1. \A i \in Item : Terminal(i) => Recorded(i) \in Result0
    BY <1>2, EngineAssumption DEF Recorded, Result0, Q!Verdict
  <2> QED
    BY <2>1 DEF VerdictOf
<1>5. held = [w \in Worker |-> Leased!Nothing] /\ Published = {}
  BY DEF Init, NoneHeld, Leased!Nothing, Published
<1> QED
  BY <1>3, <1>4, <1>5
  DEF Leased!Init, Delivery, VerdictOf, Published, Result0

(* The table, the workers and the storage implement an at-least-once queue *)
(* with fencing: whatever fails, a row is settled once, by the holder of   *)
(* its latest delivery, with a result that was published before.           *)
THEOREM EngineIsLeasedQueue == Spec => ImplementsLeasedQueue
<1> QED
  BY InitMaps, StepMaps, EngineInvariant, PTL
  DEF Spec, ImplementsLeasedQueue, Leased!Spec
=============================================================================
