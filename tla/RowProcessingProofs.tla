------------------------ MODULE RowProcessingProofs ------------------------
(***************************************************************************)
(* What the limiter and the retry loop guarantee for any chunks, any       *)
(* number of workers and permits and any number of attempts, from one      *)
(* inductive invariant: RowInv.                                            *)
(***************************************************************************)
EXTENDS RowProcessing, FiniteSetTheorems, TLAPS

USE RowAssumption

Place == {"idle", "ready", "waiting", "woken", "calling", "asleep", "done"}
Holding(p) == {r \in Row : p[r] \in {"woken", "calling", "asleep"}}

(* TypeOK without the bound on value, which only NoPermitLost gives.       *)
RowTypes ==
  /\ pc \in [Row -> Place]
  /\ attempt \in [Row -> 0 .. RetryMaxAttempts - 1]
  /\ record \in [Row -> Result \cup {NoResult}]
  /\ heard \in [Row -> Seq(Answer)]
  /\ value \in Nat
  /\ ahead \in [Row -> SUBSET Row]

(* A row that has not called has heard nothing, one that calls or sleeps   *)
(* has heard `retryable` once per attempt, and one that is done has the    *)
(* record RecordsTellCalls asks for.                                       *)
CallsCounted ==
  \A r \in Row :
    /\ pc[r] \in {"idle", "ready", "waiting", "woken"} => heard[r] = <<>> /\ attempt[r] = 0
    /\ pc[r] = "calling" => Len(heard[r]) = attempt[r]
    /\ pc[r] = "asleep" => Len(heard[r]) = attempt[r] + 1 /\ attempt[r] < RetryMaxAttempts - 1
    /\ pc[r] \in {"calling", "asleep"} =>
         \A i \in 1 .. Len(heard[r]) : heard[r][i] = "retryable"
    /\ pc[r] = "done" =>
         /\ record[r].attempts = Len(heard[r])
         /\ record[r].status = "SUCCEEDED" <=> heard[r][Len(heard[r])] = "ok"
         /\ \A i \in 1 .. Len(heard[r]) - 1 : heard[r][i] = "retryable"
         /\ Len(heard[r]) < RetryMaxAttempts => heard[r][Len(heard[r])] # "retryable"

RowInv == RowTypes /\ NoPermitLost /\ CallsCounted

-----------------------------------------------------------------------------
(* A set of holders with one more or one less member, or the same.         *)
LEMMA HoldingCardinality ==
  ASSUME NEW p \in [Row -> Place], NEW r \in Row, NEW q \in Place
  PROVE  LET n == Cardinality(Holding(p))
             m == Cardinality(Holding([p EXCEPT ![r] = q]))
             holds == {"woken", "calling", "asleep"}
         IN  /\ n \in Nat /\ m \in Nat
             /\ p[r] \in holds /\ q \in holds => m = n
             /\ p[r] \notin holds /\ q \notin holds => m = n
             /\ p[r] \notin holds /\ q \in holds => m = n + 1
             /\ p[r] \in holds /\ q \notin holds => m = n - 1
<1> DEFINE H == Holding(p)
           G == Holding([p EXCEPT ![r] = q])
           holds == {"woken", "calling", "asleep"}
<1>1. IsFiniteSet(H) /\ IsFiniteSet(G)
  BY FS_Subset DEF Holding
<1>2. Cardinality(H) \in Nat /\ Cardinality(G) \in Nat
  BY <1>1, FS_CardinalityType
<1>3. r \in H <=> p[r] \in holds
  BY DEF Holding
<1>4. p[r] \in holds /\ q \in holds => G = H
  BY DEF Holding
<1>5. p[r] \notin holds /\ q \notin holds => G = H
  BY DEF Holding
<1>6. p[r] \notin holds /\ q \in holds => G = H \cup {r}
  BY DEF Holding
<1>7. p[r] \in holds /\ q \notin holds => G = H \ {r}
  BY DEF Holding
<1>8. Cardinality(H \cup {r}) = IF r \in H THEN Cardinality(H) ELSE Cardinality(H) + 1
  BY <1>1, FS_AddElement
<1>9. Cardinality(H \ {r}) = IF r \in H THEN Cardinality(H) - 1 ELSE Cardinality(H)
  BY <1>1, FS_RemoveElement
<1> QED
  BY <1>2, <1>3, <1>4, <1>5, <1>6, <1>7, <1>8, <1>9

(* _wake_up_next moves a free permit to the row it wakes, and moves no     *)
(* other row.                                                              *)
LEMMA WakeNextConserves ==
  ASSUME NEW p \in [Row -> Place], NEW v \in Nat, v > 0, WakeNext(p, v)
  PROVE  /\ pc' \in [Row -> Place]
         /\ value' \in Nat
         /\ value' + Cardinality(Holding(pc')) = v + Cardinality(Holding(p))
         /\ \A x \in Row : pc'[x] = p[x] \/ (p[x] = "waiting" /\ pc'[x] = "woken")
<1>1. CASE pc' = p /\ value' = v
  BY <1>1
<1>2. ASSUME NEW r \in Row, p[r] = "waiting",
             pc' = [p EXCEPT ![r] = "woken"], value' = v - 1
      PROVE  /\ pc' \in [Row -> Place]
             /\ value' \in Nat
             /\ value' + Cardinality(Holding(pc')) = v + Cardinality(Holding(p))
             /\ \A x \in Row : pc'[x] = p[x] \/ (p[x] = "waiting" /\ pc'[x] = "woken")
  <2>1. "woken" \in Place /\ "woken" \in {"woken", "calling", "asleep"}
        /\ p[r] \notin {"woken", "calling", "asleep"}
    BY <1>2 DEF Place
  <2>2. /\ Cardinality(Holding(p)) \in Nat
        /\ Cardinality(Holding(pc')) = Cardinality(Holding(p)) + 1
    BY <1>2, <2>1, HoldingCardinality
  <2> QED
    BY <1>2, <2>1, <2>2
<1> QED
  BY <1>1, <1>2 DEF WakeNext

(* _process_row returns: the permit goes back or to the next in the queue, *)
(* and only this row's record changes.                                     *)
LEMMA EndsConserves ==
  ASSUME RowTypes, NoPermitLost, NEW r \in Row, pc[r] = "calling",
         NEW s \in {"SUCCEEDED", "FAILED"}, Ends(r, s)
  PROVE  /\ pc' \in [Row -> Place] /\ value' \in Nat /\ NoPermitLost'
         /\ pc'[r] = "done"
         /\ \A x \in Row \ {r} :
              pc'[x] = pc[x] \/ (pc[x] = "waiting" /\ pc'[x] = "woken")
         /\ record' = [record EXCEPT ![r] = [status |-> s, attempts |-> attempt[r] + 1]]
         /\ record' \in [Row -> Result \cup {NoResult}]
<1> DEFINE p == [pc EXCEPT ![r] = "done"]
<1>1. p \in [Row -> Place] /\ value + 1 \in Nat /\ value + 1 > 0
  BY DEF RowTypes, Place
<1>2. /\ Cardinality(Holding(pc)) \in Nat
      /\ Cardinality(Holding(p)) = Cardinality(Holding(pc)) - 1
  <2>1. "done" \in Place /\ pc \in [Row -> Place]
    BY DEF RowTypes, Place
  <2> QED
    BY <2>1, HoldingCardinality
<1>3. value + Cardinality(Holding(pc)) = MaxConcurrency
  BY DEF NoPermitLost, Holders, At, Holding
<1>4. WakeNext(p, value + 1)
  BY DEF Ends
<1> HIDE DEF p
<1>5. /\ pc' \in [Row -> Place]
      /\ value' \in Nat
      /\ value' + Cardinality(Holding(pc')) = value + 1 + Cardinality(Holding(p))
      /\ \A x \in Row : pc'[x] = p[x] \/ (p[x] = "waiting" /\ pc'[x] = "woken")
  BY <1>1, <1>4, WakeNextConserves
<1>6. NoPermitLost'
  <2>1. value' + Cardinality(Holding(pc')) = MaxConcurrency
    BY <1>2, <1>3, <1>5 DEF RowTypes
  <2> QED
    BY <2>1 DEF NoPermitLost, Holders, At, Holding
<1>7. pc'[r] = "done" /\ \A x \in Row \ {r} :
              pc'[x] = pc[x] \/ (pc[x] = "waiting" /\ pc'[x] = "woken")
  BY <1>5 DEF p, RowTypes
<1>8. [status |-> s, attempts |-> attempt[r] + 1] \in Result
  BY DEF RowTypes, Result
<1> QED
  BY <1>5, <1>6, <1>7, <1>8 DEF Ends, RowTypes

(* One row moves between places that both hold a permit or both do not.    *)
LEMMA MoveKeepsPermits ==
  ASSUME RowTypes, NoPermitLost, NEW r \in Row, NEW q \in Place,
         pc' = [pc EXCEPT ![r] = q], value' = value,
         pc[r] \in {"woken", "calling", "asleep"} <=> q \in {"woken", "calling", "asleep"}
  PROVE  NoPermitLost'
<1>1. Cardinality(Holding(pc')) = Cardinality(Holding(pc))
  BY HoldingCardinality DEF RowTypes
<1> QED
  BY <1>1 DEF NoPermitLost, Holders, At, Holding

(* What an answer adds to what a calling row has heard.                    *)
LEMMA HearsOnce ==
  ASSUME RowTypes, CallsCounted, NEW r \in Row, NEW a \in Answer, Hears(r, a)
  PROVE  /\ pc[r] = "calling"
         /\ heard' \in [Row -> Seq(Answer)]
         /\ \A x \in Row \ {r} : heard'[x] = heard[x]
         /\ Len(heard'[r]) = attempt[r] + 1
         /\ heard'[r][attempt[r] + 1] = a
         /\ \A i \in 1 .. attempt[r] : heard'[r][i] = "retryable"
<1>1. pc[r] = "calling" /\ Len(heard[r]) = attempt[r] /\ heard[r] \in Seq(Answer)
      /\ \A i \in 1 .. Len(heard[r]) : heard[r][i] = "retryable"
  BY DEF CallsCounted, RowTypes, Hears
<1>2. /\ heard' = [heard EXCEPT ![r] = Append(heard[r], a)]
      /\ heard'[r] = Append(heard[r], a)
      /\ \A x \in Row \ {r} : heard'[x] = heard[x]
  BY DEF Hears, RowTypes
<1>3. /\ Append(heard[r], a) \in Seq(Answer)
      /\ Len(Append(heard[r], a)) = attempt[r] + 1
      /\ Append(heard[r], a)[attempt[r] + 1] = a
      /\ \A i \in 1 .. attempt[r] : Append(heard[r], a)[i] = "retryable"
  BY <1>1
<1>4. heard' \in [Row -> Seq(Answer)]
  BY <1>2, <1>3 DEF RowTypes
<1> QED
  BY <1>1, <1>2, <1>3, <1>4

(* The row returns with the record of its calls.                           *)
LEMMA AnswerEnds ==
  ASSUME RowInv, NEW r \in Row, NEW a \in Answer, NEW s \in {"SUCCEEDED", "FAILED"},
         Hears(r, a), Ends(r, s),
         s = "SUCCEEDED" <=> a = "ok",
         a = "retryable" => attempt[r] >= RetryMaxAttempts - 1
  PROVE  RowInv'
<1>1. /\ pc[r] = "calling"
      /\ heard' \in [Row -> Seq(Answer)]
      /\ \A x \in Row \ {r} : heard'[x] = heard[x]
      /\ Len(heard'[r]) = attempt[r] + 1
      /\ heard'[r][attempt[r] + 1] = a
      /\ \A i \in 1 .. attempt[r] : heard'[r][i] = "retryable"
  BY HearsOnce DEF RowInv
<1>2. /\ pc' \in [Row -> Place] /\ value' \in Nat /\ NoPermitLost'
      /\ pc'[r] = "done"
      /\ \A x \in Row \ {r} :
           pc'[x] = pc[x] \/ (pc[x] = "waiting" /\ pc'[x] = "woken")
      /\ record' = [record EXCEPT ![r] = [status |-> s, attempts |-> attempt[r] + 1]]
      /\ record' \in [Row -> Result \cup {NoResult}]
  BY <1>1, EndsConserves DEF RowInv
<1>3. RowTypes'
  BY <1>1, <1>2 DEF RowInv, RowTypes, Ends
<1>4. CallsCounted'
  <2>1. attempt' = attempt /\ attempt[r] \in 0 .. RetryMaxAttempts - 1
        /\ record'[r].attempts = attempt[r] + 1 /\ record'[r].status = s
    BY <1>2 DEF RowInv, RowTypes, Ends
  <2>2. \A x \in Row \ {r} : record'[x] = record[x] /\ heard'[x] = heard[x]
    BY <1>1, <1>2 DEF RowInv, RowTypes
  <2>3. /\ Len(heard'[r]) - 1 = attempt[r]
        /\ record'[r].attempts = Len(heard'[r])
        /\ record'[r].status = "SUCCEEDED" <=> heard'[r][Len(heard'[r])] = "ok"
        /\ \A i \in 1 .. Len(heard'[r]) - 1 : heard'[r][i] = "retryable"
        /\ Len(heard'[r]) < RetryMaxAttempts => heard'[r][Len(heard'[r])] # "retryable"
    BY <1>1, <2>1
  <2> SUFFICES ASSUME NEW x \in Row
               PROVE  CallsCounted!(x)'
    BY DEF CallsCounted
  <2>4. CASE x = r
    BY <1>2, <2>3, <2>4
  <2>5. CASE x # r
    BY <1>2, <2>1, <2>2, <2>5 DEF RowInv, CallsCounted
  <2> QED
    BY <2>4, <2>5
<1> QED
  BY <1>2, <1>3, <1>4 DEF RowInv

-----------------------------------------------------------------------------
LEMMA InitInv == Init => RowInv
<1> SUFFICES ASSUME Init PROVE RowInv
  OBVIOUS
<1>1. RowTypes
  BY DEF Init, RowTypes, Place
<1>2. NoPermitLost
  <2>1. Holders = {}
    BY DEF Init, Holders, At
  <2> QED
    BY <2>1, FS_EmptySet DEF Init, NoPermitLost
<1>3. CallsCounted
  BY DEF Init, CallsCounted
<1> QED
  BY <1>1, <1>2, <1>3 DEF RowInv

(* Every step of a row, a worker or the semaphore keeps the invariant.     *)
LEMMA StepInv == RowInv /\ [Next]_vars => RowInv'
<1> SUFFICES ASSUME RowInv, [Next]_vars PROVE RowInv'
  OBVIOUS
<1> USE DEF RowInv
<1>1. ASSUME NEW w \in Worker, NEW chunk \in SUBSET {r \in Row : OwnerOf[r] = w},
             Begin(w, chunk)
      PROVE  RowInv'
  <2>1. RowTypes'
    BY <1>1 DEF Begin, RowTypes, Place
  <2>2. Holders' = Holders
    BY <1>1 DEF Begin, Holders, At, RowTypes
  <2>3. CallsCounted'
    BY <1>1 DEF Begin, CallsCounted, RowTypes
  <2> QED
    BY <1>1, <2>1, <2>2, <2>3 DEF Begin, NoPermitLost
<1>2. ASSUME NEW w \in Worker, Gathered(w) PROVE RowInv'
  <2>1. RowTypes'
    BY <1>2 DEF Gathered, RowTypes, Place
  <2>2. Holders' = Holders
    BY <1>2 DEF Gathered, Holders, At, RowTypes
  <2>3. CallsCounted'
    BY <1>2 DEF Gathered, CallsCounted, RowTypes
  <2> QED
    BY <1>2, <2>1, <2>2, <2>3 DEF Gathered, NoPermitLost
<1>3. ASSUME NEW r \in Row, Acquire(r) PROVE RowInv'
  <2>1. CASE value > 0 /\ pc' = [pc EXCEPT ![r] = "calling"] /\ value' = value - 1
             /\ UNCHANGED ahead
    <3>1. RowTypes'
      BY <1>3, <2>1 DEF Acquire, RowTypes, Place
    <3>2. NoPermitLost'
      <4>1. /\ Cardinality(Holding(pc)) \in Nat
            /\ Cardinality(Holding(pc')) = Cardinality(Holding(pc)) + 1
        BY <1>3, <2>1, HoldingCardinality DEF Acquire, RowTypes, Place
      <4>2. value + Cardinality(Holding(pc)) = MaxConcurrency
        BY DEF NoPermitLost, Holders, At, Holding
      <4>3. value' + Cardinality(Holding(pc')) = MaxConcurrency
        BY <2>1, <4>1, <4>2 DEF RowTypes
      <4> QED
        BY <4>3 DEF NoPermitLost, Holders, At, Holding
    <3>3. CallsCounted'
      BY <1>3, <2>1 DEF Acquire, CallsCounted, RowTypes
    <3> QED
      BY <3>1, <3>2, <3>3
  <2>2. CASE pc' = [pc EXCEPT ![r] = "waiting"] /\ value' = value
             /\ ahead' = [ahead EXCEPT ![r] = Queued]
    <3>1. RowTypes'
      BY <1>3, <2>2 DEF Acquire, RowTypes, Place, Queued, At
    <3>2. NoPermitLost'
      BY <1>3, <2>2, MoveKeepsPermits DEF Acquire, Place
    <3>3. CallsCounted'
      BY <1>3, <2>2 DEF Acquire, CallsCounted, RowTypes
    <3> QED
      BY <3>1, <3>2, <3>3
  <2> QED
    BY <1>3, <2>1, <2>2 DEF Acquire
<1>4. ASSUME NEW r \in Row, Resume(r) PROVE RowInv'
  <2> DEFINE p == [pc EXCEPT ![r] = "calling"]
  <2>1. /\ p \in [Row -> Place]
        /\ value + Cardinality(Holding(p)) = MaxConcurrency
    <3>1. Cardinality(Holding(p)) = Cardinality(Holding(pc))
      BY <1>4, HoldingCardinality DEF Resume, RowTypes, Place
    <3> QED
      BY <3>1 DEF NoPermitLost, Holders, At, Holding, RowTypes, Place
  <2> HIDE DEF p
  <2>2. /\ pc' \in [Row -> Place]
        /\ value' \in Nat
        /\ value' + Cardinality(Holding(pc')) = MaxConcurrency
        /\ \A x \in Row : pc'[x] = p[x] \/ (p[x] = "waiting" /\ pc'[x] = "woken")
    <3>1. CASE value > 0 /\ WakeNext(p, value)
      BY <2>1, <3>1, WakeNextConserves DEF RowTypes
    <3>2. CASE pc' = p /\ value' = value
      BY <2>1, <3>2 DEF RowTypes
    <3> QED
      BY <1>4, <3>1, <3>2 DEF Resume, p
  <2>3. RowTypes'
    BY <1>4, <2>2 DEF Resume, RowTypes
  <2>4. NoPermitLost'
    BY <2>2 DEF NoPermitLost, Holders, At, Holding
  <2>5. CallsCounted'
    BY <1>4, <2>2 DEF Resume, CallsCounted, RowTypes, p
  <2> QED
    BY <2>3, <2>4, <2>5
<1>5. ASSUME NEW r \in Row, CallSucceeds(r) PROVE RowInv'
  BY <1>5, AnswerEnds DEF CallSucceeds, Answer
<1>6. ASSUME NEW r \in Row, CallRetryable(r) PROVE RowInv'
  <2>1. CASE attempt[r] >= RetryMaxAttempts - 1 /\ Ends(r, "FAILED")
    BY <1>6, <2>1, AnswerEnds DEF CallRetryable, Answer
  <2>2. CASE /\ attempt[r] < RetryMaxAttempts - 1
             /\ pc' = [pc EXCEPT ![r] = "asleep"]
             /\ UNCHANGED <<attempt, record, value, ahead>>
    <3>1. /\ pc[r] = "calling"
          /\ heard' \in [Row -> Seq(Answer)]
          /\ \A x \in Row \ {r} : heard'[x] = heard[x]
          /\ Len(heard'[r]) = attempt[r] + 1
          /\ heard'[r][attempt[r] + 1] = "retryable"
          /\ \A i \in 1 .. attempt[r] : heard'[r][i] = "retryable"
      BY <1>6, HearsOnce DEF CallRetryable, Answer
    <3>2. RowTypes'
      BY <2>2, <3>1 DEF RowTypes, Place
    <3>3. NoPermitLost'
      BY <2>2, <3>1, MoveKeepsPermits DEF Place
    <3>4. \A i \in 1 .. Len(heard'[r]) : heard'[r][i] = "retryable"
      BY <3>1 DEF RowTypes
    <3>5. ASSUME NEW x \in Row PROVE CallsCounted!(x)'
      <4>1. CASE x = r
        <5>1. pc'[r] = "asleep" /\ attempt'[r] = attempt[r]
          BY <2>2 DEF RowTypes
        <5> QED
          BY <2>2, <3>1, <3>4, <4>1, <5>1
      <4>2. CASE x # r
        <5>1. pc'[x] = pc[x] /\ attempt'[x] = attempt[x] /\ record'[x] = record[x]
              /\ heard'[x] = heard[x]
          BY <2>2, <3>1, <4>2 DEF RowTypes
        <5> QED
          BY <5>1 DEF CallsCounted
      <4> QED
        BY <4>1, <4>2
    <3>6. CallsCounted'
      BY <3>5 DEF CallsCounted
    <3> QED
      BY <3>2, <3>3, <3>6
  <2> QED
    BY <1>6, <2>1, <2>2 DEF CallRetryable
<1>7. ASSUME NEW r \in Row, CallPermanent(r) PROVE RowInv'
  BY <1>7, AnswerEnds DEF CallPermanent, Answer
<1>8. ASSUME NEW r \in Row, Wakes(r) PROVE RowInv'
  <2>1. RowTypes'
    BY <1>8 DEF Wakes, RowTypes, Place, CallsCounted
  <2>2. NoPermitLost'
    BY <1>8, MoveKeepsPermits DEF Wakes, Place
  <2>3. CallsCounted'
    BY <1>8 DEF Wakes, CallsCounted, RowTypes
  <2> QED
    BY <2>1, <2>2, <2>3
<1>9. CASE UNCHANGED vars
  BY <1>9 DEF vars, RowTypes, NoPermitLost, Holders, At, CallsCounted
<1> QED
  BY <1>1, <1>2, <1>3, <1>4, <1>5, <1>6, <1>7, <1>8, <1>9 DEF Next, Step

LEMMA InvHolds == Spec => []RowInv
<1> QED
  BY InitInv, StepInv, PTL DEF Spec

(* A row never makes more attempts than the policy allows, and its record  *)
(* is always one that complete_items can write: Worker._process_row.       *)
THEOREM RowTypeCorrect == Spec => []TypeOK
<1>1. RowInv => TypeOK
  <2> SUFFICES ASSUME RowInv PROVE TypeOK
    OBVIOUS
  <2>1. Cardinality(Holders) \in Nat
    <3>1. IsFiniteSet(Holders)
      BY FS_Subset DEF Holders, At
    <3> QED
      BY <3>1, FS_CardinalityType
  <2>2. value \in 0 .. MaxConcurrency
    BY <2>1 DEF RowInv, RowTypes, NoPermitLost
  <2> QED
    BY <2>2 DEF TypeOK, RowInv, RowTypes, Place
<1> QED
  BY <1>1, InvHolds, PTL

(* However calls, back-offs and queueing interleave, the limiter's permits *)
(* stay MaxConcurrency: ConcurrencyLimiter.run.                            *)
THEOREM PermitsConserved == Spec => []NoPermitLost
<1>1. RowInv => NoPermitLost
  BY DEF RowInv
<1> QED
  BY <1>1, InvHolds, PTL

(* A finished row's record tells the outcome and the number of its calls:  *)
(* Worker._process_row.                                                    *)
THEOREM RecordsCorrect == Spec => []RecordsTellCalls
<1>1. RowInv => RecordsTellCalls
  BY DEF RowInv, CallsCounted, RecordsTellCalls, At
<1> QED
  BY <1>1, InvHolds, PTL
=============================================================================
