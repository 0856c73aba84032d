---------------------------- MODULE LeasedQueue ----------------------------
(***************************************************************************)
(* What the workers and the table together promise: an at-least-once       *)
(* queue with fencing.  Every delivery of an item has a number; the item   *)
(* is settled once, by the holder of its latest delivery, with a result    *)
(* that was published before.                                              *)
(***************************************************************************)
EXTENDS Naturals

CONSTANTS Item, Consumer, Verdict, Open

VARIABLES
  delivery,   \* the number of the item's latest delivery; 0 once settled
  token,      \* token[c][i]: the delivery of i that c works on, 0 if none
  verdict,    \* the item's result, or Open
  published   \* the <<item, result>> pairs a reader of the results can see

lqvars == <<delivery, token, verdict, published>>

Nothing == [i \in Item |-> 0]

Init ==
  /\ delivery = Nothing
  /\ token = [c \in Consumer |-> Nothing]
  /\ verdict \in [Item -> Verdict \cup {Open}]
  /\ published = {}

(* The items S, which were never delivered, are settled without a result:  *)
(* they are refused.                                                       *)
Refuse(S) ==
  /\ \A i \in S : verdict[i] = Open /\ delivery[i] = 0
  /\ \E v \in Verdict :
       verdict' = [i \in Item |-> IF i \in S THEN v ELSE verdict[i]]
  /\ UNCHANGED <<delivery, token, published>>

(* The open items S get a new delivery, to c or, if the answer is lost, to *)
(* nobody.                                                                 *)
Deliver(c, S) ==
  /\ \A i \in S : verdict[i] = Open
  /\ delivery' = [i \in Item |-> IF i \in S THEN delivery[i] + 1
                                 ELSE delivery[i]]
  /\ \/ token' = [token EXCEPT ![c] =
                    [i \in Item |-> IF i \in S THEN delivery[i] + 1 ELSE 0]]
     \/ token' = [token EXCEPT ![c] = Nothing]
  /\ UNCHANGED <<verdict, published>>

(* c publishes one result for each item it works on.                       *)
Publish(c) ==
  /\ \E res \in [{i \in Item : token[c][i] > 0} -> Verdict] :
       published' = published \cup {<<i, res[i]>> : i \in DOMAIN res}
  /\ UNCHANGED <<delivery, token, verdict>>

(* c settles the items S, each of which it holds the latest delivery of.   *)
Settle(c, S) ==
  /\ \A i \in S : verdict[i] = Open /\ token[c][i] = delivery[i]
                                    /\ delivery[i] > 0
  /\ \E res \in [S -> Verdict] :
       /\ \A i \in S : <<i, res[i]>> \in published
       /\ verdict' = [i \in Item |-> IF i \in S THEN res[i] ELSE verdict[i]]
  /\ delivery' = [i \in Item |-> IF i \in S THEN 0 ELSE delivery[i]]
  /\ token' = [token EXCEPT ![c] = Nothing]
  /\ UNCHANGED published

(* Consumers lose what they hold.                                          *)
Forget(C) ==
  /\ token' = [c \in Consumer |-> IF c \in C THEN Nothing ELSE token[c]]
  /\ UNCHANGED <<delivery, verdict, published>>

Next ==
  \/ \E c \in Consumer, S \in SUBSET Item : Deliver(c, S) \/ Settle(c, S)
  \/ \E c \in Consumer : Publish(c)
  \/ \E C \in SUBSET Consumer : Forget(C)
  \/ \E S \in SUBSET Item : Refuse(S)

Spec == Init /\ [][Next]_lqvars
=============================================================================
