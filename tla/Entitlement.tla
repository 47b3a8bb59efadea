----------------------------- MODULE Entitlement -----------------------------
(***************************************************************************)
(* What selling premium promises, without databases, sessions or messages. *)
(* A purchase moves from an invoice to a payment to a refund, and the paid *)
(* period it bought opens in the very step that records the payment, ends  *)
(* at the latest in the step that records the refund, and never reopens.   *)
(***************************************************************************)
CONSTANT Txns       \* purchases

VARIABLES
  stage,            \* stage[x]: how far the purchase x has come
  access            \* access[x]: the paid period that x bought

vars == <<stage, access>>

Stages == {"none", "pending", "paid", "refunded"}

Periods == {"none", "open", "ended"}

TypeOK ==
  /\ stage \in [Txns -> Stages]
  /\ access \in [Txns -> Periods]

Init ==
  /\ stage = [x \in Txns |-> "none"]
  /\ access = [x \in Txns |-> "none"]

\* The open periods in S are ended early.
Ended(S) ==
  [x \in Txns |-> IF x \in S /\ access[x] = "open" THEN "ended" ELSE access[x]]

\* A pending transaction is recorded.
Invoice(x) ==
  /\ stage[x] = "none"
  /\ stage' = [stage EXCEPT ![x] = "pending"]
  /\ UNCHANGED access

\* A payment is recorded and opens its period; periods in S are forfeited.
Settle(x, S) ==
  /\ stage[x] = "pending"
  /\ access[x] = "none"
  /\ stage' = [stage EXCEPT ![x] = "paid"]
  /\ access' = [Ended(S) EXCEPT ![x] = "open"]

\* A refund is recorded, and the period it bought is over with it.
Refund(x) ==
  /\ stage[x] = "paid"
  /\ access[x] # "none"
  /\ stage' = [stage EXCEPT ![x] = "refunded"]
  /\ access' = [access EXCEPT ![x] = "ended"]

\* Periods are ended by an administrator.
End(S) ==
  /\ access' = Ended(S)
  /\ UNCHANGED stage

Next ==
  \/ \E x \in Txns : Invoice(x) \/ Refund(x)
  \/ \E x \in Txns, S \in SUBSET Txns : Settle(x, S)
  \/ \E S \in SUBSET Txns : End(S)

Spec == Init /\ [][Next]_vars

=============================================================================
