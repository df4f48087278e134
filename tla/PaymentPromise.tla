--------------------------- MODULE PaymentPromise ---------------------------
(* What a merchant may rely on, with no charge, job, request or process in   *)
(* sight: a payment is open until it is paid, has failed or is withdrawn;    *)
(* money moves at the rail on its own and is recorded once; and every ending *)
(* is told once, in the step that makes it so.                               *)
EXTENDS Naturals

CONSTANTS Intents   \* payment intents

VARIABLES
  outcome,   \* what GET /v1/payment_intents/{id} would answer, in the end
  money,     \* the payer's money is with the rail
  ledger,    \* captures posted for the payment
  told       \* the events the merchant is owed

promised == <<outcome, money, ledger, told>>

Outcome == {"open", "paid", "failed", "withdrawn"}

Init ==
  /\ outcome = [i \in Intents |-> "open"]
  /\ money   = [i \in Intents |-> FALSE]
  /\ ledger  = [i \in Intents |-> 0]
  /\ told    = [i \in Intents |-> {}]

Tell(i, e) == told' = [told EXCEPT ![i] = @ \cup {e}]

\* The payer pays: never once the payment has failed.
Pays(i) ==
  /\ outcome[i] \in {"open", "withdrawn"}
  /\ ~money[i]
  /\ money' = [money EXCEPT ![i] = TRUE]
  /\ UNCHANGED <<outcome, ledger, told>>

\* The money is recorded: the outcome, the capture and the event in one step.
Records(i) ==
  /\ outcome[i] = "open"
  /\ money[i]
  /\ outcome' = [outcome EXCEPT ![i] = "paid"]
  /\ ledger' = [ledger EXCEPT ![i] = @ + 1]
  /\ Tell(i, "succeeded")
  /\ UNCHANGED money

\* The payment fails, which it cannot while the rail has the money.
Fails(i) ==
  /\ outcome[i] = "open"
  /\ ~money[i]
  /\ outcome' = [outcome EXCEPT ![i] = "failed"]
  /\ Tell(i, "payment_failed")
  /\ UNCHANGED <<money, ledger>>

\* The merchant withdraws it, before it is paid or after it has failed.
Withdraws(i) ==
  /\ outcome[i] \in {"open", "failed"}
  /\ outcome' = [outcome EXCEPT ![i] = "withdrawn"]
  /\ Tell(i, "canceled")
  /\ UNCHANGED <<money, ledger>>

Next == \E i \in Intents : Pays(i) \/ Records(i) \/ Fails(i) \/ Withdraws(i)

Spec == Init /\ [][Next]_promised
=============================================================================
