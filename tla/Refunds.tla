------------------------------ MODULE Refunds ------------------------------
(***************************************************************************)
(* The refunds of one captured payment intent: the create route of vpay-   *)
(* api, whose reservation, attempt row, call and answer are steps of their *)
(* own; the merchant's cancel; the writes that settle a refund,            *)
(* for a caller that knows what the rail did; and the rail.                *)
(*                                                                          *)
(* A refund is named before it is written, so a request that creates one   *)
(* and the refund it creates are the same member of Refunds.  The          *)
(* Idempotency-Key of a request is Idempotency's matter: two requests are  *)
(* two here, whatever their keys.  Metadata, fees and events are left out: *)
(* each event is in the transaction that writes the row.                   *)
(***************************************************************************)
EXTENDS Integers, FiniteSetsExt

CONSTANTS
  Refunds,   \* creates, and the refunds they write
  Captured,  \* amount_received of the intent
  Partials   \* does the rail refund less than the whole?

ASSUME ConstantsAssumption ==
  /\ Captured \in Nat \ {0}
  /\ Partials \in BOOLEAN

VARIABLES
  intent,   \* amount_refunded and amount_refund_pending
  refund,   \* the rows of refunds
  attempt,  \* refunds with a row in provider_requests
  create,   \* the requests; `late` if 60 s passed before the attempt row
  rail,     \* what the rail did
  books     \* merchant_payable, and amount_refunded of the invoice it paid

vars == <<intent, refund, attempt, create, rail, books>>

Status   == {"none", "pending", "succeeded", "failed", "canceled"}
CreatePC == {"start", "resolved", "written", "recorded", "answered", "failing", "over"}
Amounts  == 1..Captured

TypeOK ==
  /\ intent  \in [refunded: 0..Captured, pending: 0..Captured]
  /\ intent.refunded + intent.pending <= Captured    \* no_over_refund
  /\ refund  \in [Refunds -> [status: Status, amount: 0..Captured, old: BOOLEAN]]
  /\ attempt \subseteq Refunds
  /\ create  \in [Refunds -> [pc: CreatePC, amount: Int, late: BOOLEAN]]
  /\ rail    \in [Refunds -> {"none", "sent", "moved", "refused"}]
  /\ books   \in [payable: 0..Captured, credited: 0..Captured]

Init ==
  /\ intent  = [refunded |-> 0, pending |-> 0]
  /\ refund  = [r \in Refunds |-> [status |-> "none", amount |-> 0, old |-> FALSE]]
  /\ attempt = {}
  /\ create  = [r \in Refunds |-> [pc |-> "start", amount |-> 0, late |-> FALSE]]
  /\ rail    = [r \in Refunds |-> "none"]
  /\ books   = [payable |-> Captured, credited |-> 0]

At(r, pc) == create[r].pc = pc
Goes(r, pc) == create' = [create EXCEPT ![r].pc = pc]
Becomes(r, status) == refund' = [refund EXCEPT ![r].status = status]

(***************************************************************************)
(* The create route.                                                       *)
(***************************************************************************)
Remaining == Captured - intent.refunded - intent.pending

(* resolve_amount: the amount sent, or what is left; not yet against what  *)
(* is left when it is written.                                             *)
Resolvable(amount) == amount > 0 /\ (Partials \/ amount = Captured)

Resolve(r) ==
  /\ At(r, "start")
  /\ \E amount \in Amounts \cup {Remaining} :
       /\ Resolvable(amount)
       /\ create' = [create EXCEPT ![r].pc = "resolved", ![r].amount = amount]
  /\ UNCHANGED <<intent, refund, attempt, rail, books>>

Refuse(r) ==
  /\ At(r, "start")
  /\ Goes(r, "over")
  /\ UNCHANGED <<intent, refund, attempt, rail, books>>

(* no_over_refund is checked on the row as it is when it is updated. *)
AsItWasRead(amount) == TRUE
Fits(amount) == intent.refunded + intent.pending + amount <= Captured

(* write_pending_refund: reservation, row and event in one transaction. *)
Write(r) ==
  /\ At(r, "resolved")
  /\ Fits(create[r].amount)
  /\ intent' = [intent EXCEPT !.pending = @ + create[r].amount]
  /\ refund' = [refund EXCEPT ![r].status = "pending", ![r].amount = create[r].amount]
  /\ Goes(r, "written")
  /\ UNCHANGED <<attempt, rail, books>>

OverRefund(r) ==
  /\ At(r, "resolved")
  /\ ~Fits(create[r].amount)
  /\ Goes(r, "over")
  /\ UNCHANGED <<intent, refund, attempt, rail, books>>

(* insert_pending, a statement of its own that does not look at the refund. *)
RecordAttempt(r) ==
  /\ At(r, "written")
  /\ attempt' = attempt \cup {r}
  /\ Goes(r, "recorded")
  /\ UNCHANGED <<intent, refund, rail, books>>

(* refund_at_rail.  An acceptance, and an answer that is lost or cannot be *)
(* read, leave the transfer to the rail; a refusal says that there is none. *)
Call(r) ==
  /\ At(r, "recorded")
  /\ \/ /\ rail' = [rail EXCEPT ![r] = "sent"]
        /\ Goes(r, "answered")
     \/ /\ rail' = [rail EXCEPT ![r] = "refused"]
        /\ Goes(r, "failing")
  /\ UNCHANGED <<intent, refund, attempt, books>>

(* finish_refund: an acceptance and an unknown outcome leave it pending. *)
Finish(r) ==
  /\ At(r, "answered")
  /\ Goes(r, "over")
  /\ UNCHANGED <<intent, refund, attempt, rail, books>>

(* release_refund_in_tx, in the transaction that ends the refund. *)
Releases(r) ==
  /\ intent.pending >= refund[r].amount
  /\ intent' = [intent EXCEPT !.pending = @ - refund[r].amount]

Pending(r) == refund[r].status = "pending"

(* fail_with_event, whose transaction is abandoned when the refund is no   *)
(* longer pending.                                                         *)
FailForgetsReservation(r) ==
  /\ At(r, "failing")
  /\ Pending(r)
  /\ Becomes(r, "failed")
  /\ Goes(r, "over")
  /\ UNCHANGED <<intent, attempt, rail, books>>

Fail(r) ==
  /\ At(r, "failing")
  /\ Pending(r)
  /\ Releases(r)
  /\ Becomes(r, "failed")
  /\ Goes(r, "over")
  /\ UNCHANGED <<attempt, rail, books>>

FailNothing(r) ==
  /\ At(r, "failing")
  /\ ~Pending(r)
  /\ Goes(r, "over")
  /\ UNCHANGED <<intent, refund, attempt, rail, books>>

(* The process dies, the connection closes, or a statement fails. *)
Vanish(r) ==
  /\ create[r].pc \notin {"start", "over"}
  /\ Goes(r, "over")
  /\ UNCHANGED <<intent, refund, attempt, rail, books>>

(***************************************************************************)
(* The merchant's other routes.                                            *)
(***************************************************************************)
(* 60 s pass since the row was written. *)
Age(r) ==
  /\ Pending(r)
  /\ ~refund[r].old
  /\ refund' = [refund EXCEPT ![r].old = TRUE]
  /\ create' = [create EXCEPT ![r].late = At(r, "written")]
  /\ UNCHANGED <<intent, attempt, rail, books>>

CancelableYoung(r) == Pending(r) /\ r \notin attempt
CancelableFresh(r) == Pending(r) /\ r \notin attempt /\ ~refund[r].old
Cancelable(r) == Pending(r) /\ r \notin attempt /\ refund[r].old

Cancel(r) ==
  /\ Cancelable(r)
  /\ Releases(r)
  /\ Becomes(r, "canceled")
  /\ UNCHANGED <<attempt, create, rail, books>>

(***************************************************************************)
(* The rail, and the caller that reports it.  No code of the repository    *)
(* calls the two transactions below; they are what a poll would call.      *)
(***************************************************************************)
RailEnds(r) ==
  /\ rail[r] = "sent"
  /\ \E end \in {"moved", "refused"} : rail' = [rail EXCEPT ![r] = end]
  /\ UNCHANGED <<intent, refund, attempt, create, books>>

Settleable(r) == Pending(r)

(* apply_refund_succeeded: row, intent, invoice and ledger, and no event. *)
SettleSucceeded(r) ==
  /\ rail[r] = "moved"
  /\ Settleable(r)
  /\ intent.pending >= refund[r].amount
  /\ Becomes(r, "succeeded")
  /\ intent' = [refunded |-> intent.refunded + refund[r].amount,
                pending |-> intent.pending - refund[r].amount]
  /\ books'  = [payable |-> books.payable - refund[r].amount,
                credited |-> books.credited + refund[r].amount]
  /\ UNCHANGED <<attempt, create, rail>>

(* apply_refund_failed. *)
SettleFailed(r) ==
  /\ rail[r] = "refused"
  /\ Settleable(r)
  /\ Releases(r)
  /\ Becomes(r, "failed")
  /\ UNCHANGED <<attempt, create, rail, books>>

Next ==
  \E r \in Refunds :
    \/ Resolve(r) \/ Refuse(r) \/ Write(r) \/ OverRefund(r) \/ RecordAttempt(r)
    \/ Call(r) \/ Finish(r) \/ Fail(r) \/ FailNothing(r) \/ Vanish(r)
    \/ Age(r) \/ Cancel(r)
    \/ RailEnds(r) \/ SettleSucceeded(r) \/ SettleFailed(r)

Spec == Init /\ [][Next]_vars

(* Time passes and the merchant cancels what can be canceled. *)
FairSpec == Spec /\ \A r \in Refunds : WF_vars(Age(r)) /\ WF_vars(Cancel(r))

(***************************************************************************)
(* Properties.                                                             *)
(***************************************************************************)
Total(S) == MapThenSumSet(LAMBDA r : refund[r].amount, S)
Those(status) == {r \in Refunds : refund[r].status = status}

(* The intent's two counters, the invoice's and the ledger's are the sums  *)
(* of the refunds they count, whoever else was at work on the intent: a    *)
(* reservation is neither lost nor given back twice, and the guard of a    *)
(* release never refuses one.                                              *)
BooksAgree ==
  /\ intent.pending  = Total(Those("pending"))
  /\ intent.refunded = Total(Those("succeeded"))
  /\ books.credited  = intent.refunded
  /\ books.payable   = Captured - intent.refunded

(* The rail was never given more to return than was captured, but for a    *)
(* create that a cancel could take for dead.                               *)
Taken == {r \in Refunds : rail[r] \in {"sent", "moved"} /\ ~create[r].late}
NeverMoreThanCaptured == Total(Taken) <= Captured

(* A refund that is canceled or failed is a promise that no money moves:   *)
(* the rail has not taken it and nobody will ask it again; unless the      *)
(* create that a cancel took for dead was only late.                       *)
PromiseKept ==
  \A r \in Refunds : refund[r].status \in {"canceled", "failed"} /\ ~create[r].late =>
    rail[r] \in {"none", "refused"} /\ ~At(r, "written") /\ ~At(r, "recorded")

(* A refund ends once: a cancel, a failure and a settlement that race do   *)
(* not undo each other.                                                    *)
EndedForGood ==
  [][\A r \in Refunds : refund[r].status \notin {"none", "pending"} =>
       refund'[r].status = refund[r].status]_vars

(* A reservation whose request died before the rail could be asked is      *)
(* given back once the merchant cancels: crash between two commits.        *)
NeverAsked(r) == Pending(r) /\ r \notin attempt /\ At(r, "over")
NeverAskedIsReleased == \A r \in Refunds : NeverAsked(r) ~> refund[r].status = "canceled"
=============================================================================
