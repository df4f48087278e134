------------------------------ MODULE Checkout ------------------------------
(***************************************************************************)
(* Checkout sessions and the payment intents they drive: a session is asked  *)
(* for and created, a payer confirms through it, the merchant or the sweep   *)
(* expires it, the intent is canceled, and the settlement of the charge      *)
(* closes the intent and the session in one transaction.                     *)
(*                                                                          *)
(* A charge is what the worker sees of it; how it gets there is Payment.     *)
(* `processing` stands for requires_action too. Clocks are not modelled: a   *)
(* session may pass its horizon at any time.                                 *)
(***************************************************************************)
EXTENDS Naturals, FiniteSets

CONSTANTS
  Intents,   \* the payment intents
  Sessions   \* the requests for a session, and with each the row it creates

VARIABLES
  intent,    \* payment_intents.status
  charge,    \* the charge of the intent, one for ever
  session,   \* the rows of checkout_sessions
  newest,    \* the newest session of each intent, what the confirm gate reads
  admitted,  \* the confirms that have read the session and the intent
  canceling  \* the cancels whose statement has taken its snapshot

checkout == <<intent, charge, session, newest, admitted, canceling>>

ASSUME ConstantsAssumption == "none" \notin Intents \cup Sessions

IntentStatus == {"none", "requires_payment_method", "processing", "succeeded", "canceled"}
ChargeState  == {"none", "live", "failed", "succeeded"}
Session == [of: Intents \cup {"none"}, status: {"none", "asked", "open", "complete", "expired"},
            paid: {"unpaid", "paid", "failed"}, late: BOOLEAN]
NoSession == [of |-> "none", status |-> "none", paid |-> "unpaid", late |-> FALSE]

CheckoutTypeOK ==
  /\ intent    \in [Intents -> IntentStatus]
  /\ charge    \in [Intents -> ChargeState]
  /\ session   \in [Sessions -> Session]
  /\ newest    \in [Intents -> Sessions \cup {"none"}]
  /\ admitted  \subseteq Intents
  /\ canceling \subseteq Intents

CheckoutInit ==
  /\ intent    = [i \in Intents |-> "none"]
  /\ charge    = [i \in Intents |-> "none"]
  /\ session   = [s \in Sessions |-> NoSession]
  /\ newest    = [i \in Intents |-> "none"]
  /\ admitted  = {}
  /\ canceling = {}

OpenSessions(i) == {s \in Sessions : session[s].of = i /\ session[s].status = "open"}
Settleable(i) == intent[i] \in {"requires_payment_method", "processing"}
Ended(x) == x.status \in {"complete", "expired"}

-----------------------------------------------------------------------------
(* The intent and its sessions.                                             *)

\* PaymentIntents::insert.
Mint(i) ==
  /\ intent[i] = "none"
  /\ intent' = [intent EXCEPT ![i] = "requires_payment_method"]
  /\ UNCHANGED <<charge, session, newest, admitted, canceling>>

\* prepare_create: what a session may drive, by reads that may be stale when the
\* row is written.
AskForSession(i, s) ==
  /\ session[s].status = "none"
  /\ intent[i] = "requires_payment_method" /\ charge[i] = "none"
  /\ OpenSessions(i) = {}
  /\ session' = [session EXCEPT ![s] = [NoSession EXCEPT !.of = i, !.status = "asked"]]
  /\ UNCHANGED <<intent, charge, newest, admitted, canceling>>

\* CheckoutSessions::create. The index on the open session of an intent refuses a
\* second one; the request is answered 409 and may be made again.
InsertSession(i, s) ==
  /\ IF OpenSessions(i) = {}
     THEN /\ session' = [session EXCEPT ![s] = [NoSession EXCEPT !.of = i, !.status = "open"]]
          /\ newest'  = [newest EXCEPT ![i] = s]
     ELSE /\ session' = [session EXCEPT ![s] = NoSession]
          /\ UNCHANGED newest
  /\ UNCHANGED <<intent, charge, admitted, canceling>>

CreateSession(s) ==
  /\ session[s].status = "asked"
  /\ InsertSession(session[s].of, s)

\* A pay request creates the session of the intent it has just minted.
CreateOwnSession(i, s) ==
  /\ session[s].status = "none"
  /\ InsertSession(i, s)

\* The 24 hours of a session are over.
PassHorizon(s) ==
  /\ session[s].status = "open" /\ ~session[s].late
  /\ session' = [session EXCEPT ![s].late = TRUE]
  /\ UNCHANGED <<intent, charge, newest, admitted, canceling>>

\* POST /v1/checkout/sessions/{id}/expire: open, and no payment under way.
Expire(s) ==
  /\ session[s].status = "open"
  /\ charge[session[s].of] # "live"
  /\ session' = [session EXCEPT ![s].status = "expired", ![s].late = FALSE]
  /\ UNCHANGED <<intent, charge, newest, admitted, canceling>>

\* Variant: the sweep leaves a session alone whose intent has any charge.
ExpireDueUncharged(s) ==
  /\ session[s].late
  /\ charge[session[s].of] = "none"
  /\ Expire(s)

\* The sweep: expire_due re-evaluates the whole guard of the page it was read from.
ExpireDue(s) ==
  /\ session[s].late
  /\ Expire(s)

-----------------------------------------------------------------------------
(* Confirm and cancel.                                                      *)

\* The session gate admits an intent without a session, or one whose newest session
\* is open and before its horizon; the intent must be confirmable.
AdmitConfirm(i) ==
  /\ i \notin admitted
  /\ intent[i] = "requires_payment_method" /\ charge[i] = "none"
  /\ \/ newest[i] = "none"
     \/ newest[i] # "none" /\ session[newest[i]].status = "open" /\ ~session[newest[i]].late
  /\ admitted' = admitted \cup {i}
  /\ UNCHANGED <<intent, charge, session, newest, canceling>>

\* open_charge: the index is all that is looked at again.
OpenCharge(i) ==
  /\ i \in admitted
  /\ admitted' = admitted \ {i}
  /\ charge' = [charge EXCEPT ![i] = IF @ = "none" THEN "live" ELSE @]
  /\ UNCHANGED <<intent, session, newest, canceling>>

\* The confirm moves the intent once the rail has answered; a crash may prevent it.
Advance(i) ==
  /\ charge[i] = "live" /\ intent[i] = "requires_payment_method"
  /\ intent' = [intent EXCEPT ![i] = "processing"]
  /\ UNCHANGED <<charge, session, newest, admitted, canceling>>

\* cancel_in_tx: the NOT EXISTS is evaluated on the snapshot of the statement ...
CancelSnapshot(i) ==
  /\ i \notin canceling
  /\ intent[i] = "requires_payment_method" /\ charge[i] # "live"
  /\ canceling' = canceling \cup {i}
  /\ UNCHANGED <<intent, charge, session, newest, admitted>>

\* ... and the status of the row again when it is locked.
CancelCommit(i) ==
  /\ i \in canceling
  /\ canceling' = canceling \ {i}
  /\ intent' = [intent EXCEPT ![i] = IF @ = "requires_payment_method" THEN "canceled" ELSE @]
  /\ UNCHANGED <<charge, session, newest, admitted>>

-----------------------------------------------------------------------------
(* The settlement. One of a charge whose intent was canceled matches no row  *)
(* and is rolled back; its job is parked.                                    *)

\* settle_for_intent.
FlipSession(i, status, paid) ==
  [s \in Sessions |-> IF s \in OpenSessions(i)
                      THEN [session[s] EXCEPT !.status = status, !.paid = paid, !.late = FALSE]
                      ELSE session[s]]

SettlePaid(i) ==
  /\ charge[i] = "live" /\ Settleable(i)
  /\ charge'  = [charge EXCEPT ![i] = "succeeded"]
  /\ intent'  = [intent EXCEPT ![i] = "succeeded"]
  /\ session' = FlipSession(i, "complete", "paid")
  /\ UNCHANGED <<newest, admitted, canceling>>

SettleFailed(i) ==
  /\ charge[i] = "live" /\ Settleable(i)
  /\ charge'  = [charge EXCEPT ![i] = "failed"]
  /\ intent'  = [intent EXCEPT ![i] = "requires_payment_method"]
  /\ session' = FlipSession(i, "expired", "failed")
  /\ UNCHANGED <<newest, admitted, canceling>>
=============================================================================
