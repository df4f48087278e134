------------------------------ MODULE Erasure ------------------------------
(***************************************************************************)
(* The erasure of a customer, asked for by the merchant or done by the sweep *)
(* of idle customers, against the requests that write the payer's data       *)
(* elsewhere: a customer update and an out-of-band payment, each with its    *)
(* event and the answer stored for a replay, and a session that writes the   *)
(* customer onto an intent.                                                 *)
(*                                                                          *)
(* One customer, and one intent that may be theirs. Every statement reads    *)
(* its own snapshot (READ COMMITTED); an erasure writes at its commit what    *)
(* its statements found, and nothing when it is rolled back. Of the row       *)
(* locks those of the customer and of the intent are modelled.               *)
(***************************************************************************)
EXTENDS Naturals, FiniteSets

CONSTANTS
  Updates,   \* POST /v1/customers/{id}
  Payments,  \* POST /v1/invoices/{id}/pay, out of band, with a reference
  Deletes,   \* DELETE /v1/customers/{id}
  Sweeps,    \* runs of the sweep of idle customers
  Creates,   \* POST /v1/checkout/sessions for the customer
  Rivals     \* the same for another customer

Requests == Updates \cup Payments
Erasers  == Deletes \cup Sweeps
Sessions == Creates \cup Rivals
Actors   == Requests \cup Erasers \cup Sessions

ASSUME ConstantsAssumption ==
  /\ "nobody" \notin Actors
  /\ Requests \cap Erasers = {} /\ Requests \cap Sessions = {} /\ Erasers \cap Sessions = {}
  /\ Updates \cap Payments = {} /\ Deletes \cap Sweeps = {} /\ Creates \cap Rivals = {}

VARIABLES
  row,        \* the row of customers
  used,       \* last_used_at is not before the horizon of the sweep
  billed,     \* an invoice names the customer
  event,      \* the requests whose event holds the payer's data
  answer,     \* the requests whose stored answer does
  reference,  \* the payments whose manual_payments.reference does
  payer,      \* payment_intents.customer_id
  named,      \* a checkout session of the intent names the customer
  charge,     \* charges.payer_ref and failure_raw
  note,       \* payment_intents.last_payment_error_* is set
  exclusive,  \* the transaction that has the customer FOR UPDATE
  sharing,    \* those that have it FOR SHARE
  held,       \* the transaction that has the intent locked
  pc,         \* where each transaction is
  erased,     \* what a transaction has read of the customer under its lock
  found,      \* the copies the statements of each erasure have found
  late        \* history: the charge was written after an erasure had looked

copies == <<event, answer, reference>>
intent == <<payer, named, charge, note>>
locks  == <<exclusive, sharing, held>>
vars == <<row, used, billed, copies, intent, locks, pc, erased, found, late>>

PC == {"idle", "paged", "locked", "branched", "events", "copied", "charged", "reached",
       "cleared", "written", "shared", "prepared", "holding", "claimed", "done"}

\* What the statements of an erasure have found to redact.
Found == [event: SUBSET Requests, answer: SUBSET Requests,
          charge: BOOLEAN, intent: BOOLEAN, note: BOOLEAN, gone: BOOLEAN]
Nothing == [event |-> {}, answer |-> {}, charge |-> FALSE,
            intent |-> FALSE, note |-> FALSE, gone |-> FALSE]

\* The foreign keys to customers included.
TypeOK ==
  /\ row  \in {"whole", "redacted", "gone"}
  /\ row = "gone" => ~billed /\ ~named /\ payer # "customer"
  /\ used \in BOOLEAN /\ billed \in BOOLEAN /\ late \in BOOLEAN
  /\ event \subseteq Requests /\ answer \subseteq Requests /\ reference \subseteq Payments
  /\ payer \in {"none", "customer", "other"}
  /\ named \in BOOLEAN /\ note \in BOOLEAN
  /\ charge \in {"none", "whole", "redacted"}
  /\ exclusive \in Actors \cup {"nobody"}
  /\ sharing \subseteq Actors
  /\ held   \in Actors \cup {"nobody"}
  /\ pc     \in [Actors -> PC]
  /\ erased \in [Actors -> BOOLEAN]
  /\ found  \in [Erasers -> Found]

\* The intent may be the customer's already; or it names nobody, and a session made
\* before ADR-0025 names the customer.
Init ==
  /\ row = "whole" /\ used = FALSE /\ billed \in BOOLEAN /\ late = FALSE
  /\ event = {} /\ answer = {} /\ reference = {}
  /\ payer \in {"none", "customer"}
  /\ named \in BOOLEAN
  /\ charge = "none" /\ note = FALSE
  /\ exclusive = "nobody" /\ sharing = {} /\ held = "nobody"
  /\ pc     = [a \in Actors |-> "idle"]
  /\ erased = [a \in Actors |-> FALSE]
  /\ found  = [e \in Erasers |-> Nothing]

Erased == row # "whole"
Go(a, to) == pc' = [pc EXCEPT ![a] = to]

\* SELECT ... FOR UPDATE, and FOR SHARE.
LockFree     == exclusive = "nobody" /\ sharing = {}
TakeUpdate(a) == LockFree /\ exclusive' = a /\ UNCHANGED <<sharing, held>>
TakeShare(a)  ==
  exclusive = "nobody" /\ sharing' = sharing \cup {a} /\ UNCHANGED <<exclusive, held>>
Release(a) ==
  /\ exclusive' = IF exclusive = a THEN "nobody" ELSE exclusive
  /\ sharing'   = sharing \ {a}
  /\ held'      = IF held = a THEN "nobody" ELSE held

-----------------------------------------------------------------------------
(* Requests that write the payer's data.                                    *)

\* resolve_for_attachment stamps the clock, with an UPDATE of its own that waits for
\* both locks.
Touch ==
  /\ LockFree /\ row = "whole" /\ ~used
  /\ used' = TRUE
  /\ UNCHANGED <<row, billed, copies, intent, locks, pc, erased, found, late>>

\* update_once locks the row and refuses an erased one.
LockForUpdate(u) ==
  /\ pc[u] = "idle"
  /\ IF row = "whole" THEN TakeUpdate(u) /\ Go(u, "locked")
                      ELSE LockFree /\ Go(u, "done") /\ UNCHANGED locks
  /\ UNCHANGED <<row, used, billed, copies, intent, erased, found, late>>

\* The row, the clock and customer.updated are one transaction.
CommitUpdate(u) ==
  /\ pc[u] = "locked"
  /\ used'  = TRUE
  /\ event' = event \cup {u}
  /\ Release(u)
  /\ Go(u, "written")
  /\ UNCHANGED <<row, billed, answer, reference, intent, erased, found, late>>

\* Variant: whether the customer is erased is read, and the row not locked.
ReadUnlocked(p) ==
  /\ erased' = [erased EXCEPT ![p] = Erased]
  /\ UNCHANGED locks

\* erased_under_share_lock.
ReadUnderShareLock(p) ==
  /\ TakeShare(p)
  /\ erased' = [erased EXCEPT ![p] = Erased]

\* pay_out_of_band_in_tx, its first statement.
BeginPayment(p) ==
  /\ pc[p] = "idle" /\ billed
  /\ ReadUnderShareLock(p)
  /\ Go(p, "locked")
  /\ UNCHANGED <<row, used, billed, copies, intent, found, late>>

\* A reference on an erased customer's invoice is refused.
CommitPayment(p) ==
  /\ pc[p] = "locked"
  /\ IF erased[p]
     THEN Go(p, "done") /\ UNCHANGED <<event, reference>>
     ELSE /\ Go(p, "written")
          /\ event'     = event \cup {p}
          /\ reference' = reference \cup {p}
  /\ Release(p)
  /\ UNCHANGED <<row, used, billed, answer, intent, erased, found, late>>

\* store, for an answer that quotes the payer: the lock, the answer, and the redaction
\* of it when the customer was erased meanwhile.
BeginStore(q) ==
  /\ pc[q] = "written"
  /\ ReadUnderShareLock(q)
  /\ Go(q, "shared")
  /\ UNCHANGED <<row, used, billed, copies, intent, found, late>>

CommitStore(q) ==
  /\ pc[q] = "shared"
  /\ answer' = IF erased[q] THEN answer ELSE answer \cup {q}
  /\ Release(q)
  /\ Go(q, "done")
  /\ UNCHANGED <<row, used, billed, event, reference, intent, erased, found, late>>

-----------------------------------------------------------------------------
(* Checkout sessions that name a customer.                                  *)

\* prepare_create: the customer is not erased, the intent has no charge.
Prepare(c) ==
  /\ pc[c] = "idle"
  /\ charge = "none" /\ (c \in Creates => row = "whole")
  /\ Go(c, "prepared")
  /\ UNCHANGED <<row, used, billed, copies, intent, locks, erased, found, late>>

\* Variant: the intent first and the customer second, the order before ADR-0027.
ClaimFirst(c) ==
  /\ \/ /\ pc[c] = "prepared" /\ held = "nobody"
        /\ held' = c
        /\ Go(c, "holding")
        /\ UNCHANGED <<exclusive, sharing, erased>>
     \/ /\ pc[c] = "holding" /\ c \in Creates \ sharing
        /\ ReadUnderShareLock(c)
        /\ Go(c, "shared")
  /\ UNCHANGED <<row, used, billed, copies, intent, found, late>>

\* CheckoutSessions::create: the customer first; a rival's is another row.
ShareCustomer(c) ==
  /\ pc[c] = "prepared"
  /\ IF c \in Creates THEN ReadUnderShareLock(c) ELSE UNCHANGED <<locks, erased>>
  /\ Go(c, "shared")
  /\ UNCHANGED <<row, used, billed, copies, intent, found, late>>

\* Variant: a session of an erased customer claims the intent as any other.
MayClaimErased(c) == payer = "none"

\* An intent without a customer takes the session's, unless that one is erased.
MayClaim(c) == payer = "none" /\ ~erased[c]

\* claim_intent_customer: claimed, or the session's already; else the request is refused.
Claim(c) ==
  /\ pc[c] = "shared" /\ held \in {c, "nobody"}
  /\ IF MayClaim(c)
     THEN held' = c /\ Go(c, "holding") /\ UNCHANGED <<exclusive, sharing>>
     ELSE IF payer = (IF c \in Creates THEN "customer" ELSE "other")
          THEN Go(c, "claimed") /\ UNCHANGED locks
          ELSE Release(c) /\ Go(c, "done")
  /\ UNCHANGED <<row, used, billed, copies, intent, erased, found, late>>

CommitSession(c) ==
  /\ pc[c] \in {"holding", "claimed"} /\ (c \in Creates => c \in sharing)
  /\ payer' = IF pc[c] = "claimed" THEN payer ELSE IF c \in Creates THEN "customer" ELSE "other"
  /\ named' = (named \/ c \in Creates)
  /\ Release(c)
  /\ Go(c, "done")
  /\ UNCHANGED <<row, used, billed, copies, charge, note, erased, found, late>>

\* A payer confirms, and the rail may refuse; nothing looks at the customer.
OpenCharge ==
  /\ charge = "none"
  /\ charge' = "whole"
  /\ late'   = (Erased \/ \E e \in Erasers : pc[e] \in {"charged", "reached", "cleared"})
  /\ UNCHANGED <<row, used, billed, copies, payer, named, note, locks, pc, erased, found>>

Decline ==
  /\ charge # "none" /\ ~note
  /\ held = "nobody"
  /\ note' = TRUE
  /\ UNCHANGED <<row, used, billed, copies, payer, named, charge, locks, pc, erased, found, late>>

-----------------------------------------------------------------------------
(* The erasure.                                                             *)

Erasing(e) ==
  pc[e] \in {"locked", "branched", "events", "copied", "charged", "reached", "cleared"}

\* delete_once locks the row; one that is erased, or gone, is left.
LockToDelete(e) ==
  /\ pc[e] = "idle"
  /\ IF row = "whole" THEN TakeUpdate(e) /\ Go(e, "locked")
                      ELSE LockFree /\ Go(e, "done") /\ UNCHANGED locks
  /\ UNCHANGED <<row, used, billed, copies, intent, erased, found, late>>

\* idle_since: the page of idle customers.
ReadIdle(e) ==
  /\ pc[e] = "idle"
  /\ row = "whole" /\ ~used
  /\ Go(e, "paged")
  /\ UNCHANGED <<row, used, billed, copies, intent, locks, erased, found, late>>

\* Variant: the page is trusted.
LockPaged(e) ==
  /\ pc[e] = "paged"
  /\ IF row = "whole" THEN TakeUpdate(e) /\ Go(e, "locked")
                      ELSE LockFree /\ Go(e, "done") /\ UNCHANGED locks
  /\ UNCHANGED <<row, used, billed, copies, intent, erased, found, late>>

\* erase_idle re-evaluates idle_since under the lock.
LockIdle(e) ==
  /\ pc[e] = "paged"
  /\ IF row = "whole" /\ ~used THEN TakeUpdate(e) /\ Go(e, "locked")
                               ELSE LockFree /\ Go(e, "done") /\ UNCHANGED locks
  /\ UNCHANGED <<row, used, billed, copies, intent, erased, found, late>>

Note(e, field, value) == found' = [found EXCEPT ![e][field] = value]
Step(e, from, to) == pc[e] = from /\ Go(e, to)
Quiet == UNCHANGED <<row, used, billed, copies, intent, locks, erased, late>>

\* UNREFERENCED: a customer with history is anonymized, one without is deleted.
Branch(e) ==
  /\ Step(e, "locked", "branched")
  /\ Note(e, "gone", payer # "customer" /\ ~named /\ ~billed)
  /\ Quiet

\* The customer.* events ...
FindEvents(e) ==
  /\ Step(e, "branched", "events")
  /\ found' = [found EXCEPT ![e].event = event \cap Updates]
  /\ Quiet

\* ... and the stored answers that carry a customer.
FindAnswers(e) ==
  /\ Step(e, "events", "copied")
  /\ found' = [found EXCEPT ![e].answer = answer \cap Updates]
  /\ Quiet

\* PAYERS_INTENTS: the customer's intents, and those of nobody that a session of the
\* customer reaches.
Reached == payer = "customer" \/ (named /\ payer = "none")

FindCharges(e) ==
  /\ Step(e, "copied", "charged")
  /\ Note(e, "charge", Reached /\ charge # "none")
  /\ Quiet

\* The statement on payment_intents finds the intent by its snapshot ...
ReachIntent(e) ==
  /\ Step(e, "charged", "reached")
  /\ Note(e, "intent", Reached)
  /\ Quiet

\* Variant: the row is not compared again once it is locked.
StillReached == TRUE

\* The guard repeated on the row that is written.
StillTheirs == payer \in {"none", "customer"}

\* ... waits for it, and compares it again.
ClearIntent(e) ==
  /\ Step(e, "reached", "cleared")
  /\ IF found[e].intent
     THEN /\ held = "nobody"
          /\ held' = IF StillTheirs THEN e ELSE held
          /\ Note(e, "note", StillTheirs)
     ELSE UNCHANGED <<held, found>>
  /\ UNCHANGED <<row, used, billed, copies, intent, exclusive, sharing, erased, late>>

\* The references of out-of-band payments, in their row, event and answer; and the
\* transaction commits.  The last statements are one action with the commit: whoever writes
\* a reference, or an answer that has one, waits for the row of the customer, which is held.
CommitErasure(e) ==
  /\ Step(e, "cleared", "done")
  /\ row'       = IF found[e].gone THEN "gone" ELSE "redacted"
  /\ event'     = (event \ found[e].event) \ Payments
  /\ answer'    = (answer \ found[e].answer) \ Payments
  /\ reference' = {}
  /\ charge'    = IF found[e].charge THEN "redacted" ELSE charge
  /\ note'      = (note /\ ~found[e].note)
  /\ Release(e)
  /\ found' = [found EXCEPT ![e] = Nothing]
  /\ UNCHANGED <<used, billed, payer, named, erased, late>>

\* The connection is lost.
Lose(e) ==
  /\ Erasing(e)
  /\ Release(e)
  /\ found' = [found EXCEPT ![e] = Nothing]
  /\ Go(e, "done")
  /\ UNCHANGED <<row, used, billed, copies, intent, erased, late>>

-----------------------------------------------------------------------------
EraserNext(e) ==
  \/ Branch(e) \/ FindEvents(e) \/ FindAnswers(e) \/ FindCharges(e)
  \/ ReachIntent(e) \/ ClearIntent(e) \/ CommitErasure(e)

SessionNext(c) == ShareCustomer(c) \/ Claim(c) \/ CommitSession(c)

StoreNext(q) == BeginStore(q) \/ CommitStore(q)

Next ==
  \/ Touch \/ OpenCharge \/ Decline
  \/ \E u \in Updates : LockForUpdate(u) \/ CommitUpdate(u)
  \/ \E p \in Payments : BeginPayment(p) \/ CommitPayment(p)
  \/ \E q \in Requests : StoreNext(q)
  \/ \E c \in Sessions : Prepare(c) \/ SessionNext(c)
  \/ \E d \in Deletes : LockToDelete(d)
  \/ \E s \in Sweeps : ReadIdle(s) \/ LockIdle(s)
  \/ \E e \in Erasers : EraserNext(e) \/ Lose(e)

Spec == Init /\ [][Next]_vars

\* A transaction that has begun takes its next statement when nobody is in its way.
Fairness ==
  /\ \A e \in Erasers : WF_vars(EraserNext(e))
  /\ \A c \in Sessions : WF_vars(SessionNext(c))
  /\ \A q \in Requests : WF_vars(CommitStore(q))
  /\ \A u \in Updates : WF_vars(CommitUpdate(u))
  /\ \A p \in Payments : WF_vars(CommitPayment(p))

FairSpec == Spec /\ Fairness

-----------------------------------------------------------------------------
(* Properties.                                                              *)

\* Once an erasure has committed, no event, stored answer or reference holds the
\* payer's data, and no charge of an intent it reached does, except one that was
\* written after it had looked: no request writes one late.
NothingLeft ==
  Erased =>
    /\ event = {} /\ answer = {} /\ reference = {}
    /\ Reached /\ charge = "whole" => late

\* The sweep erases nobody who was used since its horizon, however old its page.
IdleIsSpared == \A s \in Sweeps : Erasing(s) => ~used

\* An erasure that reaches an intent through an old session leaves the decline of one
\* that was claimed for another customer meanwhile.
OthersAreSpared == [][payer = "other" /\ note => note']_vars

\* A session created while its customer is erased does not write the erased customer
\* onto an intent, whose later charges no erasure would visit.
ErasedIsNotClaimed == [][Erased /\ payer # "customer" => payer' # "customer"]_vars

\* An erasure that has its lock ends: it waits for an intent only while a session that
\* waits for nothing is being created.
ErasureEnds == \A e \in Erasers : Erasing(e) ~> ~Erasing(e)
=============================================================================
