------------------------------ MODULE Invoices ------------------------------
(***************************************************************************)
(* One invoice of a merchant, from the draft to its end: its lines and their *)
(* sum, the number it takes when it is finalized, the requests that pay it,  *)
(* and the ways to close it. Paying goes through Checkout; the settlement of *)
(* the intent marks the invoice paid in the same transaction.                *)
(*                                                                          *)
(* Every statement reads its own snapshot (READ COMMITTED): one that waits   *)
(* for a row re-evaluates its condition on that row and keeps what else it   *)
(* has read. A line is written by one request at a time, which holds it.     *)
(***************************************************************************)
EXTENDS Checkout

CONSTANTS
  Lines,       \* the lines of the invoice
  Prices,      \* the amounts of a line
  Finalizers,  \* requests to finalize the invoice
  MaxNumber    \* bound on the numbers the merchant gives out

VARIABLES
  status,    \* invoices.status, or "none" and "deleted"
  due,       \* invoices.amount_due, as the lines it was summed from
  paying,    \* invoices.payment_intent_id
  number,    \* invoices.number, 0 for NULL
  oob,       \* invoices.paid_out_of_band
  line,      \* the committed amount of each line, 0 where there is none
  edit,      \* the transaction that writes each line
  fin,       \* the finalize requests
  next,      \* invoice_number_sequences.next_number
  holder,    \* the transaction that has the sequence locked
  given,     \* history: how many documents carry each number
  pay,       \* the pay request that mints each intent
  writeoff,  \* the request to write the invoice off
  carries    \* what the settlement of each intent has read: an invoice, or none

document == <<status, due, paying, number, oob>>
numbers  == <<next, holder, given>>
vars == <<checkout, document, numbers, line, edit, fin, pay, writeoff, carries>>

ASSUME InvoiceAssumption ==
  /\ 0 \notin Prices /\ MaxNumber \in Nat
  /\ Finalizers \cap {"nobody", "another invoice"} = {}

Bill   == [Lines -> Prices \cup {0}]
NoBill == [l \in Lines |-> 0]
Issued == {"open", "paid", "void", "uncollectible"}
Edit   == [pc: {"idle", "written", "summed"}, amount: Prices \cup {0}, total: Bill]
Fin    == [pc: {"idle", "read", "took", "summed"}, number: 0..MaxNumber, total: Bill]

TypeOK ==
  /\ CheckoutTypeOK
  /\ status \in {"none", "deleted", "draft"} \cup Issued
  /\ due    \in Bill
  /\ paying \in Intents \cup {"none"}
  /\ number \in 0..MaxNumber
  /\ oob    \in BOOLEAN
  /\ line   \in Bill
  /\ edit   \in [Lines -> Edit]
  /\ fin    \in [Finalizers -> Fin]
  /\ next   \in 1..(MaxNumber + 1)
  /\ holder \in Finalizers \cup {"nobody", "another invoice"}
  /\ given  \in [1..MaxNumber -> Nat]
  /\ pay    \in [Intents -> {"idle", "checked", "minted", "linked", "attached", "refused"}]
  /\ writeoff \in {"idle", "checked"}
  /\ carries  \in [Intents -> {"unread", "nothing", "invoice"}]

NoEdit == [pc |-> "idle", amount |-> 0, total |-> NoBill]
NoFin  == [pc |-> "idle", number |-> 0, total |-> NoBill]

Init ==
  /\ CheckoutInit
  /\ status = "none" /\ due = NoBill /\ paying = "none" /\ number = 0 /\ oob = FALSE
  /\ line = NoBill
  /\ edit = [l \in Lines |-> NoEdit]
  /\ fin  = [f \in Finalizers |-> NoFin]
  /\ next = 1 /\ holder = "nobody"
  /\ given = [n \in 1..MaxNumber |-> 0]
  /\ pay = [i \in Intents |-> "idle"]
  /\ writeoff = "idle"
  /\ carries = [i \in Intents |-> "unread"]

\* NO_LIVE_INTENT: nobody is paying the invoice right now.
NoLiveIntent == paying = "none" \/ (paying # "none" /\ intent[paying] = "canceled")

-----------------------------------------------------------------------------
(* The draft and its lines.                                                 *)

CreateDraft ==
  /\ status = "none"
  /\ status' = "draft"
  /\ UNCHANGED <<checkout, due, paying, number, oob, numbers, line, edit, fin, pay, writeoff, carries>>

\* The lines go with it; the statement waits for those being written.
DeleteDraft ==
  /\ status = "draft"
  /\ \A l \in Lines : edit[l].pc = "idle"
  /\ status' = "deleted"
  /\ line' = NoBill
  /\ UNCHANGED <<checkout, due, paying, number, oob, numbers, edit, fin, pay, writeoff, carries>>

\* The first statement of add_item, update_item and delete_item: the line, while
\* its invoice is a draft. It is not committed yet.
WriteLine(l, amount) ==
  /\ edit[l].pc = "idle"
  /\ status = "draft"
  /\ amount # line[l]
  /\ edit' = [edit EXCEPT ![l] = [pc |-> "written", amount |-> amount, total |-> NoBill]]
  /\ UNCHANGED <<checkout, document, numbers, line, fin, pay, writeoff, carries>>

\* resum_draft sums what its statement sees: the committed lines and its own ...
SumDraft(l) ==
  /\ edit[l].pc = "written"
  /\ edit' = [edit EXCEPT ![l].pc = "summed", ![l].total = [line EXCEPT ![l] = edit[l].amount]]
  /\ UNCHANGED <<checkout, document, numbers, line, fin, pay, writeoff, carries>>

\* Variant: the sum is written whatever has become of the invoice.
CommitLineAndSum(l) ==
  /\ edit[l].pc = "summed"
  /\ line' = [line EXCEPT ![l] = edit[l].amount]
  /\ due'  = edit[l].total
  /\ edit' = [edit EXCEPT ![l] = NoEdit]
  /\ UNCHANGED <<checkout, status, paying, number, oob, numbers, fin, pay, writeoff, carries>>

\* ... and writes it if the invoice is a draft still. The line is committed either way.
CommitLine(l) ==
  /\ edit[l].pc = "summed"
  /\ line' = [line EXCEPT ![l] = edit[l].amount]
  /\ due'  = IF status = "draft" THEN edit[l].total ELSE due
  /\ edit' = [edit EXCEPT ![l] = NoEdit]
  /\ UNCHANGED <<checkout, status, paying, number, oob, numbers, fin, pay, writeoff, carries>>

-----------------------------------------------------------------------------
(* Finalize.                                                                *)

\* transition_once: a draft without a line is refused.  An invoice that is no draft any
\* more goes on to take a number and give it back: to the sequence that is a finalize of
\* another invoice that is abandoned (TakeElsewhere, EndElsewhere), and to the invoice
\* nothing, so such a request is not followed.
ReadDraft(f) ==
  /\ fin[f].pc = "idle"
  /\ status = "draft" /\ line # NoBill
  /\ fin' = [fin EXCEPT ![f] = [NoFin EXCEPT !.pc = "read"]]
  /\ UNCHANGED <<checkout, document, numbers, line, edit, pay, writeoff, carries>>

\* next_number_in_tx: the row of the sequence is locked until the transaction ends.
Take(who) ==
  /\ holder = "nobody" /\ next <= MaxNumber
  /\ holder' = who
  /\ next' = next + 1

\* Variant: the number comes from a SEQUENCE, which a rollback does not return.
BurnNumber ==
  /\ holder' = "nobody"
  /\ UNCHANGED <<next, given>>

\* The transaction rolls back, and the row of the sequence with it.
ReturnNumber ==
  /\ holder' = "nobody"
  /\ next' = next - 1
  /\ UNCHANGED given

GiveNumber(n) ==
  /\ holder' = "nobody"
  /\ given' = [given EXCEPT ![n] = @ + 1]
  /\ UNCHANGED next

TakeNumber(f) ==
  /\ fin[f].pc = "read"
  /\ Take(f)
  /\ fin' = [fin EXCEPT ![f] = [pc |-> "took", number |-> next, total |-> NoBill]]
  /\ UNCHANGED <<checkout, document, given, line, edit, pay, writeoff, carries>>

\* The UPDATE of finalize_in_tx sums the lines its snapshot shows ...
SumLines(f) ==
  /\ fin[f].pc = "took"
  /\ fin' = [fin EXCEPT ![f] = [@ EXCEPT !.pc = "summed", !.total = line]]
  /\ UNCHANGED <<checkout, document, numbers, line, edit, pay, writeoff, carries>>

\* ... and opens the invoice if it is a draft still; else all is abandoned.
CommitFinalize(f) ==
  /\ fin[f].pc = "summed"
  /\ \/ /\ status = "draft"
        /\ status' = "open"
        /\ due'    = fin[f].total
        /\ number' = fin[f].number
        /\ GiveNumber(fin[f].number)
     \/ /\ status # "draft"
        /\ ReturnNumber
        /\ UNCHANGED <<status, due, number>>
  /\ fin' = [fin EXCEPT ![f] = NoFin]
  /\ UNCHANGED <<checkout, paying, oob, line, edit, pay, writeoff, carries>>

\* The connection is lost before the commit.
LoseFinalize(f) ==
  /\ fin[f].pc \in {"took", "summed"}
  /\ ReturnNumber
  /\ fin' = [fin EXCEPT ![f] = NoFin]
  /\ UNCHANGED <<checkout, document, line, edit, pay, writeoff, carries>>

\* Another invoice of the merchant is finalized, or its finalize is abandoned. The
\* bound leaves a number for this one.
TakeElsewhere ==
  /\ next < MaxNumber
  /\ Take("another invoice")
  /\ UNCHANGED <<checkout, document, given, line, edit, fin, pay, writeoff, carries>>

EndElsewhere ==
  /\ holder = "another invoice"
  /\ GiveNumber(next - 1) \/ ReturnNumber
  /\ UNCHANGED <<checkout, document, line, edit, fin, pay, writeoff, carries>>

-----------------------------------------------------------------------------
(* Paying through a hosted checkout: three transactions. A request that      *)
(* crashes between two of them is one that takes no further step; it leaves  *)
(* an intent that pays nothing.                                              *)

Pay(i, from, to) == pay[i] = from /\ pay' = [pay EXCEPT ![i] = to]

\* pay_hosted_once: the invoice is open, nobody is paying it and it is owed something.
CheckPayable(i) ==
  /\ Pay(i, "idle", "checked")
  /\ status = "open" /\ NoLiveIntent /\ due # NoBill
  /\ UNCHANGED <<checkout, document, numbers, line, edit, fin, writeoff, carries>>

MintIntent(i) ==
  /\ Pay(i, "checked", "minted")
  /\ Mint(i)
  /\ UNCHANGED <<document, numbers, line, edit, fin, writeoff, carries>>

CreatePaySession(i, s) ==
  /\ Pay(i, "minted", "linked")
  /\ CreateOwnSession(i, s)
  /\ UNCHANGED <<document, numbers, line, edit, fin, writeoff, carries>>

\* Variant: the read of the request stands for the condition of the statement.
AttachUnguarded(i) ==
  /\ pay[i] = "linked"
  /\ \/ /\ status = "open"
        /\ paying' = i
        /\ pay' = [pay EXCEPT ![i] = "attached"]
     \/ /\ status # "open"
        /\ pay' = [pay EXCEPT ![i] = "refused"]
        /\ UNCHANGED paying
  /\ UNCHANGED <<checkout, status, due, number, oob, numbers, line, edit, fin, writeoff, carries>>

\* attach_intent: only now is the link handed out.
AttachIntent(i) ==
  /\ pay[i] = "linked"
  /\ \/ /\ status = "open" /\ NoLiveIntent
        /\ paying' = i
        /\ pay' = [pay EXCEPT ![i] = "attached"]
     \/ /\ ~(status = "open" /\ NoLiveIntent)
        /\ pay' = [pay EXCEPT ![i] = "refused"]
        /\ UNCHANGED paying
  /\ UNCHANGED <<checkout, status, due, number, oob, numbers, line, edit, fin, writeoff, carries>>

-----------------------------------------------------------------------------
(* The other ends of an invoice.                                            *)

\* void_in_tx.
Void ==
  /\ status = "open" /\ NoLiveIntent
  /\ status' = "void"
  /\ UNCHANGED <<checkout, due, paying, number, oob, numbers, line, edit, fin, pay, writeoff, carries>>

\* mark_uncollectible_once reads whether the invoice is being paid; the request that
\* reads one that is over already is left out, its statement matches nothing ...
CheckWriteOff ==
  /\ writeoff = "idle"
  /\ status \in {"draft", "open"} /\ NoLiveIntent
  /\ writeoff' = "checked"
  /\ UNCHANGED <<checkout, document, numbers, line, edit, fin, pay, carries>>

\* ... and the statement that writes it off compares the status alone.
WriteOff ==
  /\ writeoff = "checked"
  /\ writeoff' = "idle"
  /\ status' = IF status = "open" THEN "uncollectible" ELSE status
  /\ UNCHANGED <<checkout, due, paying, number, oob, numbers, line, edit, fin, pay, carries>>

\* pay_out_of_band_in_tx.
PayOutOfBand ==
  /\ status = "open" /\ NoLiveIntent
  /\ status' = "paid"
  /\ oob' = TRUE
  /\ UNCHANGED <<checkout, due, paying, number, numbers, line, edit, fin, pay, writeoff, carries>>

-----------------------------------------------------------------------------
(* The payment of an attached intent.                                       *)

Rest == UNCHANGED <<document, numbers, line, edit, fin, pay, writeoff, carries>>

\* Nobody has the link of an intent that was never attached.
Confirm(i) ==
  /\ pay[i] = "attached"
  /\ AdmitConfirm(i)
  /\ Rest

\* invoice_snapshot: the settlement carries an event if the invoice is open.
ReadInvoice(i) ==
  /\ charge[i] = "live" /\ Settleable(i)
  /\ carries' = [carries EXCEPT ![i] =
                   IF paying = i /\ status = "open" THEN "invoice" ELSE "nothing"]
  /\ UNCHANGED <<checkout, document, numbers, line, edit, fin, pay, writeoff>>

\* Variant: the invoice is left to a later transaction, which a crash prevents.
FlipInvoiceNever(i) == status

\* flip_invoice.
FlipInvoice(i) ==
  IF carries[i] = "invoice" /\ paying = i /\ status = "open" THEN "paid" ELSE status

SettleInvoice(i) ==
  /\ carries[i] # "unread"
  /\ SettlePaid(i)
  /\ status'  = FlipInvoice(i)
  /\ carries' = [carries EXCEPT ![i] = "unread"]
  /\ UNCHANGED <<due, paying, number, oob, numbers, line, edit, fin, pay, writeoff>>

SettleRefusal(i) ==
  /\ SettleFailed(i)
  /\ carries' = [carries EXCEPT ![i] = "unread"]
  /\ UNCHANGED <<document, numbers, line, edit, fin, pay, writeoff>>

-----------------------------------------------------------------------------
PayNext(i) ==
  \/ CheckPayable(i) \/ MintIntent(i) \/ AttachIntent(i)
  \/ \E s \in Sessions : CreatePaySession(i, s)
  \/ \E s \in Sessions : pay[i] = "attached" /\ AskForSession(i, s) /\ Rest
  \/ Confirm(i)
  \/ OpenCharge(i) /\ Rest
  \/ Advance(i) /\ Rest
  \/ CancelSnapshot(i) /\ Rest
  \/ CancelCommit(i) /\ Rest
  \/ ReadInvoice(i) \/ SettleInvoice(i) \/ SettleRefusal(i)

SessionNext(s) ==
  \/ CreateSession(s) /\ Rest
  \/ PassHorizon(s) /\ Rest
  \/ Expire(s) /\ Rest
  \/ ExpireDue(s) /\ Rest

Next ==
  \/ CreateDraft \/ DeleteDraft
  \/ \E l \in Lines : \/ \E amount \in Prices \cup {0} : WriteLine(l, amount)
                      \/ SumDraft(l) \/ CommitLine(l)
  \/ \E f \in Finalizers : \/ ReadDraft(f) \/ TakeNumber(f) \/ SumLines(f)
                           \/ CommitFinalize(f) \/ LoseFinalize(f)
  \/ TakeElsewhere \/ EndElsewhere
  \/ Void \/ CheckWriteOff \/ WriteOff \/ PayOutOfBand
  \/ \E i \in Intents : PayNext(i)
  \/ \E s \in Sessions : SessionNext(s)

Spec == Init /\ [][Next]_vars

\* The clock advances, the sweep returns every hour, and the poll of a live charge
\* ends in an answer that is applied.
Fairness ==
  /\ \A s \in Sessions : WF_vars((PassHorizon(s) \/ ExpireDue(s)) /\ Rest)
  /\ \A i \in Intents : WF_vars(ReadInvoice(i) \/ SettleInvoice(i) \/ SettleRefusal(i))

FairSpec == Spec /\ Fairness

-----------------------------------------------------------------------------
(* Properties.                                                              *)

PaidIntents == {i \in Intents : intent[i] = "succeeded"}

\* An invoice is paid once: one intent, or money outside vpay, and never both; one
\* that was voided is not paid at all. NO_LIVE_INTENT is to see to it, with the
\* statuses a settlement may land on.
PaidOnce ==
  /\ \A i, j \in PaidIntents : i = j
  /\ oob \/ status = "void" => PaidIntents = {}

\* Money vpay took for an invoice closes it in the same transaction: as paid by that
\* intent, or, when the write-off raced the request to pay, as uncollectible.
PaidIntentClosesInvoice ==
  \A i \in PaidIntents : paying = i /\ status \in {"paid", "uncollectible"}

\* The amount of an issued invoice does not change, whatever the line edits that
\* were under way when it was finalized.
IssuedAmountIsFrozen == [][(status \in Issued) => (due' = due /\ number' = number)]_vars

\* Once no finalize is under way every number up to the last is on one document: a
\* refused, lost or concurrent finalize leaves no gap and no duplicate.
NumbersHaveNoGap ==
  holder = "nobody" => \A n \in 1..MaxNumber : given[n] = IF n < next THEN 1 ELSE 0

\* A session that is over stays as it ended: a late settlement, sweep or expire does
\* not rewrite what the merchant was told.
EndedSessionsStay ==
  [][\A s \in Sessions : Ended(session[s]) => session'[s] = session[s]]_vars

\* An open session ends: by its settlement, by the merchant or by the sweep, unless
\* its charge is live on an intent that was canceled under it and is parked.
OpenSessionEnds ==
  \A s \in Sessions : session[s].status = "open" ~>
    \/ Ended(session[s])
    \/ \E i \in Intents : session[s].of = i /\ charge[i] = "live" /\ ~Settleable(i)
=============================================================================
