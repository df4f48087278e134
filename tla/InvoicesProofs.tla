-------------------------- MODULE InvoicesProofs --------------------------
(***************************************************************************)
(* What Invoices promises for any number of intents, sessions, lines and   *)
(* finalizes. Numbering says what the lock of the sequence keeps: whoever  *)
(* holds it has the last number, and the rest are on one document each.    *)
(* Paying says what NO_LIVE_INTENT keeps: an intent that can still take    *)
(* money is the one the invoice names, and the invoice waits for it.       *)
(***************************************************************************)
EXTENDS Invoices, TLAPS

CountedTo(last) == \A n \in 1..MaxNumber : given[n] = IF n < last THEN 1 ELSE 0

Counted == IF holder = "nobody" THEN CountedTo(next) ELSE next >= 2 /\ CountedTo(next - 1)

Holding(f) ==
  /\ fin[f].pc \in {"took", "summed"} <=> holder = f
  /\ holder = f => fin[f].number = next - 1

Numbering == Counted /\ \A f \in Finalizers : Holding(f)

Paying ==
  /\ \A i \in Intents :
       /\ paying = i => pay[i] = "attached"
       /\ pay[i] = "attached" => status \in Issued /\ (paying = i \/ intent[i] = "canceled")
       /\ i \in admitted \/ charge[i] # "none" \/ carries[i] # "unread" => pay[i] = "attached"
       /\ intent[i] = "succeeded" => charge[i] # "none" /\ status \in {"paid", "uncollectible"}
       /\ paying = i /\ intent[i] \notin {"canceled", "succeeded"} =>
            status \in {"open", "uncollectible"}
       /\ carries[i] = "nothing" => status # "open"

PaidElsewhere == oob => status = "paid" /\ NoLiveIntent

InvoiceInv == TypeOK /\ Numbering /\ Paying /\ PaidElsewhere

LEMMA Names ==
  /\ "nobody" \notin Finalizers /\ "another invoice" \notin Finalizers
  /\ "none" \notin Intents /\ "none" \notin Sessions
BY InvoiceAssumption, ConstantsAssumption

LEMMA Bound == MaxNumber \in Nat
BY InvoiceAssumption

LEMMA Numbers ==
  /\ 0 \in 0..MaxNumber /\ 1 \in 1..(MaxNumber + 1)
  /\ \A n \in 1..(MaxNumber + 1) : n \in Nat /\ n - 1 \in 0..MaxNumber
  /\ \A n \in 1..(MaxNumber + 1) :
       n <= MaxNumber => n \in 0..MaxNumber /\ n + 1 \in 1..(MaxNumber + 1)
  /\ \A n \in 1..(MaxNumber + 1) : (n + 1) - 1 = n /\ n + 1 >= 2
  /\ \A n \in 1..(MaxNumber + 1) : n >= 2 => n - 1 \in 1..(MaxNumber + 1) /\ n - 1 \in 1..MaxNumber
BY Bound

LEMMA OneMore ==
  ASSUME NEW g \in [1..MaxNumber -> Nat], NEW n \in 1..MaxNumber
  PROVE  [g EXCEPT ![n] = @ + 1] \in [1..MaxNumber -> Nat]
OBVIOUS

LEMMA SessionFields ==
  /\ NoSession \in Session
  /\ \A i \in Intents \cup {"none"} : /\ [NoSession EXCEPT !.of = i, !.status = "asked"] \in Session
                                      /\ [NoSession EXCEPT !.of = i, !.status = "open"] \in Session
  /\ \A r \in Session :
       /\ r.of \in Intents \cup {"none"}
       /\ [r EXCEPT !.late = TRUE] \in Session
       /\ [r EXCEPT !.status = "expired", !.late = FALSE] \in Session
       /\ [r EXCEPT !.status = "complete", !.paid = "paid", !.late = FALSE] \in Session
       /\ [r EXCEPT !.status = "expired", !.paid = "failed", !.late = FALSE] \in Session
<1>1. NoSession \in Session
  BY DEF Session, NoSession
<1>2. ASSUME NEW i \in Intents \cup {"none"}
      PROVE  /\ [NoSession EXCEPT !.of = i, !.status = "asked"] \in Session
             /\ [NoSession EXCEPT !.of = i, !.status = "open"] \in Session
  BY DEF Session, NoSession
<1>3. ASSUME NEW r \in Session
      PROVE  /\ r.of \in Intents \cup {"none"}
             /\ [r EXCEPT !.late = TRUE] \in Session
             /\ [r EXCEPT !.status = "expired", !.late = FALSE] \in Session
  BY DEF Session
<1>4. ASSUME NEW r \in Session
      PROVE  /\ [r EXCEPT !.status = "complete", !.paid = "paid", !.late = FALSE] \in Session
             /\ [r EXCEPT !.status = "expired", !.paid = "failed", !.late = FALSE] \in Session
  BY DEF Session
<1> QED
  BY <1>1, <1>2, <1>3, <1>4

LEMMA Inserted ==
  ASSUME CheckoutTypeOK, NEW i \in Intents \cup {"none"}, NEW s \in Sessions, InsertSession(i, s)
  PROVE  CheckoutTypeOK'
<1>1. NoSession \in Session /\ [NoSession EXCEPT !.of = i, !.status = "open"] \in Session
  BY SessionFields
<1>2. session' \in [Sessions -> Session]
  <2>1. CASE OpenSessions(i) = {}
    BY <1>1 DEF CheckoutTypeOK, InsertSession
  <2>2. CASE OpenSessions(i) # {}
    BY <1>1 DEF CheckoutTypeOK, InsertSession
  <2> QED
    BY <2>1, <2>2
<1> QED
  BY <1>2 DEF CheckoutTypeOK, InsertSession

LEMMA Bills ==
  /\ NoBill \in Bill
  /\ \A b \in Bill, l \in Lines : b[l] \in Prices \cup {0}
  /\ \A b \in Bill, l \in Lines, a \in Prices \cup {0} : [b EXCEPT ![l] = a] \in Bill
BY DEF Bill, NoBill

LEMMA Edits ==
  /\ NoEdit \in Edit /\ NoEdit.pc = "idle"
  /\ \A e \in Edit : e.amount \in Prices \cup {0} /\ e.total \in Bill
  /\ \A a \in Prices \cup {0} : [pc |-> "written", amount |-> a, total |-> NoBill] \in Edit
  /\ \A e \in Edit, b \in Bill : [e EXCEPT !.pc = "summed", !.total = b] \in Edit
BY Bills DEF Edit, NoEdit

LEMMA Fins ==
  /\ NoFin \in Fin /\ NoFin.pc = "idle"
  /\ [NoFin EXCEPT !.pc = "read"] \in Fin /\ [NoFin EXCEPT !.pc = "read"].pc = "read"
  /\ \A n \in 0..MaxNumber : [pc |-> "took", number |-> n, total |-> NoBill] \in Fin
  /\ \A x \in Fin : x.number \in 0..MaxNumber /\ x.total \in Bill
  /\ \A x \in Fin, b \in Bill :
       /\ [x EXCEPT !.pc = "summed", !.total = b] \in Fin
       /\ [x EXCEPT !.pc = "summed", !.total = b].pc = "summed"
       /\ [x EXCEPT !.pc = "summed", !.total = b].number = x.number
<1>1. NoFin \in Fin /\ NoFin.pc = "idle"
  <2>1. NoBill \in Bill /\ 0 \in 0..MaxNumber
    BY Bills, Numbers
  <2> QED
    BY <2>1 DEF Fin, NoFin
<1>2. [NoFin EXCEPT !.pc = "read"] \in Fin /\ [NoFin EXCEPT !.pc = "read"].pc = "read"
  BY <1>1 DEF Fin
<1>3. \A n \in 0..MaxNumber : [pc |-> "took", number |-> n, total |-> NoBill] \in Fin
  BY Bills DEF Fin
<1>4. \A x \in Fin : x.number \in 0..MaxNumber /\ x.total \in Bill
  BY DEF Fin
<1>5. ASSUME NEW x \in Fin, NEW b \in Bill
      PROVE  /\ [x EXCEPT !.pc = "summed", !.total = b] \in Fin
             /\ [x EXCEPT !.pc = "summed", !.total = b].pc = "summed"
             /\ [x EXCEPT !.pc = "summed", !.total = b].number = x.number
  BY DEF Fin
<1> QED
  BY <1>1, <1>2, <1>3, <1>4, <1>5

LEMMA InitInvoiceInv == Init => InvoiceInv
<1> SUFFICES ASSUME Init PROVE InvoiceInv
  OBVIOUS
<1>1. CheckoutTypeOK
  BY DEF Init, CheckoutInit, CheckoutTypeOK, Session, NoSession, IntentStatus, ChargeState
<1>2. TypeOK
  <2>1. /\ NoBill \in Bill /\ NoEdit \in Edit /\ NoFin \in Fin
        /\ 0 \in 0..MaxNumber /\ 1 \in 1..(MaxNumber + 1)
    BY Bills, Edits, Fins, Numbers
  <2> QED
    BY <1>1, <2>1 DEF Init, TypeOK
<1>3. Numbering
  <2>1. Counted
    BY DEF Init, Counted, CountedTo
  <2>2. \A f \in Finalizers : Holding(f)
    <3>1. NoFin.pc = "idle" /\ "nobody" \notin Finalizers
      BY Fins, Names
    <3> QED
      BY <3>1 DEF Init, Holding
  <2> QED
    BY <2>1, <2>2 DEF Numbering
<1>4. Paying /\ PaidElsewhere
  BY Names DEF Init, CheckoutInit, Paying, PaidElsewhere
<1> QED
  BY <1>2, <1>3, <1>4 DEF InvoiceInv

LEMMA CreateDraftKeeps == ASSUME InvoiceInv, CreateDraft PROVE InvoiceInv'
<1>1. TypeOK'
  BY DEF InvoiceInv, CheckoutTypeOK, TypeOK, CreateDraft, checkout, numbers
<1>2. Numbering'
  BY DEF InvoiceInv, Numbering, Counted, CountedTo, Holding, CreateDraft, numbers
<1>3. Paying'
  BY DEF InvoiceInv, Paying, Issued, CreateDraft, checkout
<1>4. PaidElsewhere'
  BY DEF InvoiceInv, PaidElsewhere, CreateDraft
<1> QED
  BY <1>1, <1>2, <1>3, <1>4 DEF InvoiceInv

LEMMA DeleteDraftKeeps == ASSUME InvoiceInv, DeleteDraft PROVE InvoiceInv'
<1>1. TypeOK'
  BY Bills DEF InvoiceInv, CheckoutTypeOK, TypeOK, DeleteDraft, checkout, numbers
<1>2. Numbering'
  BY DEF InvoiceInv, Numbering, Counted, CountedTo, Holding, DeleteDraft, numbers
<1>3. Paying'
  BY DEF InvoiceInv, Paying, Issued, DeleteDraft, checkout
<1>4. PaidElsewhere'
  BY DEF InvoiceInv, PaidElsewhere, DeleteDraft
<1> QED
  BY <1>1, <1>2, <1>3, <1>4 DEF InvoiceInv

LEMMA WriteLineKeeps ==
  ASSUME InvoiceInv, NEW l \in Lines, NEW amount \in Prices \cup {0}, WriteLine(l, amount)
  PROVE  InvoiceInv'
<1>1. TypeOK'
  BY Edits DEF InvoiceInv, CheckoutTypeOK, TypeOK, WriteLine, checkout, document, numbers
<1>2. Numbering'
  BY DEF InvoiceInv, Numbering, Counted, CountedTo, Holding, WriteLine, numbers
<1>3. Paying'
  BY DEF InvoiceInv, Paying, WriteLine, checkout, document
<1>4. PaidElsewhere'
  BY DEF InvoiceInv, PaidElsewhere, WriteLine, document
<1> QED
  BY <1>1, <1>2, <1>3, <1>4 DEF InvoiceInv

LEMMA SumDraftKeeps == ASSUME InvoiceInv, NEW l \in Lines, SumDraft(l) PROVE InvoiceInv'
<1>1. TypeOK'
  BY Edits, Bills DEF InvoiceInv, CheckoutTypeOK, TypeOK, SumDraft, checkout, document, numbers
<1>2. Numbering'
  BY DEF InvoiceInv, Numbering, Counted, CountedTo, Holding, SumDraft, numbers
<1>3. Paying'
  BY DEF InvoiceInv, Paying, SumDraft, checkout, document
<1>4. PaidElsewhere'
  BY DEF InvoiceInv, PaidElsewhere, NoLiveIntent, SumDraft, checkout, document
<1> QED
  BY <1>1, <1>2, <1>3, <1>4 DEF InvoiceInv

LEMMA CommitLineKeeps ==
  ASSUME InvoiceInv, NEW l \in Lines, CommitLine(l)
  PROVE  InvoiceInv'
<1>1. TypeOK'
  BY Edits, Bills DEF InvoiceInv, CheckoutTypeOK, TypeOK, CommitLine, checkout, numbers
<1>2. Numbering'
  BY DEF InvoiceInv, Numbering, Counted, CountedTo, Holding, CommitLine, numbers
<1>3. Paying'
  BY DEF InvoiceInv, Paying, CommitLine, checkout
<1>4. PaidElsewhere'
  BY DEF InvoiceInv, PaidElsewhere, NoLiveIntent, CommitLine, checkout
<1> QED
  BY <1>1, <1>2, <1>3, <1>4 DEF InvoiceInv

LEMMA ReadDraftKeeps ==
  ASSUME InvoiceInv, NEW f \in Finalizers, ReadDraft(f)
  PROVE  InvoiceInv'
<1>1. TypeOK'
  BY Fins DEF InvoiceInv, CheckoutTypeOK, TypeOK, ReadDraft, checkout, document, numbers
<1>2. Numbering'
  BY Fins DEF InvoiceInv, TypeOK, Numbering, Counted, CountedTo, Holding, ReadDraft, numbers
<1>3. Paying'
  BY DEF InvoiceInv, Paying, ReadDraft, checkout, document
<1>4. PaidElsewhere'
  BY DEF InvoiceInv, PaidElsewhere, ReadDraft, document
<1> QED
  BY <1>1, <1>2, <1>3, <1>4 DEF InvoiceInv

LEMMA TakeNumberKeeps ==
  ASSUME InvoiceInv, NEW f \in Finalizers, TakeNumber(f)
  PROVE  InvoiceInv'
<1>1. /\ holder = "nobody" /\ holder' = f /\ next' = next + 1 /\ given' = given
      /\ next \in 1..(MaxNumber + 1) /\ next <= MaxNumber
  BY DEF InvoiceInv, TypeOK, TakeNumber, Take
<1>2. /\ fin \in [Finalizers -> Fin] /\ fin' \in [Finalizers -> Fin]
      /\ fin'[f] = [pc |-> "took", number |-> next, total |-> NoBill]
      /\ \A g \in Finalizers \ {f} : fin'[g] = fin[g]
  <2>1. [pc |-> "took", number |-> next, total |-> NoBill] \in Fin
    BY <1>1, Fins, Numbers
  <2> QED
    BY <2>1 DEF InvoiceInv, TypeOK, TakeNumber
<1>3. TypeOK'
  BY <1>1, <1>2, Numbers DEF InvoiceInv, TypeOK, CheckoutTypeOK, TakeNumber, checkout, document
<1>4. Numbering'
  <2>1. next' - 1 = next /\ next' >= 2
    BY <1>1, Numbers
  <2>2. Counted'
    BY <1>1, <2>1, Names DEF InvoiceInv, Numbering, Counted, CountedTo
  <2>3. \A g \in Finalizers \ {f} : Holding(g)'
    BY <1>1, <1>2, Names DEF InvoiceInv, Numbering, Holding
  <2>4. Holding(f)'
    BY <1>1, <1>2 DEF Holding
  <2> QED
    BY <2>2, <2>3, <2>4 DEF Numbering
<1>5. Paying'
  BY DEF InvoiceInv, Paying, TakeNumber, checkout, document
<1>6. PaidElsewhere'
  BY DEF InvoiceInv, PaidElsewhere, NoLiveIntent, TakeNumber, checkout, document
<1> QED
  BY <1>3, <1>4, <1>5, <1>6 DEF InvoiceInv

LEMMA SumLinesKeeps ==
  ASSUME InvoiceInv, NEW f \in Finalizers, SumLines(f)
  PROVE  InvoiceInv'
<1>1. /\ fin \in [Finalizers -> Fin] /\ fin' \in [Finalizers -> Fin]
      /\ fin[f].pc = "took" /\ fin'[f].pc = "summed" /\ fin'[f].number = fin[f].number
      /\ \A g \in Finalizers \ {f} : fin'[g] = fin[g]
  <2>1. /\ [fin[f] EXCEPT !.pc = "summed", !.total = line] \in Fin
        /\ [fin[f] EXCEPT !.pc = "summed", !.total = line].pc = "summed"
        /\ [fin[f] EXCEPT !.pc = "summed", !.total = line].number = fin[f].number
    BY Fins DEF InvoiceInv, TypeOK
  <2> QED
    BY <2>1 DEF InvoiceInv, TypeOK, SumLines
<1>3. TypeOK'
  BY <1>1 DEF InvoiceInv, TypeOK, CheckoutTypeOK, SumLines, checkout, document, numbers
<1>4. Numbering'
  <2>1. Counted'
    BY DEF InvoiceInv, Numbering, Counted, CountedTo, SumLines, numbers
  <2>2. \A g \in Finalizers : Holding(g)'
    BY DEF InvoiceInv, Numbering, Holding, SumLines, numbers
  <2> QED
    BY <2>1, <2>2 DEF Numbering
<1>5. Paying'
  BY DEF InvoiceInv, Paying, SumLines, checkout, document
<1>6. PaidElsewhere'
  BY DEF InvoiceInv, PaidElsewhere, NoLiveIntent, SumLines, checkout, document
<1> QED
  BY <1>3, <1>4, <1>5, <1>6 DEF InvoiceInv

LEMMA CommitFinalizeKeeps ==
  ASSUME InvoiceInv, NEW f \in Finalizers, CommitFinalize(f)
  PROVE  InvoiceInv'
<1>1. /\ fin \in [Finalizers -> Fin] /\ fin' \in [Finalizers -> Fin]
      /\ fin'[f].pc = "idle"
      /\ \A g \in Finalizers \ {f} : fin'[g] = fin[g]
  BY Fins DEF InvoiceInv, TypeOK, CommitFinalize
<1>2. /\ holder = f /\ holder' = "nobody" /\ fin[f].number = next - 1
  BY DEF InvoiceInv, Numbering, Holding, CommitFinalize, GiveNumber, ReturnNumber
<1>0. /\ next \in 1..(MaxNumber + 1) /\ next >= 2
      /\ CountedTo(next - 1) /\ given \in [1..MaxNumber -> Nat]
  BY <1>2, Names DEF InvoiceInv, TypeOK, Numbering, Counted
<1>3. \/ next' = next /\ given' = [given EXCEPT ![next - 1] = @ + 1]
      \/ next' = next - 1 /\ given' = given
  BY <1>2 DEF CommitFinalize, GiveNumber, ReturnNumber
<1>4. next' \in 1..(MaxNumber + 1) /\ given' \in [1..MaxNumber -> Nat]
  BY <1>0, <1>3, Numbers, OneMore
<1>5. TypeOK'
  <2>1. /\ due' \in Bill /\ number' \in 0..MaxNumber
        /\ status' \in {"none", "deleted", "draft"} \cup Issued
    <3>1. fin[f].total \in Bill /\ fin[f].number \in 0..MaxNumber
      BY Fins DEF InvoiceInv, TypeOK
    <3> QED
      BY <3>1 DEF InvoiceInv, TypeOK, Issued, CommitFinalize
  <2> QED
    BY <1>1, <1>2, <1>4, <2>1 DEF InvoiceInv, TypeOK, CheckoutTypeOK, CommitFinalize, checkout
<1>6. Numbering'
  <2>1. Counted'
    <3> SUFFICES ASSUME NEW n \in 1..MaxNumber PROVE given'[n] = IF n < next' THEN 1 ELSE 0
      BY <1>2 DEF Counted, CountedTo
    <3>1. CASE n = next - 1
      BY <1>0, <1>3, Bound DEF CountedTo
    <3>2. CASE n # next - 1
      BY <1>0, <1>3, Bound DEF CountedTo
    <3> QED
      BY <3>1, <3>2
  <2>2. \A g \in Finalizers : Holding(g)'
    BY <1>1, <1>2, Names DEF InvoiceInv, Numbering, Holding
  <2> QED
    BY <2>1, <2>2 DEF Numbering
<1>7. Paying'
  BY DEF InvoiceInv, Paying, Issued, CommitFinalize, checkout
<1>8. PaidElsewhere'
  BY DEF InvoiceInv, PaidElsewhere, NoLiveIntent, CommitFinalize, checkout
<1> QED
  BY <1>5, <1>6, <1>7, <1>8 DEF InvoiceInv

LEMMA LoseFinalizeKeeps ==
  ASSUME InvoiceInv, NEW f \in Finalizers, LoseFinalize(f)
  PROVE  InvoiceInv'
<1>1. /\ fin \in [Finalizers -> Fin] /\ fin' \in [Finalizers -> Fin]
      /\ fin'[f].pc = "idle"
      /\ \A g \in Finalizers \ {f} : fin'[g] = fin[g]
  BY Fins DEF InvoiceInv, TypeOK, LoseFinalize
<1>2. /\ holder = f /\ holder' = "nobody" /\ fin[f].number = next - 1
  BY DEF InvoiceInv, Numbering, Holding, LoseFinalize, ReturnNumber
<1>0. /\ next \in 1..(MaxNumber + 1) /\ next >= 2
      /\ CountedTo(next - 1) /\ given \in [1..MaxNumber -> Nat]
  BY <1>2, Names DEF InvoiceInv, TypeOK, Numbering, Counted
<1>3. next' = next - 1 /\ given' = given
  BY DEF LoseFinalize, ReturnNumber
<1>4. next' \in 1..(MaxNumber + 1) /\ given' \in [1..MaxNumber -> Nat]
  BY <1>0, <1>3, Numbers, OneMore
<1>5. TypeOK'
  BY <1>1, <1>2, <1>4 DEF InvoiceInv, TypeOK, CheckoutTypeOK, LoseFinalize, checkout, document
<1>6. Numbering'
  <2>1. Counted'
    <3> SUFFICES ASSUME NEW n \in 1..MaxNumber PROVE given'[n] = IF n < next' THEN 1 ELSE 0
      BY <1>2 DEF Counted, CountedTo
    <3>1. CASE n = next - 1
      BY <1>0, <1>3 DEF CountedTo
    <3>2. CASE n # next - 1
      BY <1>0, <1>3 DEF CountedTo
    <3> QED
      BY <3>1, <3>2
  <2>2. \A g \in Finalizers : Holding(g)'
    BY <1>1, <1>2, Names DEF InvoiceInv, Numbering, Holding
  <2> QED
    BY <2>1, <2>2 DEF Numbering
<1>7. Paying'
  BY DEF InvoiceInv, Paying, LoseFinalize, checkout, document
<1>8. PaidElsewhere'
  BY DEF InvoiceInv, PaidElsewhere, NoLiveIntent, LoseFinalize, checkout, document
<1> QED
  BY <1>5, <1>6, <1>7, <1>8 DEF InvoiceInv

LEMMA TakeElsewhereKeeps == ASSUME InvoiceInv, TakeElsewhere PROVE InvoiceInv'
<1>1. /\ holder = "nobody" /\ holder' = "another invoice" /\ next' = next + 1 /\ given' = given
      /\ fin' = fin /\ next \in 1..(MaxNumber + 1) /\ next <= MaxNumber
  BY DEF InvoiceInv, TypeOK, TakeElsewhere, Take
<1>2. TypeOK'
  BY <1>1, Numbers DEF InvoiceInv, TypeOK, CheckoutTypeOK, TakeElsewhere, checkout, document
<1>3. Numbering'
  <2>1. next' - 1 = next /\ next' >= 2
    BY <1>1, Numbers
  <2>2. Counted'
    BY <1>1, <2>1 DEF InvoiceInv, Numbering, Counted, CountedTo
  <2>3. \A g \in Finalizers : Holding(g)'
    BY <1>1, Names DEF InvoiceInv, Numbering, Holding
  <2> QED
    BY <2>2, <2>3 DEF Numbering
<1>4. Paying'
  BY DEF InvoiceInv, Paying, TakeElsewhere, checkout, document
<1>5. PaidElsewhere'
  BY DEF InvoiceInv, PaidElsewhere, NoLiveIntent, TakeElsewhere, checkout, document
<1> QED
  BY <1>2, <1>3, <1>4, <1>5 DEF InvoiceInv

LEMMA EndElsewhereKeeps == ASSUME InvoiceInv, EndElsewhere PROVE InvoiceInv'
<1>1. /\ holder = "another invoice" /\ holder' = "nobody" /\ fin' = fin
  BY DEF EndElsewhere, GiveNumber, ReturnNumber
<1>0. /\ next \in 1..(MaxNumber + 1) /\ next >= 2
      /\ CountedTo(next - 1) /\ given \in [1..MaxNumber -> Nat]
  BY <1>1 DEF InvoiceInv, TypeOK, Numbering, Counted
<1>2. \/ next' = next /\ given' = [given EXCEPT ![next - 1] = @ + 1]
      \/ next' = next - 1 /\ given' = given
  BY DEF EndElsewhere, GiveNumber, ReturnNumber
<1>3. next' \in 1..(MaxNumber + 1) /\ given' \in [1..MaxNumber -> Nat]
  BY <1>0, <1>2, Numbers, OneMore
<1>4. TypeOK'
  BY <1>1, <1>3 DEF InvoiceInv, TypeOK, CheckoutTypeOK, EndElsewhere, checkout, document
<1>5. Numbering'
  <2>1. Counted'
    <3> SUFFICES ASSUME NEW n \in 1..MaxNumber PROVE given'[n] = IF n < next' THEN 1 ELSE 0
      BY <1>1 DEF Counted, CountedTo
    <3>1. CASE n = next - 1
      BY <1>0, <1>2, Bound DEF CountedTo
    <3>2. CASE n # next - 1
      BY <1>0, <1>2, Bound DEF CountedTo
    <3> QED
      BY <3>1, <3>2
  <2>2. \A g \in Finalizers : Holding(g)'
    BY <1>1, Names DEF InvoiceInv, Numbering, Holding
  <2> QED
    BY <2>1, <2>2 DEF Numbering
<1>6. Paying'
  BY DEF InvoiceInv, Paying, EndElsewhere, checkout, document
<1>7. PaidElsewhere'
  BY DEF InvoiceInv, PaidElsewhere, NoLiveIntent, EndElsewhere, checkout, document
<1> QED
  BY <1>4, <1>5, <1>6, <1>7 DEF InvoiceInv

LEMMA VoidKeeps == ASSUME InvoiceInv, Void PROVE InvoiceInv'
<1>1. TypeOK'
  BY DEF InvoiceInv, CheckoutTypeOK, TypeOK, Issued, Void, checkout, numbers
<1>2. Numbering'
  BY DEF InvoiceInv, Numbering, Counted, CountedTo, Holding, Void, numbers
<1>3. Paying'
  <2>1. \A i \in Intents : intent[i] # "succeeded" /\ (paying = i => intent[i] = "canceled")
    BY Names DEF InvoiceInv, Paying, NoLiveIntent, Void
  <2> QED
    BY <2>1 DEF InvoiceInv, Paying, Issued, Void, checkout
<1>4. PaidElsewhere'
  BY DEF InvoiceInv, PaidElsewhere, Void
<1> QED
  BY <1>1, <1>2, <1>3, <1>4 DEF InvoiceInv

LEMMA CheckWriteOffKeeps == ASSUME InvoiceInv, CheckWriteOff PROVE InvoiceInv'
<1>1. TypeOK'
  BY DEF InvoiceInv, CheckoutTypeOK, TypeOK, CheckWriteOff, checkout, document, numbers
<1>2. Numbering'
  BY DEF InvoiceInv, Numbering, Counted, CountedTo, Holding, CheckWriteOff, numbers
<1>3. Paying'
  BY DEF InvoiceInv, Paying, CheckWriteOff, checkout, document
<1>4. PaidElsewhere'
  BY DEF InvoiceInv, PaidElsewhere, CheckWriteOff, document
<1> QED
  BY <1>1, <1>2, <1>3, <1>4 DEF InvoiceInv

LEMMA WriteOffKeeps == ASSUME InvoiceInv, WriteOff PROVE InvoiceInv'
<1>1. TypeOK'
  BY DEF InvoiceInv, CheckoutTypeOK, TypeOK, Issued, WriteOff, checkout, numbers
<1>2. Numbering'
  BY DEF InvoiceInv, Numbering, Counted, CountedTo, Holding, WriteOff, numbers
<1>3. Paying'
  BY DEF InvoiceInv, Paying, Issued, WriteOff, checkout
<1>4. PaidElsewhere'
  BY DEF InvoiceInv, PaidElsewhere, NoLiveIntent, WriteOff, checkout
<1> QED
  BY <1>1, <1>2, <1>3, <1>4 DEF InvoiceInv

LEMMA PayOutOfBandKeeps == ASSUME InvoiceInv, PayOutOfBand PROVE InvoiceInv'
<1>1. TypeOK'
  BY DEF InvoiceInv, CheckoutTypeOK, TypeOK, Issued, PayOutOfBand, checkout, numbers
<1>2. Numbering'
  BY DEF InvoiceInv, Numbering, Counted, CountedTo, Holding, PayOutOfBand, numbers
<1>3. Paying'
  <2>1. \A i \in Intents : intent[i] # "succeeded" /\ (paying = i => intent[i] = "canceled")
    BY Names DEF InvoiceInv, Paying, NoLiveIntent, PayOutOfBand
  <2> QED
    BY <2>1 DEF InvoiceInv, Paying, Issued, PayOutOfBand, checkout
<1>4. PaidElsewhere'
  BY DEF PaidElsewhere, NoLiveIntent, PayOutOfBand, checkout
<1> QED
  BY <1>1, <1>2, <1>3, <1>4 DEF InvoiceInv

LEMMA CheckPayableKeeps ==
  ASSUME InvoiceInv, NEW i \in Intents, CheckPayable(i)
  PROVE  InvoiceInv'
<1>1. TypeOK'
  BY DEF InvoiceInv, CheckoutTypeOK, TypeOK, CheckPayable, Pay, checkout, document, numbers
<1>2. Numbering'
  BY DEF InvoiceInv, Numbering, Counted, CountedTo, Holding, CheckPayable, numbers
<1>3. Paying'
  BY DEF InvoiceInv, TypeOK, Paying, CheckPayable, Pay, checkout, document
<1>4. PaidElsewhere'
  BY DEF InvoiceInv, PaidElsewhere, CheckPayable, document
<1> QED
  BY <1>1, <1>2, <1>3, <1>4 DEF InvoiceInv

LEMMA MintIntentKeeps ==
  ASSUME InvoiceInv, NEW i \in Intents, MintIntent(i)
  PROVE  InvoiceInv'
<1>1. TypeOK'
  BY DEF InvoiceInv, CheckoutTypeOK, IntentStatus, TypeOK, MintIntent, Pay, Mint, document,
       numbers
<1>2. Numbering'
  BY DEF InvoiceInv, Numbering, Counted, CountedTo, Holding, MintIntent, numbers
<1>3. Paying'
  BY DEF InvoiceInv, TypeOK, CheckoutTypeOK, Paying, Issued, MintIntent, Pay, Mint, document
<1>4. PaidElsewhere'
  BY DEF InvoiceInv, TypeOK, CheckoutTypeOK, PaidElsewhere, NoLiveIntent, MintIntent, Mint,
       document
<1> QED
  BY <1>1, <1>2, <1>3, <1>4 DEF InvoiceInv

LEMMA CreatePaySessionKeeps ==
  ASSUME InvoiceInv, NEW i \in Intents, NEW s \in Sessions, CreatePaySession(i, s)
  PROVE  InvoiceInv'
<1>1. TypeOK'
  <2>2. CheckoutTypeOK'
    BY Inserted DEF InvoiceInv, TypeOK, CreatePaySession, CreateOwnSession
  <2> QED
    BY <2>2 DEF InvoiceInv, TypeOK, CreatePaySession, Pay, document, numbers
<1>2. Numbering'
  BY DEF InvoiceInv, Numbering, Counted, CountedTo, Holding, CreatePaySession, numbers
<1>3. Paying'
  BY DEF InvoiceInv, TypeOK, Paying, Issued, CreatePaySession, Pay, CreateOwnSession,
       InsertSession, document
<1>4. PaidElsewhere'
  BY DEF InvoiceInv, PaidElsewhere, NoLiveIntent, CreatePaySession, CreateOwnSession,
       InsertSession, document
<1> QED
  BY <1>1, <1>2, <1>3, <1>4 DEF InvoiceInv

LEMMA AttachIntentKeeps ==
  ASSUME InvoiceInv, NEW i \in Intents, AttachIntent(i)
  PROVE  InvoiceInv'
<1>1. TypeOK'
  BY DEF InvoiceInv, CheckoutTypeOK, TypeOK, AttachIntent, checkout, numbers
<1>2. Numbering'
  BY DEF InvoiceInv, Numbering, Counted, CountedTo, Holding, AttachIntent, numbers
<1>3. Paying'
  <2>1. CASE ~(status = "open" /\ NoLiveIntent)
    BY <2>1 DEF InvoiceInv, TypeOK, Paying, AttachIntent, checkout
  <2>2. CASE status = "open" /\ NoLiveIntent
    <3>1. \A j \in Intents : intent[j] # "succeeded" /\ (paying = j => intent[j] = "canceled")
      BY <2>2, Names DEF InvoiceInv, Paying, NoLiveIntent
    <3>2. /\ paying' = i /\ pay' = [pay EXCEPT ![i] = "attached"]
          /\ pay \in [Intents ->
                         {"idle", "checked", "minted", "linked", "attached", "refused"}]
      BY <2>2 DEF InvoiceInv, TypeOK, AttachIntent
    <3> QED
      BY <3>1, <3>2 DEF InvoiceInv, Paying, Issued, AttachIntent, checkout
  <2> QED
    BY <2>1, <2>2
<1>4. PaidElsewhere'
  BY DEF InvoiceInv, PaidElsewhere, NoLiveIntent, AttachIntent, checkout
<1> QED
  BY <1>1, <1>2, <1>3, <1>4 DEF InvoiceInv

LEMMA AskForSessionKeeps ==
  ASSUME InvoiceInv, NEW i \in Intents, NEW s \in Sessions, AskForSession(i, s), Rest
  PROVE  InvoiceInv'
<1>1. TypeOK'
  <2>1. session' \in [Sessions -> Session]
    BY SessionFields DEF InvoiceInv, TypeOK, CheckoutTypeOK, AskForSession
  <2>2. CheckoutTypeOK'
    BY <2>1 DEF InvoiceInv, TypeOK, CheckoutTypeOK, AskForSession
  <2> QED
    BY <2>2 DEF InvoiceInv, TypeOK, Rest, document, numbers
<1>2. Numbering'
  BY DEF InvoiceInv, Numbering, Counted, CountedTo, Holding, Rest, numbers
<1>3. Paying'
  BY DEF InvoiceInv, Paying, AskForSession, Rest, document
<1>4. PaidElsewhere'
  BY DEF InvoiceInv, PaidElsewhere, NoLiveIntent, AskForSession, Rest, document
<1> QED
  BY <1>1, <1>2, <1>3, <1>4 DEF InvoiceInv

LEMMA ConfirmKeeps == ASSUME InvoiceInv, NEW i \in Intents, Confirm(i) PROVE InvoiceInv'
<1>1. TypeOK'
  BY DEF InvoiceInv, CheckoutTypeOK, TypeOK, Confirm, AdmitConfirm, Rest, document, numbers
<1>2. Numbering'
  BY DEF InvoiceInv, Numbering, Counted, CountedTo, Holding, Confirm, Rest, numbers
<1>3. Paying'
  BY DEF InvoiceInv, Paying, Confirm, AdmitConfirm, Rest, document
<1>4. PaidElsewhere'
  BY DEF InvoiceInv, Paying, PaidElsewhere, Confirm, AdmitConfirm, Rest, document
<1> QED
  BY <1>1, <1>2, <1>3, <1>4 DEF InvoiceInv

LEMMA OpenChargeKeeps ==
  ASSUME InvoiceInv, NEW i \in Intents, OpenCharge(i), Rest
  PROVE  InvoiceInv'
<1>1. TypeOK'
  BY DEF InvoiceInv, CheckoutTypeOK, ChargeState, TypeOK, OpenCharge, Rest, document, numbers
<1>2. Numbering'
  BY DEF InvoiceInv, Numbering, Counted, CountedTo, Holding, Rest, numbers
<1>3. Paying'
  BY DEF InvoiceInv, TypeOK, CheckoutTypeOK, Paying, Issued, OpenCharge, Rest, document
<1>4. PaidElsewhere'
  BY DEF InvoiceInv, PaidElsewhere, NoLiveIntent, OpenCharge, Rest, document
<1> QED
  BY <1>1, <1>2, <1>3, <1>4 DEF InvoiceInv

LEMMA AdvanceKeeps ==
  ASSUME InvoiceInv, NEW i \in Intents, Advance(i), Rest
  PROVE  InvoiceInv'
<1>1. TypeOK'
  BY DEF InvoiceInv, CheckoutTypeOK, IntentStatus, TypeOK, Advance, Rest, document, numbers
<1>2. Numbering'
  BY DEF InvoiceInv, Numbering, Counted, CountedTo, Holding, Rest, numbers
<1>3. Paying'
  BY DEF InvoiceInv, TypeOK, CheckoutTypeOK, Paying, Advance, Rest, document
<1>4. PaidElsewhere'
  BY DEF InvoiceInv, Paying, PaidElsewhere, Advance, Rest, document
<1> QED
  BY <1>1, <1>2, <1>3, <1>4 DEF InvoiceInv

LEMMA CancelSnapshotKeeps ==
  ASSUME InvoiceInv, NEW i \in Intents, CancelSnapshot(i), Rest
  PROVE  InvoiceInv'
<1>1. TypeOK'
  BY DEF InvoiceInv, CheckoutTypeOK, TypeOK, CancelSnapshot, Rest, document, numbers
<1>2. Numbering'
  BY DEF InvoiceInv, Numbering, Counted, CountedTo, Holding, Rest, numbers
<1>3. Paying'
  BY DEF InvoiceInv, Paying, CancelSnapshot, Rest, document
<1>4. PaidElsewhere'
  BY DEF InvoiceInv, PaidElsewhere, NoLiveIntent, CancelSnapshot, Rest, document
<1> QED
  BY <1>1, <1>2, <1>3, <1>4 DEF InvoiceInv

LEMMA CancelCommitKeeps ==
  ASSUME InvoiceInv, NEW i \in Intents, CancelCommit(i), Rest
  PROVE  InvoiceInv'
<1>1. TypeOK'
  BY DEF InvoiceInv, CheckoutTypeOK, IntentStatus, TypeOK, CancelCommit, Rest, document, numbers
<1>2. Numbering'
  BY DEF InvoiceInv, Numbering, Counted, CountedTo, Holding, Rest, numbers
<1>3. Paying'
  BY DEF InvoiceInv, TypeOK, CheckoutTypeOK, Paying, Issued, CancelCommit, Rest, document
<1>4. PaidElsewhere'
  BY DEF InvoiceInv, TypeOK, CheckoutTypeOK, PaidElsewhere, NoLiveIntent, CancelCommit, Rest,
       document
<1> QED
  BY <1>1, <1>2, <1>3, <1>4 DEF InvoiceInv

LEMMA ReadInvoiceKeeps ==
  ASSUME InvoiceInv, NEW i \in Intents, ReadInvoice(i)
  PROVE  InvoiceInv'
<1>1. TypeOK'
  BY DEF InvoiceInv, CheckoutTypeOK, TypeOK, ReadInvoice, checkout, document, numbers
<1>2. Numbering'
  BY DEF InvoiceInv, Numbering, Counted, CountedTo, Holding, ReadInvoice, numbers
<1>3. Paying'
  BY DEF InvoiceInv, TypeOK, Paying, ReadInvoice, checkout, document, Settleable
<1>4. PaidElsewhere'
  BY DEF InvoiceInv, PaidElsewhere, NoLiveIntent, ReadInvoice, checkout, document
<1> QED
  BY <1>1, <1>2, <1>3, <1>4 DEF InvoiceInv

LEMMA SettleInvoiceKeeps ==
  ASSUME InvoiceInv, NEW i \in Intents, SettleInvoice(i)
  PROVE  InvoiceInv'
<1>1. TypeOK'
  <2>1. session' \in [Sessions -> Session]
    BY SessionFields DEF InvoiceInv, TypeOK, CheckoutTypeOK, SettleInvoice, SettlePaid,
         FlipSession
  <2>2. CheckoutTypeOK'
    BY <2>1 DEF InvoiceInv, TypeOK, CheckoutTypeOK, IntentStatus, ChargeState, SettleInvoice,
         SettlePaid
  <2> QED
    BY <2>2 DEF InvoiceInv, TypeOK, Issued, SettleInvoice, FlipInvoice, numbers
<1>2. Numbering'
  BY DEF InvoiceInv, Numbering, Counted, CountedTo, Holding, SettleInvoice, numbers
<1>3. Paying'
  BY Names DEF InvoiceInv, TypeOK, CheckoutTypeOK, Paying, Issued, SettleInvoice, SettlePaid,
       FlipInvoice, FlipSession, OpenSessions, numbers, Settleable
<1>4. PaidElsewhere'
  BY DEF InvoiceInv, Paying, PaidElsewhere, SettleInvoice, SettlePaid, Settleable
<1> QED
  BY <1>1, <1>2, <1>3, <1>4 DEF InvoiceInv

LEMMA SettleRefusalKeeps ==
  ASSUME InvoiceInv, NEW i \in Intents, SettleRefusal(i)
  PROVE  InvoiceInv'
<1>1. TypeOK'
  <2>1. session' \in [Sessions -> Session]
    BY SessionFields DEF InvoiceInv, TypeOK, CheckoutTypeOK, SettleRefusal, SettleFailed,
         FlipSession
  <2>2. CheckoutTypeOK'
    BY <2>1 DEF InvoiceInv, TypeOK, CheckoutTypeOK, IntentStatus, ChargeState, SettleRefusal,
         SettleFailed
  <2> QED
    BY <2>2 DEF InvoiceInv, TypeOK, SettleRefusal, document, numbers
<1>2. Numbering'
  BY DEF InvoiceInv, Numbering, Counted, CountedTo, Holding, SettleRefusal, numbers
<1>3. Paying'
  BY Names DEF InvoiceInv, TypeOK, CheckoutTypeOK, Paying, Issued, SettleRefusal, SettleFailed,
       FlipSession, OpenSessions, document, numbers, Settleable
<1>4. PaidElsewhere'
  BY DEF InvoiceInv, Paying, PaidElsewhere, SettleRefusal, SettleFailed, document, Settleable
<1> QED
  BY <1>1, <1>2, <1>3, <1>4 DEF InvoiceInv

LEMMA CreateSessionKeeps ==
  ASSUME InvoiceInv, NEW s \in Sessions, CreateSession(s), Rest
  PROVE  InvoiceInv'
<1>1. TypeOK'
  <2>1. session[s].of \in Intents \cup {"none"} /\ InsertSession(session[s].of, s)
    BY SessionFields DEF InvoiceInv, TypeOK, CheckoutTypeOK, CreateSession
  <2>2. CheckoutTypeOK'
    BY <2>1, Inserted DEF InvoiceInv, TypeOK
  <2> QED
    BY <2>2 DEF InvoiceInv, TypeOK, Rest, document, numbers
<1>2. Numbering'
  BY DEF InvoiceInv, Numbering, Counted, CountedTo, Holding, Rest, numbers
<1>3. Paying'
  BY DEF InvoiceInv, Paying, CreateSession, InsertSession, Rest, document
<1>4. PaidElsewhere'
  BY DEF InvoiceInv, PaidElsewhere, NoLiveIntent, CreateSession, InsertSession, Rest, document
<1> QED
  BY <1>1, <1>2, <1>3, <1>4 DEF InvoiceInv

LEMMA PassHorizonKeeps ==
  ASSUME InvoiceInv, NEW s \in Sessions, PassHorizon(s), Rest
  PROVE  InvoiceInv'
<1>1. TypeOK'
  <2>1. session' \in [Sessions -> Session]
    BY SessionFields DEF InvoiceInv, TypeOK, CheckoutTypeOK, PassHorizon
  <2>2. CheckoutTypeOK'
    BY <2>1 DEF InvoiceInv, TypeOK, CheckoutTypeOK, PassHorizon
  <2> QED
    BY <2>2 DEF InvoiceInv, TypeOK, Rest, document, numbers
<1>2. Numbering'
  BY DEF InvoiceInv, Numbering, Counted, CountedTo, Holding, Rest, numbers
<1>3. Paying'
  BY DEF InvoiceInv, Paying, PassHorizon, Rest, document
<1>4. PaidElsewhere'
  BY DEF InvoiceInv, PaidElsewhere, NoLiveIntent, PassHorizon, Rest, document
<1> QED
  BY <1>1, <1>2, <1>3, <1>4 DEF InvoiceInv

LEMMA ExpireKeeps ==
  ASSUME InvoiceInv, NEW s \in Sessions, Expire(s), Rest
  PROVE  InvoiceInv'
<1>1. TypeOK'
  <2>1. session' \in [Sessions -> Session]
    BY SessionFields DEF InvoiceInv, TypeOK, CheckoutTypeOK, Expire
  <2>2. CheckoutTypeOK'
    BY <2>1 DEF InvoiceInv, TypeOK, CheckoutTypeOK, Expire
  <2> QED
    BY <2>2 DEF InvoiceInv, TypeOK, Rest, document, numbers
<1>2. Numbering'
  BY DEF InvoiceInv, Numbering, Counted, CountedTo, Holding, Rest, numbers
<1>3. Paying'
  BY DEF InvoiceInv, Paying, Expire, Rest, document
<1>4. PaidElsewhere'
  BY DEF InvoiceInv, PaidElsewhere, NoLiveIntent, Expire, Rest, document
<1> QED
  BY <1>1, <1>2, <1>3, <1>4 DEF InvoiceInv

LEMMA ExpireDueKeeps ==
  ASSUME InvoiceInv, NEW s \in Sessions, ExpireDue(s), Rest
  PROVE  InvoiceInv'
<1>1. TypeOK'
  <2>1. session' \in [Sessions -> Session]
    BY SessionFields DEF InvoiceInv, TypeOK, CheckoutTypeOK, ExpireDue, Expire
  <2>2. CheckoutTypeOK'
    BY <2>1 DEF InvoiceInv, TypeOK, CheckoutTypeOK, ExpireDue, Expire
  <2> QED
    BY <2>2 DEF InvoiceInv, TypeOK, Rest, document, numbers
<1>2. Numbering'
  BY DEF InvoiceInv, Numbering, Counted, CountedTo, Holding, Rest, numbers
<1>3. Paying'
  BY DEF InvoiceInv, Paying, ExpireDue, Expire, Rest, document
<1>4. PaidElsewhere'
  BY DEF InvoiceInv, PaidElsewhere, NoLiveIntent, ExpireDue, Expire, Rest, document
<1> QED
  BY <1>1, <1>2, <1>3, <1>4 DEF InvoiceInv

LEMMA StutterKeeps == InvoiceInv /\ UNCHANGED vars => InvoiceInv'
<1> SUFFICES ASSUME InvoiceInv, UNCHANGED vars PROVE InvoiceInv'
  OBVIOUS
<1>1. TypeOK'
  BY DEF vars, checkout, document, numbers, InvoiceInv, TypeOK, CheckoutTypeOK
<1>2. Numbering'
  BY DEF vars, numbers, InvoiceInv, Numbering, Counted, CountedTo, Holding
<1>3. Paying' /\ PaidElsewhere'
  BY DEF vars, checkout, document, InvoiceInv, Paying, PaidElsewhere, NoLiveIntent
<1> QED
  BY <1>1, <1>2, <1>3 DEF InvoiceInv

LEMMA NextKeeps == InvoiceInv /\ Next => InvoiceInv'
<1> SUFFICES ASSUME InvoiceInv, Next PROVE InvoiceInv'
  OBVIOUS
<1>1. CASE CreateDraft \/ DeleteDraft \/ TakeElsewhere \/ EndElsewhere
  BY <1>1, CreateDraftKeeps, DeleteDraftKeeps, TakeElsewhereKeeps, EndElsewhereKeeps
<1>2. CASE Void \/ CheckWriteOff \/ WriteOff \/ PayOutOfBand
  BY <1>2, VoidKeeps, CheckWriteOffKeeps, WriteOffKeeps, PayOutOfBandKeeps
<1>3. ASSUME NEW l \in Lines,
             (\E amount \in Prices \cup {0} : WriteLine(l, amount)) \/ SumDraft(l) \/ CommitLine(l)
      PROVE  InvoiceInv'
  BY <1>3, WriteLineKeeps, SumDraftKeeps, CommitLineKeeps
<1>4. ASSUME NEW f \in Finalizers,
             ReadDraft(f) \/ TakeNumber(f) \/ SumLines(f) \/ CommitFinalize(f) \/ LoseFinalize(f)
      PROVE  InvoiceInv'
  BY <1>4, ReadDraftKeeps, TakeNumberKeeps, SumLinesKeeps, CommitFinalizeKeeps, LoseFinalizeKeeps
<1>5. ASSUME NEW i \in Intents, PayNext(i) PROVE InvoiceInv'
  BY <1>5, CheckPayableKeeps, MintIntentKeeps, AttachIntentKeeps, CreatePaySessionKeeps,
     AskForSessionKeeps, ConfirmKeeps, OpenChargeKeeps, AdvanceKeeps, CancelSnapshotKeeps,
     CancelCommitKeeps, ReadInvoiceKeeps, SettleInvoiceKeeps, SettleRefusalKeeps DEF PayNext
<1>6. ASSUME NEW s \in Sessions, SessionNext(s) PROVE InvoiceInv'
  BY <1>6, CreateSessionKeeps, PassHorizonKeeps, ExpireKeeps, ExpireDueKeeps DEF SessionNext
<1> QED
  BY <1>1, <1>2, <1>3, <1>4, <1>5, <1>6 DEF Next

LEMMA Always == Spec => []InvoiceInv
BY InitInvoiceInv, StutterKeeps, NextKeeps, PTL DEF Spec

(* The rows and the requests keep their types; the number a finalize returns is one *)
(* it took (next_number_in_tx).                                                     *)
THEOREM InvoiceTypes == Spec => []TypeOK
BY Always, PTL DEF InvoiceInv

(* However finalizes race, are refused or are lost, the numbers of a merchant have *)
(* neither gap nor duplicate (invoice_number_sequences).                           *)
THEOREM NumbersAreDense == Spec => []NumbersHaveNoGap
<1>1. InvoiceInv => NumbersHaveNoGap
  BY DEF InvoiceInv, Numbering, Counted, CountedTo, NumbersHaveNoGap
<1> QED
  BY <1>1, Always, PTL

(* No two intents of one invoice take money, and none does beside a payment outside *)
(* vpay or after a void (NO_LIVE_INTENT, attach_intent).                            *)
THEOREM InvoicesArePaidOnce == Spec => []PaidOnce
<1>1. InvoiceInv => PaidOnce
  BY Names DEF InvoiceInv, Paying, PaidElsewhere, PaidOnce, PaidIntents, NoLiveIntent
<1> QED
  BY <1>1, Always, PTL

(* An intent that took money is the one its invoice names, and the invoice is closed *)
(* in the same transaction (flip_invoice, invoice_snapshot).                         *)
THEOREM PaymentsCloseInvoices == Spec => []PaidIntentClosesInvoice
<1>1. InvoiceInv => PaidIntentClosesInvoice
  BY DEF InvoiceInv, Paying, PaidIntentClosesInvoice, PaidIntents
<1> QED
  BY <1>1, Always, PTL

LEMMA IssuedStays ==
  ASSUME [Next]_vars, status \in Issued
  PROVE  due' = due /\ number' = number
<1>1. CASE UNCHANGED vars
  BY <1>1 DEF vars, document
<1>2. CASE \/ CreateDraft \/ DeleteDraft \/ TakeElsewhere \/ EndElsewhere
           \/ Void \/ CheckWriteOff \/ WriteOff \/ PayOutOfBand
  BY <1>2 DEF CreateDraft, DeleteDraft, TakeElsewhere, EndElsewhere, Void, CheckWriteOff,
       WriteOff, PayOutOfBand, document, Issued
<1>3. ASSUME NEW l \in Lines, NEW amount, WriteLine(l, amount) \/ SumDraft(l) \/ CommitLine(l)
      PROVE  due' = due /\ number' = number
  BY <1>3 DEF WriteLine, SumDraft, CommitLine, document, Issued
<1>4. ASSUME NEW f \in Finalizers,
             ReadDraft(f) \/ TakeNumber(f) \/ SumLines(f) \/ CommitFinalize(f) \/ LoseFinalize(f)
      PROVE  due' = due /\ number' = number
  BY <1>4 DEF ReadDraft, TakeNumber, SumLines, CommitFinalize, LoseFinalize, document, Issued
<1>5. ASSUME NEW i \in Intents, PayNext(i) PROVE due' = due /\ number' = number
  BY <1>5 DEF PayNext, CheckPayable, MintIntent, AttachIntent, CreatePaySession, Confirm, Rest,
       ReadInvoice, SettleInvoice, SettleRefusal, document
<1>6. ASSUME NEW s \in Sessions, SessionNext(s) PROVE due' = due /\ number' = number
  BY <1>6 DEF SessionNext, Rest, document
<1> QED
  BY <1>1, <1>2, <1>3, <1>4, <1>5, <1>6 DEF Next

(* What was issued is what is owed: no line edit still under way, no payment and no *)
(* other end changes it (resum_draft's status guard).                               *)
THEOREM IssuedAmountsAreFrozen == Spec => IssuedAmountIsFrozen
<1>1. [Next]_vars => [(status \in Issued) => (due' = due /\ number' = number)]_vars
  BY IssuedStays
<1> QED
  BY <1>1, PTL DEF Spec, IssuedAmountIsFrozen

LEMMA EndedStays ==
  ASSUME TypeOK, [Next]_vars, NEW s \in Sessions, Ended(session[s])
  PROVE  session'[s] = session[s]
<1>1. CASE UNCHANGED vars
  BY <1>1 DEF vars, checkout
<1>2. CASE \/ CreateDraft \/ DeleteDraft \/ TakeElsewhere \/ EndElsewhere
           \/ Void \/ CheckWriteOff \/ WriteOff \/ PayOutOfBand
  BY <1>2 DEF CreateDraft, DeleteDraft, TakeElsewhere, EndElsewhere, Void, CheckWriteOff,
       WriteOff, PayOutOfBand, checkout
<1>3. ASSUME NEW l \in Lines, NEW amount, WriteLine(l, amount) \/ SumDraft(l) \/ CommitLine(l)
      PROVE  session' = session
  BY <1>3 DEF WriteLine, SumDraft, CommitLine, checkout
<1>4. ASSUME NEW f \in Finalizers,
             ReadDraft(f) \/ TakeNumber(f) \/ SumLines(f) \/ CommitFinalize(f) \/ LoseFinalize(f)
      PROVE  session' = session
  BY <1>4 DEF ReadDraft, TakeNumber, SumLines, CommitFinalize, LoseFinalize, checkout
<1>5. ASSUME NEW i \in Intents, NEW r \in Sessions, CreatePaySession(i, r) \/ AskForSession(i, r)
      PROVE  session'[s] = session[s]
  BY <1>5 DEF CreatePaySession, CreateOwnSession, AskForSession, InsertSession, Ended, TypeOK,
       CheckoutTypeOK
<1>6. ASSUME NEW i \in Intents, SettleInvoice(i) \/ SettleRefusal(i) PROVE session'[s] = session[s]
  BY <1>6 DEF SettleInvoice, SettleRefusal, SettlePaid, SettleFailed, FlipSession, OpenSessions,
       Ended
<1>7. ASSUME NEW i \in Intents,
             \/ CheckPayable(i) \/ MintIntent(i) \/ AttachIntent(i)
             \/ Confirm(i) \/ OpenCharge(i) \/ Advance(i)
             \/ CancelSnapshot(i) \/ CancelCommit(i) \/ ReadInvoice(i)
      PROVE  session' = session
  BY <1>7 DEF CheckPayable, MintIntent, Mint, AttachIntent, Confirm, AdmitConfirm, OpenCharge,
       Advance, CancelSnapshot, CancelCommit, ReadInvoice, checkout
<1>8. ASSUME NEW r \in Sessions, SessionNext(r) PROVE session'[s] = session[s]
  BY <1>8 DEF SessionNext, CreateSession, InsertSession, PassHorizon, Expire, ExpireDue, Ended,
       TypeOK, CheckoutTypeOK
<1> QED
  BY <1>1, <1>2, <1>3, <1>4, <1>5, <1>6, <1>7, <1>8 DEF Next, PayNext

(* A session ends once: no settlement, sweep, expire or create rewrites one that is *)
(* complete or expired (settle_for_intent, expire_due).                             *)
THEOREM SessionsEndOnce == Spec => EndedSessionsStay
<1>1. TypeOK /\ [Next]_vars =>
        [\A s \in Sessions : Ended(session[s]) => session'[s] = session[s]]_vars
  BY EndedStays
<1> QED
  BY <1>1, InvoiceTypes, PTL DEF Spec, EndedSessionsStay
=============================================================================
