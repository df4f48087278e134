--------------------------- MODULE RefundsProofs ---------------------------
(***************************************************************************)
(* What Refunds promises for any number of refunds and any amount.         *)
(***************************************************************************)
EXTENDS Refunds, FiniteSetTheorems, TLAPS

(* How far a create has come says what it has left behind. *)
LeftBehind(r) ==
  /\ create[r].pc \in {"resolved", "written", "recorded", "answered", "failing"} =>
       create[r].amount \in Nat \ {0}
  /\ create[r].pc \in {"start", "resolved"} => refund[r].status = "none"
  /\ create[r].pc \in {"written", "recorded", "answered", "failing"} =>
       refund[r].status # "none"
  /\ create[r].pc \in {"start", "resolved", "written"} => r \notin attempt
  /\ create[r].pc \in {"recorded", "answered", "failing"} => r \in attempt
  /\ refund[r].status = "none" => r \notin attempt /\ ~refund[r].old
  /\ r \notin attempt => rail[r] = "none"
  /\ At(r, "recorded") => rail[r] = "none"
  /\ At(r, "failing") => rail[r] = "refused"
  /\ create[r].late => refund[r].old

Trail == \A r \in Refunds : LeftBehind(r)

(* The invoice and the ledger follow the intent. *)
Mirrored ==
  /\ books.credited = intent.refunded
  /\ books.payable = Captured - intent.refunded

RefundInv == TypeOK /\ Trail /\ Mirrored

(* The refund of a create that is in time waits for it. *)
Young == \A r \in Refunds : ~create[r].late =>
  /\ At(r, "written") => Pending(r) /\ ~refund[r].old
  /\ At(r, "recorded") => Pending(r)

LEMMA InitRefundInv == Init => RefundInv /\ Young
BY ConstantsAssumption
DEF Init, RefundInv, TypeOK, Trail, LeftBehind, Mirrored, Young, At, Status, CreatePC

LEMMA Records ==
  ASSUME RefundInv, NEW r \in Refunds
  PROVE  /\ refund[r] \in [status: Status, amount: 0..Captured, old: BOOLEAN]
         /\ create[r] \in [pc: CreatePC, amount: Int, late: BOOLEAN]
BY DEF RefundInv, TypeOK

LEMMA RowEnds ==
  ASSUME RefundInv, NEW r \in Refunds, NEW status \in Status, Becomes(r, status)
  PROVE  /\ refund' \in [Refunds -> [status: Status, amount: 0..Captured, old: BOOLEAN]]
         /\ refund'[r].status = status
         /\ \A q \in Refunds \ {r} : refund'[q] = refund[q]
         /\ \A q \in Refunds : refund'[q].old = refund[q].old
<1>1. refund'[r] = [refund[r] EXCEPT !.status = status]
  BY DEF Becomes, RefundInv, TypeOK
<1>2. [refund[r] EXCEPT !.status = status]
        \in [status: Status, amount: 0..Captured, old: BOOLEAN]
  BY DEF RefundInv, TypeOK
<1> QED
  BY <1>1, <1>2 DEF Becomes, RefundInv, TypeOK

LEMMA CreateGoes ==
  ASSUME RefundInv, NEW r \in Refunds, NEW pc \in CreatePC, Goes(r, pc)
  PROVE  /\ create' \in [Refunds -> [pc: CreatePC, amount: Int, late: BOOLEAN]]
         /\ create'[r].pc = pc
         /\ create'[r].amount = create[r].amount
         /\ \A q \in Refunds : create'[q].late = create[q].late
         /\ \A q \in Refunds \ {r} : create'[q] = create[q]
<1>1. create'[r] = [create[r] EXCEPT !.pc = pc]
  BY DEF Goes, RefundInv, TypeOK
<1>2. [create[r] EXCEPT !.pc = pc] \in [pc: CreatePC, amount: Int, late: BOOLEAN]
  BY DEF RefundInv, TypeOK
<1> QED
  BY <1>1, <1>2 DEF Goes, RefundInv, TypeOK

LEMMA Releasing ==
  ASSUME RefundInv, NEW r \in Refunds, Releases(r)
  PROVE  /\ intent' \in [refunded: 0..Captured, pending: 0..Captured]
         /\ intent'.refunded = intent.refunded
         /\ intent'.refunded + intent'.pending <= Captured
<1>1. /\ refund[r].amount \in Nat
      /\ intent.pending \in Nat /\ intent.refunded \in Nat
      /\ intent.pending - refund[r].amount \in 0..Captured
  BY ConstantsAssumption DEF Releases, RefundInv, TypeOK
<1> QED
  BY <1>1, ConstantsAssumption DEF Releases, RefundInv, TypeOK

(* A pending refund that ends without the rail: its counters and its trail. *)
LEMMA Unreserved ==
  ASSUME RefundInv, NEW r \in Refunds, NEW status \in Status \ {"none"},
         Pending(r), Releases(r), Becomes(r, status),
         UNCHANGED <<attempt, rail, books>>,
         create' = create \/ (At(r, "failing") /\ Goes(r, "over"))
  PROVE  RefundInv'
<1>1. TypeOK'
  <2>1. create' \in [Refunds -> [pc: CreatePC, amount: Int, late: BOOLEAN]]
    BY CreateGoes DEF RefundInv, TypeOK, CreatePC
  <2> QED
    BY <2>1, RowEnds, Releasing DEF RefundInv, TypeOK
<1>2. Mirrored'
  BY Releasing DEF RefundInv, Mirrored
<1>3. \A p \in Refunds : /\ (refund'[p].status = "none" <=> refund[p].status = "none")
                         /\ refund'[p].old = refund[p].old
  BY RowEnds DEF Pending
<1>4. attempt' = attempt /\ rail' = rail
  OBVIOUS
<1>5. \A p \in Refunds : /\ create'[p] = create[p] \/ create'[p].pc = "over"
                         /\ create'[p].late = create[p].late
  BY CreateGoes DEF CreatePC
<1>6. Trail'
  <2> SUFFICES ASSUME NEW q \in Refunds
               PROVE LeftBehind(q)'
    BY DEF Trail
  <2>1. LeftBehind(q)
    BY DEF RefundInv, Trail
  <2>4. /\ refund'[q].status = "none" <=> refund[q].status = "none"
        /\ refund'[q].old = refund[q].old
        /\ q \in attempt' <=> q \in attempt
        /\ rail'[q] = rail[q]
    BY <1>3, <1>4
  <2>2. CASE create'[q] = create[q]
    BY <2>1, <2>2, <2>4 DEF LeftBehind, At
  <2>3. CASE create'[q].pc = "over"
    BY <1>5, <2>1, <2>3, <2>4 DEF LeftBehind, At
  <2> QED
    BY <1>5, <2>2, <2>3
<1> QED
  BY <1>1, <1>2, <1>6 DEF RefundInv

(* What a step may do to the rows, whatever its request. *)
LEMMA NextRefundInv == RefundInv /\ [Next]_vars => RefundInv'
<1> SUFFICES ASSUME RefundInv, [Next]_vars PROVE RefundInv'
  OBVIOUS
<1>1. ASSUME NEW r \in Refunds, Resolve(r) PROVE RefundInv'
  <2>1. PICK amount \in Amounts \cup {Remaining} :
          /\ Resolvable(amount)
          /\ create' = [create EXCEPT ![r].pc = "resolved", ![r].amount = amount]
    BY <1>1 DEF Resolve
  <2>2. amount \in Nat \ {0}
    BY <2>1, ConstantsAssumption DEF Resolvable, Amounts, Remaining, RefundInv, TypeOK
  <2>3. "resolved" \in CreatePC
    BY DEF CreatePC
  <2>4. amount \in Int
    BY <2>2
  <2>5. [create[r] EXCEPT !.pc = "resolved", !.amount = amount]
          \in [pc: CreatePC, amount: Int, late: BOOLEAN]
    <3> DEFINE S == CreatePC  N == Int
               c == create[r]
    <3>1. c \in [pc: S, amount: N, late: BOOLEAN] /\ "resolved" \in S /\ amount \in N
      BY <2>3, <2>4, Records
    <3> HIDE DEF S, N, c
    <3>2. [c EXCEPT !.pc = "resolved", !.amount = amount] \in [pc: S, amount: N, late: BOOLEAN]
      BY <3>1
    <3> QED
      BY <3>2 DEF S, N, c
  <2>6. /\ create' \in [Refunds -> [pc: CreatePC, amount: Int, late: BOOLEAN]]
        /\ create'[r].pc = "resolved" /\ create'[r].amount = amount
        /\ create'[r].late = create[r].late
        /\ \A q \in Refunds \ {r} : create'[q] = create[q]
        /\ At(r, "start") /\ UNCHANGED <<intent, refund, attempt, rail, books>>
    BY <1>1, <2>1, <2>5 DEF Resolve, RefundInv, TypeOK
  <2>7. TypeOK' /\ Mirrored'
    BY <2>6 DEF RefundInv, TypeOK, Mirrored
  <2>8. Trail'
    BY <2>6, <2>2 DEF RefundInv, TypeOK, Trail, LeftBehind, At
  <2> QED
    BY <2>7, <2>8 DEF RefundInv
<1>2. ASSUME NEW r \in Refunds,
             Refuse(r) \/ OverRefund(r) \/ Finish(r) \/ FailNothing(r) \/ Vanish(r)
      PROVE RefundInv'
  <2>1. Goes(r, "over") /\ UNCHANGED <<intent, refund, attempt, rail, books>>
    BY <1>2 DEF Refuse, OverRefund, Finish, FailNothing, Vanish
  <2> QED
    <3>1. TypeOK' /\ Mirrored'
      BY <2>1, CreateGoes DEF RefundInv, TypeOK, Mirrored, CreatePC
    <3>2. Trail'
      BY <2>1, CreateGoes DEF RefundInv, Trail, LeftBehind, At, CreatePC
    <3> QED BY <3>1, <3>2 DEF RefundInv
<1>3. ASSUME NEW r \in Refunds, Write(r) PROVE RefundInv'
  <2> DEFINE amount == create[r].amount
             row == [refund[r] EXCEPT !.status = "pending", !.amount = amount]
  <2>1. /\ At(r, "resolved") /\ Fits(amount) /\ amount \in Nat \ {0}
        /\ r \notin attempt /\ rail[r] = "none"
    BY <1>3 DEF Write, RefundInv, Trail, LeftBehind, At
  <2>2. amount \in 0..Captured
    BY <2>1, ConstantsAssumption DEF Fits, RefundInv, TypeOK
  <2>3. row \in [status: Status, amount: 0..Captured, old: BOOLEAN]
    BY <2>2, Records DEF Status
  <2>4. refund' = [refund EXCEPT ![r] = row] /\ row.status = "pending"
    BY <1>3 DEF Write, RefundInv, TypeOK
  <2>5. /\ intent' \in [refunded: 0..Captured, pending: 0..Captured]
        /\ intent'.refunded = intent.refunded
        /\ intent'.refunded + intent'.pending <= Captured
    <3> HIDE DEF amount
    <3>1. intent' = [intent EXCEPT !.pending = @ + amount]
      BY <1>3 DEF Write, amount
    <3> QED
      BY <2>1, <2>2, <3>1, ConstantsAssumption DEF Fits, RefundInv, TypeOK
  <2> HIDE DEF amount, row
  <2>6. Goes(r, "written") /\ UNCHANGED <<attempt, rail, books>>
    BY <1>3 DEF Write
  <2>7. TypeOK'
    BY <2>3, <2>4, <2>5, <2>6, CreateGoes DEF RefundInv, TypeOK, CreatePC
  <2>8. Trail'
    BY <2>1, <2>4, <2>6, CreateGoes DEF RefundInv, TypeOK, Trail, LeftBehind, At, CreatePC, amount
  <2>9. Mirrored'
    BY <2>5, <2>6 DEF RefundInv, Mirrored
  <2> QED BY <2>7, <2>8, <2>9 DEF RefundInv
<1>4. ASSUME NEW r \in Refunds, RecordAttempt(r) PROVE RefundInv'
  <2>1. /\ At(r, "written") /\ Goes(r, "recorded") /\ attempt' = attempt \cup {r}
        /\ UNCHANGED <<intent, refund, rail, books>>
    BY <1>4 DEF RecordAttempt
  <2>2. TypeOK' /\ Mirrored'
    BY <2>1, CreateGoes DEF RefundInv, TypeOK, Mirrored, CreatePC
  <2>3. Trail'
    BY <2>1, CreateGoes DEF RefundInv, TypeOK, Trail, LeftBehind, At, CreatePC
  <2> QED BY <2>2, <2>3 DEF RefundInv
<1>5. ASSUME NEW r \in Refunds, Call(r) PROVE RefundInv'
  <2>1. /\ At(r, "recorded") /\ UNCHANGED <<intent, refund, attempt, books>>
        /\ \/ rail' = [rail EXCEPT ![r] = "sent"] /\ Goes(r, "answered")
           \/ rail' = [rail EXCEPT ![r] = "refused"] /\ Goes(r, "failing")
    BY <1>5 DEF Call
  <2>2. r \in attempt /\ create[r].amount \in Nat \ {0}
    BY <2>1 DEF RefundInv, Trail, LeftBehind, At
  <2>3. PICK pc \in {"answered", "failing"} :
          /\ Goes(r, pc)
          /\ rail' = [rail EXCEPT ![r] = IF pc = "answered" THEN "sent" ELSE "refused"]
    BY <2>1
  <2>4. /\ create' \in [Refunds -> [pc: CreatePC, amount: Int, late: BOOLEAN]]
        /\ create'[r].pc = pc /\ create'[r].amount = create[r].amount
        /\ create'[r].late = create[r].late
        /\ \A q \in Refunds \ {r} : create'[q] = create[q]
    BY <2>3, CreateGoes DEF CreatePC
  <2>5. TypeOK' /\ Mirrored'
    BY <2>1, <2>3, <2>4 DEF RefundInv, TypeOK, Mirrored
  <2>6. Trail'
    BY <2>1, <2>2, <2>3, <2>4 DEF RefundInv, TypeOK, Trail, LeftBehind, At
  <2> QED BY <2>5, <2>6 DEF RefundInv
<1>6. ASSUME NEW r \in Refunds, Fail(r) PROVE RefundInv'
  BY <1>6, Unreserved DEF Fail, Status
<1>7. ASSUME NEW r \in Refunds, Age(r) PROVE RefundInv'
  <2>1. [refund[r] EXCEPT !.old = TRUE] \in [status: Status, amount: 0..Captured, old: BOOLEAN]
    BY Records
  <2>2. /\ refund' \in [Refunds -> [status: Status, amount: 0..Captured, old: BOOLEAN]]
        /\ \A q \in Refunds : refund'[q].status = refund[q].status
        /\ \A q \in Refunds : refund[q].status = "none" => refund'[q].old = refund[q].old
        /\ \A q \in Refunds : refund[q].old => refund'[q].old
        /\ refund'[r].old
        /\ UNCHANGED <<intent, attempt, rail, books>>
    BY <1>7, <2>1 DEF Age, Pending, RefundInv, TypeOK
  <2>3. create' = [create EXCEPT ![r] = [@ EXCEPT !.late = At(r, "written")]]
    BY <1>7 DEF Age, RefundInv, TypeOK
  <2>4. [create[r] EXCEPT !.late = At(r, "written")]
          \in [pc: CreatePC, amount: Int, late: BOOLEAN]
    BY DEF RefundInv, TypeOK, At
  <2>5. /\ create' \in [Refunds -> [pc: CreatePC, amount: Int, late: BOOLEAN]]
        /\ \A q \in Refunds : /\ create'[q].pc = create[q].pc
                              /\ create'[q].amount = create[q].amount
        /\ \A q \in Refunds \ {r} : create'[q] = create[q]
    BY <2>3, <2>4 DEF RefundInv, TypeOK
  <2>6. TypeOK' /\ Mirrored'
    BY <2>2, <2>5 DEF RefundInv, TypeOK, Mirrored
  <2>7. Trail'
    BY <2>2, <2>5 DEF RefundInv, Trail, LeftBehind, At
  <2> QED BY <2>6, <2>7 DEF RefundInv
<1>8. ASSUME NEW r \in Refunds, Cancel(r) PROVE RefundInv'
  BY <1>8, Unreserved DEF Cancel, Cancelable, Status
<1>9. ASSUME NEW r \in Refunds, RailEnds(r) PROVE RefundInv'
  <2>1. /\ rail[r] = "sent"
        /\ \E end \in {"moved", "refused"} : rail' = [rail EXCEPT ![r] = end]
        /\ UNCHANGED <<intent, refund, attempt, create, books>>
    BY <1>9 DEF RailEnds
  <2>2. TypeOK' /\ Mirrored'
    BY <2>1 DEF RefundInv, TypeOK, Mirrored
  <2>3. Trail'
    BY <2>1 DEF RefundInv, TypeOK, Trail, LeftBehind, At
  <2> QED BY <2>2, <2>3 DEF RefundInv
<1>10. ASSUME NEW r \in Refunds, SettleSucceeded(r) PROVE RefundInv'
  <2>1. /\ Pending(r) /\ intent.pending >= refund[r].amount
        /\ Becomes(r, "succeeded") /\ UNCHANGED <<attempt, create, rail>>
    BY <1>10 DEF SettleSucceeded, Settleable
  <2>2. refund[r].amount \in 0..Captured
    BY DEF RefundInv, TypeOK
  <2>3. /\ intent'.refunded = intent.refunded + refund[r].amount
        /\ intent'.pending = intent.pending - refund[r].amount
        /\ intent' \in [refunded: 0..Captured, pending: 0..Captured]
        /\ intent'.refunded + intent'.pending <= Captured
    BY <1>10, <2>1, <2>2, ConstantsAssumption DEF SettleSucceeded, RefundInv, TypeOK
  <2>4. Mirrored' /\ books' \in [payable: 0..Captured, credited: 0..Captured]
    <3>1. /\ books'.payable = books.payable - refund[r].amount
          /\ books'.credited = books.credited + refund[r].amount
          /\ books' = [payable |-> books'.payable, credited |-> books'.credited]
      BY <1>10 DEF SettleSucceeded
    <3>2. books.credited = intent.refunded /\ books.payable = Captured - intent.refunded
      BY DEF RefundInv, Mirrored
    <3>3. /\ intent.refunded \in Nat /\ intent'.refunded \in 0..Captured
      BY <2>3, ConstantsAssumption DEF RefundInv, TypeOK
    <3> QED
      BY <2>2, <2>3, <3>1, <3>2, <3>3, ConstantsAssumption DEF Mirrored
  <2>5. TypeOK'
    BY <2>1, <2>3, <2>4, RowEnds DEF RefundInv, TypeOK, Status
  <2>6. Trail'
    BY <2>1, RowEnds DEF RefundInv, Trail, LeftBehind, At, Pending, Status
  <2> QED BY <2>4, <2>5, <2>6 DEF RefundInv
<1>11. ASSUME NEW r \in Refunds, SettleFailed(r) PROVE RefundInv'
  BY <1>11, Unreserved DEF SettleFailed, Settleable, Status
<1>12. ASSUME UNCHANGED vars PROVE RefundInv'
  BY <1>12 DEF vars, RefundInv, TypeOK, Trail, LeftBehind, Mirrored, At
<1> QED
  BY <1>1, <1>2, <1>3, <1>4, <1>5, <1>6, <1>7, <1>8, <1>9, <1>10, <1>11, <1>12 DEF Next

(* Which steps write which column. *)
LEMMA RailStep ==
  ASSUME RefundInv, [Next]_vars, NEW r \in Refunds,
         \A q \in Refunds : Call(q) \/ RailEnds(q) => q # r
  PROVE  rail'[r] = rail[r]
<1>1. ASSUME NEW q \in Refunds, Call(q) \/ RailEnds(q) PROVE rail'[r] = rail[r]
  BY <1>1 DEF Call, RailEnds, RefundInv, TypeOK
<1>2. ASSUME NEW q \in Refunds,
             Resolve(q) \/ Refuse(q) \/ Write(q) \/ OverRefund(q) \/ RecordAttempt(q)
               \/ Finish(q) \/ Fail(q) \/ FailNothing(q) \/ Vanish(q) \/ Age(q)
               \/ Cancel(q) \/ SettleSucceeded(q) \/ SettleFailed(q)
      PROVE  rail' = rail
  BY <1>2
  DEF Resolve, Refuse, Write, OverRefund, RecordAttempt, Finish, Fail, FailNothing,
      Vanish, Age, Cancel, SettleSucceeded, SettleFailed
<1> QED
  BY <1>1, <1>2 DEF Next, vars

LEMMA RowStep ==
  ASSUME RefundInv, [Next]_vars, NEW r \in Refunds,
         refund'[r].status # refund[r].status
  PROVE  \/ refund[r].status = "none" /\ refund'[r].status = "pending"
         \/ /\ refund[r].status = "pending"
            /\ \/ Fail(r) \/ Cancel(r) \/ SettleFailed(r)
               \/ refund'[r].status = "succeeded"
<1>1. ASSUME NEW q \in Refunds, Write(q)
      PROVE  q = r /\ refund[r].status = "none" /\ refund'[r].status = "pending"
  BY <1>1 DEF Write, At, RefundInv, Trail, LeftBehind, TypeOK
<1>2. ASSUME NEW q \in Refunds, Fail(q) \/ Cancel(q) \/ SettleFailed(q)
      PROVE  q = r /\ refund[r].status = "pending"
  BY <1>2
  DEF Fail, Cancel, SettleFailed, Cancelable, Settleable, Pending, Becomes, RefundInv,
      TypeOK
<1>3. ASSUME NEW q \in Refunds, SettleSucceeded(q)
      PROVE  refund[r].status = "pending" /\ refund'[r].status = "succeeded"
  BY <1>3 DEF SettleSucceeded, Settleable, Pending, Becomes, RefundInv, TypeOK
<1>4. ASSUME NEW q \in Refunds PROVE ~Age(q)
  BY DEF Age, RefundInv, TypeOK
<1>5. ASSUME NEW q \in Refunds,
             Resolve(q) \/ Refuse(q) \/ OverRefund(q) \/ RecordAttempt(q) \/ Call(q)
               \/ Finish(q) \/ FailNothing(q) \/ Vanish(q) \/ RailEnds(q)
      PROVE  FALSE
  BY <1>5
  DEF Resolve, Refuse, OverRefund, RecordAttempt, Call, Finish, FailNothing, Vanish,
      RailEnds
<1> QED
  BY <1>1, <1>2, <1>3, <1>4, <1>5 DEF Next, vars

(* A create that was late stays so. *)
LEMMA LateStep ==
  ASSUME RefundInv, [Next]_vars, NEW r \in Refunds, create[r].late
  PROVE  create'[r].late
<1>1. ASSUME NEW q \in Refunds, Age(q) PROVE create'[r].late
  <2>1. q # r
    BY <1>1 DEF Age, RefundInv, Trail, LeftBehind
  <2> QED
    BY <1>1, <2>1 DEF Age, RefundInv, TypeOK
<1>2. ASSUME NEW q \in Refunds, NEW pc \in CreatePC, Goes(q, pc) PROVE create'[r].late
  BY <1>2, CreateGoes
<1>3. ASSUME NEW q \in Refunds, Resolve(q) PROVE create'[r].late
  BY <1>3 DEF Resolve, RefundInv, TypeOK
<1>4. ASSUME NEW q \in Refunds,
             Refuse(q) \/ Write(q) \/ OverRefund(q) \/ RecordAttempt(q) \/ Call(q)
               \/ Finish(q) \/ Fail(q) \/ FailNothing(q) \/ Vanish(q)
      PROVE  create'[r].late
  BY <1>2, <1>4
  DEF Refuse, Write, OverRefund, RecordAttempt, Call, Finish, Fail, FailNothing, Vanish,
      CreatePC
<1>5. ASSUME NEW q \in Refunds,
             Cancel(q) \/ RailEnds(q) \/ SettleSucceeded(q) \/ SettleFailed(q)
      PROVE  create' = create
  BY <1>5 DEF Cancel, RailEnds, SettleSucceeded, SettleFailed
<1> QED
  BY <1>1, <1>3, <1>4, <1>5 DEF Next, vars

(***************************************************************************)
(* The money a canceled or failed refund promises not to move.             *)
(***************************************************************************)
LEMMA NextYoung ==
  ASSUME RefundInv, Young, [Next]_vars
  PROVE  Young'
<1>1. ASSUME NEW r \in Refunds, Write(r) PROVE Young'
  <2>1. /\ Goes(r, "written")
        /\ refund'[r].status = "pending" /\ ~refund'[r].old
        /\ \A q \in Refunds \ {r} : refund'[q] = refund[q]
    BY <1>1 DEF Write, RefundInv, TypeOK, Trail, LeftBehind, At
  <2> QED
    BY <2>1, CreateGoes DEF Young, At, Pending, CreatePC
<1>2. ASSUME NEW r \in Refunds, RecordAttempt(r) PROVE Young'
  <2>1. At(r, "written") /\ Goes(r, "recorded") /\ UNCHANGED refund
    BY <1>2 DEF RecordAttempt
  <2> QED
    BY <2>1, CreateGoes DEF Young, At, Pending, CreatePC
<1>3. ASSUME NEW r \in Refunds, NEW pc \in CreatePC \ {"written", "recorded"},
             Goes(r, pc), UNCHANGED refund
      PROVE  Young'
  BY <1>3, CreateGoes DEF Young, At, Pending
<1>4. ASSUME NEW r \in Refunds, Resolve(r) PROVE Young'
  BY <1>4 DEF Resolve, Young, At, Pending, RefundInv, TypeOK
<1>5. ASSUME NEW r \in Refunds, NEW status \in Status, Becomes(r, status),
             create[r].late \/ (~At(r, "written") /\ ~At(r, "recorded")),
             create' = create \/ Goes(r, "over")
      PROVE  Young'
  <2>1. \A q \in Refunds : create'[q] = create[q] \/ create'[q].pc = "over"
    BY <1>5, CreateGoes DEF CreatePC
  <2>2. create'[r].late \/ (~(At(r, "written"))' /\ ~(At(r, "recorded"))')
    BY <1>5, <2>1, CreateGoes DEF At, CreatePC
  <2> QED
    BY <1>5, <2>1, <2>2, RowEnds DEF Young, At, Pending
<1>6. ASSUME NEW r \in Refunds, Age(r) PROVE Young'
  <2>1. \A q \in Refunds \ {r} : create'[q] = create[q] /\ refund'[q] = refund[q]
    BY <1>6 DEF Age, RefundInv, TypeOK
  <2>2. /\ create'[r].late = At(r, "written") /\ create'[r].pc = create[r].pc
        /\ refund'[r].status = "pending"
    BY <1>6 DEF Age, Pending, RefundInv, TypeOK
  <2>3. ASSUME NEW q \in Refunds \ {r}, ~create'[q].late
        PROVE  /\ At(q, "written")' => Pending(q)' /\ ~refund'[q].old
               /\ At(q, "recorded")' => Pending(q)'
    BY <2>1, <2>3 DEF Young, At, Pending
  <2>4. ASSUME ~create'[r].late
        PROVE  ~At(r, "written")' /\ Pending(r)'
    BY <2>2, <2>4 DEF At, Pending
  <2> QED
    BY <2>3, <2>4 DEF Young
<1>7. ASSUME NEW r \in Refunds, Cancel(r) PROVE Young'
  <2>1. Cancelable(r) /\ Becomes(r, "canceled") /\ create' = create
    BY <1>7 DEF Cancel
  <2>2. create[r].late \/ (~At(r, "written") /\ ~At(r, "recorded"))
    BY <2>1 DEF Cancelable, Young, RefundInv, Trail, LeftBehind, At
  <2> QED
    BY <1>5, <2>1, <2>2 DEF Status
<1>8. ASSUME NEW r \in Refunds, SettleSucceeded(r) \/ SettleFailed(r) PROVE Young'
  <2>1. /\ rail[r] # "none" /\ create' = create
        /\ Becomes(r, "succeeded") \/ Becomes(r, "failed")
    BY <1>8 DEF SettleSucceeded, SettleFailed
  <2>2. ~At(r, "written") /\ ~At(r, "recorded")
    BY <2>1 DEF RefundInv, Trail, LeftBehind, At
  <2> QED
    BY <1>5, <2>1, <2>2 DEF Status
<1>9. ASSUME NEW r \in Refunds, Fail(r) PROVE Young'
  <2>1. At(r, "failing") /\ Becomes(r, "failed") /\ Goes(r, "over")
    BY <1>9 DEF Fail
  <2> QED
    BY <1>5, <2>1 DEF Status, At
<1>10. ASSUME NEW r \in Refunds, Call(r) PROVE Young'
  BY <1>10, <1>3 DEF Call, CreatePC
<1>11. ASSUME NEW r \in Refunds,
              Refuse(r) \/ OverRefund(r) \/ Finish(r) \/ FailNothing(r) \/ Vanish(r)
       PROVE Young'
  BY <1>11, <1>3 DEF Refuse, OverRefund, Finish, FailNothing, Vanish, CreatePC
<1>12. ASSUME NEW r \in Refunds, RailEnds(r) PROVE Young'
  BY <1>12 DEF RailEnds, Young, At, Pending
<1>13. ASSUME UNCHANGED vars PROVE Young'
  BY <1>13 DEF vars, Young, At, Pending
<1> QED
  BY <1>1, <1>2, <1>4, <1>6, <1>7, <1>8, <1>9, <1>10, <1>11, <1>12, <1>13 DEF Next

(* A refund that ended before the rail was asked is not asked of it again. *)
LEMMA NextPromise ==
  ASSUME RefundInv, Young, PromiseKept, [Next]_vars
  PROVE  PromiseKept'
<1>1. Young' /\ RefundInv'
  BY NextYoung, NextRefundInv
<1>2. \A r \in Refunds : refund'[r].status \in {"canceled", "failed"} =>
        create'[r].late \/ (~(At(r, "written"))' /\ ~(At(r, "recorded"))')
  BY <1>1 DEF Young, Pending
<1>3. ASSUME NEW r \in Refunds, refund'[r].status \in {"canceled", "failed"},
             ~create'[r].late
      PROVE  rail'[r] \in {"none", "refused"}
  <2>1. CASE refund[r].status \in {"canceled", "failed"}
    <3>1. rail[r] \in {"none", "refused"} /\ ~At(r, "recorded")
      BY <1>3, <2>1, LateStep DEF PromiseKept
    <3>2. ASSUME NEW q \in Refunds, Call(q) \/ RailEnds(q) PROVE q # r
      BY <3>1, <3>2 DEF Call, RailEnds
    <3>3. rail'[r] = rail[r]
      BY <3>2, RailStep DEF RefundInv, TypeOK
    <3> QED BY <3>1, <3>3
  <2>2. CASE refund[r].status \notin {"canceled", "failed"}
    <3>1. Fail(r) \/ Cancel(r) \/ SettleFailed(r)
      BY <1>3, <2>2, RowStep
    <3>2. rail' = rail
      BY <3>1 DEF Fail, Cancel, SettleFailed
    <3>3. CASE Cancel(r)
      BY <3>2, <3>3 DEF Cancel, Cancelable, RefundInv, Trail, LeftBehind
    <3>4. CASE Fail(r) \/ SettleFailed(r)
      BY <3>2, <3>4 DEF Fail, SettleFailed, RefundInv, Trail, LeftBehind
    <3> QED BY <3>1, <3>2, <3>3, <3>4
  <2> QED BY <2>1, <2>2
<1> QED
  BY <1>2, <1>3 DEF PromiseKept

LEMMA Always == Spec => []RefundInv
<1>1. Init => RefundInv
  BY InitRefundInv
<1>2. RefundInv /\ [Next]_vars => RefundInv'
  BY NextRefundInv
<1> QED
  BY <1>1, <1>2, PTL DEF Spec

(* Rows, counters and requests keep their types; no_over_refund is never   *)
(* broken, and the ledger is never left owing the merchant less than zero. *)
THEOREM RefundTypes == Spec => []TypeOK
<1>1. RefundInv => TypeOK
  BY DEF RefundInv
<1> QED
  BY <1>1, Always, PTL

(* cancel_in_tx: no transfer is made for a refund that was canceled or     *)
(* failed, unless its create took a minute to write its attempt row.       *)
THEOREM NoMoneyForACanceledRefund == Spec => []PromiseKept
<1>1. Init => RefundInv /\ Young /\ PromiseKept
  BY InitRefundInv DEF Init, PromiseKept
<1>2. RefundInv /\ Young /\ PromiseKept /\ [Next]_vars =>
        (RefundInv /\ Young /\ PromiseKept)'
  BY NextRefundInv, NextYoung, NextPromise
<1> QED
  BY <1>1, <1>2, PTL DEF Spec

(* A cancel, a failure and a settlement that race: the first one stays.    *)
THEOREM OneEnd == Spec => EndedForGood
<1>1. ASSUME RefundInv, [Next]_vars, NEW r \in Refunds,
             refund[r].status \notin {"none", "pending"}
      PROVE  refund'[r].status = refund[r].status
  BY <1>1, RowStep
<1>2. RefundInv /\ [Next]_vars =>
        [\A r \in Refunds : refund[r].status \notin {"none", "pending"} =>
           refund'[r].status = refund[r].status]_vars
  BY <1>1
<1> QED
  BY <1>2, Always, PTL DEF Spec, EndedForGood

-----------------------------------------------------------------------------
(* Sums over a finite set of rows.  Induction is on the set, as a fact about *)
(* the least of its subsets, so that no operator is a parameter.             *)

Sum(f, S) == MapThenSumSet(LAMBDA r : f[r].amount, S)

First(s) == CHOOSE x \in s : TRUE
Rest(s)  == s \ {First(s)}
Sums(g, f, S) == g = [s \in SUBSET S |-> IF s = {} THEN 0 ELSE f[First(s)].amount + g[Rest(s)]]

LEMMA FirstIsIn ==
  ASSUME NEW s, s # {}
  PROVE  First(s) \in s /\ Rest(s) \subseteq s /\ Rest(s) # s
  BY DEF First, Rest

\* Induction on a finite set, as a fact about a set of its subsets.
LEMMA Smallest ==
  ASSUME NEW S, IsFiniteSet(S), NEW X \in SUBSET SUBSET S, X # {}
  PROVE  \E T \in X : \A U \in X : U \subseteq T => U = T
<1>1. FiniteSubsetsOf(S) = SUBSET S
  BY FS_FiniteSubsetsOfFinite
<1>2. IsWellFoundedOn(StrictSubsetOrdering(S), SUBSET S)
  BY <1>1, FS_StrictSubsetOrderingWellFounded
<1>3. \E T \in X : \A U \in X : <<U, T>> \notin StrictSubsetOrdering(S)
  BY <1>2, WFMin
<1> QED
  BY <1>3 DEF StrictSubsetOrdering

LEMMA SumsUnique ==
  ASSUME NEW f, NEW S, IsFiniteSet(S), NEW T \in SUBSET S, NEW U \in SUBSET S,
         NEW g, Sums(g, f, T), NEW h, Sums(h, f, U)
  PROVE  \A s \in SUBSET (T \cap U) : g[s] = h[s]
<1> DEFINE X == {s \in SUBSET (T \cap U) : g[s] # h[s]}
<1> SUFFICES X = {}
  OBVIOUS
<1> SUFFICES ASSUME X # {} PROVE FALSE
  OBVIOUS
<1>1. X \in SUBSET SUBSET S
  OBVIOUS
<1>2. PICK s \in X : \A t \in X : t \subseteq s => t = s
  <2> HIDE DEF X
  <2> QED BY <1>1, Smallest
<1>3. g[s] = (IF s = {} THEN 0 ELSE f[First(s)].amount + g[Rest(s)])
  BY DEF Sums
<1>4. h[s] = (IF s = {} THEN 0 ELSE f[First(s)].amount + h[Rest(s)])
  BY DEF Sums
<1>5. s # {}
  BY <1>3, <1>4
<1>6. Rest(s) \notin X /\ Rest(s) \subseteq s
  BY <1>2, <1>5, FirstIsIn
<1>7. g[Rest(s)] = h[Rest(s)]
  BY <1>6
<1> QED
  BY <1>3, <1>4, <1>5, <1>7

LEMMA SumsExist ==
  ASSUME NEW f, NEW S, IsFiniteSet(S)
  PROVE  \E g : Sums(g, f, S)
<1> DEFINE X == {T \in SUBSET S : ~ \E g : Sums(g, f, T)}
<1> SUFFICES ASSUME X # {} PROVE FALSE
  OBVIOUS
<1>1. PICK T \in X : \A U \in X : U \subseteq T => U = T
  <2>1. X \in SUBSET SUBSET S
    OBVIOUS
  <2> HIDE DEF X
  <2> QED BY <2>1, Smallest
<1> DEFINE G(U) == CHOOSE g : Sums(g, f, U)
<1>2. \A U \in SUBSET T : U # T => Sums(G(U), f, U)
  BY <1>1
<1> DEFINE g == [s \in SUBSET T |-> IF s = {} THEN 0 ELSE f[First(s)].amount + G(Rest(s))[Rest(s)]]
<1>3. \A s \in SUBSET T : s # {} => g[Rest(s)] = G(Rest(s))[Rest(s)]
  <2> SUFFICES ASSUME NEW s \in SUBSET T, s # {} PROVE g[Rest(s)] = G(Rest(s))[Rest(s)]
    OBVIOUS
  <2> DEFINE t == Rest(s)
  <2>1. t \in SUBSET T /\ t # T
    BY FirstIsIn
  <2>2. Sums(G(t), f, t)
    BY <1>2, <2>1
  <2>3. G(t)[t] = (IF t = {} THEN 0 ELSE f[First(t)].amount + G(t)[Rest(t)])
    <3> HIDE DEF G
    <3> QED BY <2>2 DEF Sums
  <2>4. t # {} => G(t)[Rest(t)] = G(Rest(t))[Rest(t)]
    <3> SUFFICES ASSUME t # {} PROVE G(t)[Rest(t)] = G(Rest(t))[Rest(t)]
      OBVIOUS
    <3>1. Rest(t) \in SUBSET t /\ Rest(t) # t
      BY FirstIsIn
    <3>2. Sums(G(Rest(t)), f, Rest(t))
      BY <1>2, <2>1, <3>1
    <3> HIDE DEF G, t
    <3>3. t \in SUBSET S /\ Rest(t) \in SUBSET S /\ Rest(t) \in SUBSET (t \cap Rest(t))
      BY <2>1, <3>1
    <3> QED
      BY <2>2, <3>2, <3>3, SumsUnique
  <2>5. g[t] = (IF t = {} THEN 0 ELSE f[First(t)].amount + G(Rest(t))[Rest(t)])
    BY <2>1
  <2> QED
    BY <2>3, <2>4, <2>5
<1>4. Sums(g, f, T)
  <2> DEFINE e(s) == IF s = {} THEN 0 ELSE f[First(s)].amount + g[Rest(s)]
  <2>1. \A s \in SUBSET T : g[s] = e(s)
    <3> SUFFICES ASSUME NEW s \in SUBSET T PROVE g[s] = e(s)
      OBVIOUS
    <3>1. g[s] = IF s = {} THEN 0 ELSE f[First(s)].amount + G(Rest(s))[Rest(s)]
      OBVIOUS
    <3>2. s # {} => g[Rest(s)] = G(Rest(s))[Rest(s)]
      BY <1>3
    <3> HIDE DEF g, G
    <3> QED BY <3>1, <3>2
  <2>2. g = [s \in SUBSET T |-> g[s]]
    OBVIOUS
  <2> HIDE DEF g
  <2>3. g = [s \in SUBSET T |-> e(s)]
    BY <2>1, <2>2, Zenon
  <2> QED
    BY <2>3 DEF Sums
<1> QED
  BY <1>4

-----------------------------------------------------------------------------
(* What a sum is made of, whatever order its elements are taken in. *)

LEMMA SumsAre ==
  ASSUME NEW f, NEW S, IsFiniteSet(S)
  PROVE  \E g : Sums(g, f, S) /\ \A T \in SUBSET S : Sum(f, T) = g[T]
<1>1. ASSUME NEW T, IsFiniteSet(T)
      PROVE  \E g : Sums(g, f, T) /\ Sum(f, T) = g[T]
  <2>1. Sum(f, T) = (CHOOSE g : Sums(g, f, T))[T]
    BY DEF Sum, MapThenSumSet, MapThenFoldSet, Sums, First, Rest
  <2> QED
    BY <1>1, <2>1, SumsExist
<1>2. PICK g : Sums(g, f, S)
  BY SumsExist
<1>3. ASSUME NEW T \in SUBSET S PROVE Sum(f, T) = g[T]
  <2>1. IsFiniteSet(T)
    BY FS_Subset
  <2>2. PICK h : Sums(h, f, T) /\ Sum(f, T) = h[T]
    BY <1>1, <2>1
  <2>3. T \in SUBSET (T \cap S)
    OBVIOUS
  <2> QED
    BY <1>2, <2>2, <2>3, SumsUnique
<1> QED
  BY <1>2, <1>3

LEMMA SumEmpty == ASSUME NEW f PROVE Sum(f, {}) = 0
<1>1. IsFiniteSet({})
  BY FS_EmptySet
<1>2. PICK g : Sums(g, f, {}) /\ \A T \in SUBSET {} : Sum(f, T) = g[T]
  BY <1>1, SumsAre
<1> QED
  BY <1>2 DEF Sums

LEMMA SumFirst ==
  ASSUME NEW f, NEW S, IsFiniteSet(S), S # {}
  PROVE  Sum(f, S) = f[First(S)].amount + Sum(f, Rest(S))
<1>1. PICK g : Sums(g, f, S) /\ \A T \in SUBSET S : Sum(f, T) = g[T]
  BY SumsAre
<1>2. Rest(S) \in SUBSET S
  BY FirstIsIn
<1>3. g[S] = f[First(S)].amount + g[Rest(S)]
  BY <1>1 DEF Sums
<1> QED
  BY <1>1, <1>2, <1>3

LEMMA SumType ==
  ASSUME NEW f, NEW S, IsFiniteSet(S), \A r \in S : f[r].amount \in Nat
  PROVE  Sum(f, S) \in Nat
<1> DEFINE X == {T \in SUBSET S : Sum(f, T) \notin Nat}
<1> SUFFICES ASSUME X # {} PROVE FALSE
  OBVIOUS
<1>1. PICK T \in X : \A U \in X : U \subseteq T => U = T
  <2>1. X \in SUBSET SUBSET S
    OBVIOUS
  <2> HIDE DEF X
  <2> QED BY <2>1, Smallest
<1>2. T \in SUBSET S /\ IsFiniteSet(T) /\ T # {}
  <2>1. Sum(f, {}) \in Nat
    BY SumEmpty
  <2> QED
    BY <2>1, FS_Subset
<1>3. First(T) \in T /\ Rest(T) \in SUBSET S /\ Rest(T) \notin X
  BY <1>1, <1>2, FirstIsIn
<1>4. Sum(f, Rest(T)) \in Nat
  BY <1>3
<1>5. Sum(f, T) = f[First(T)].amount + Sum(f, Rest(T))
  BY <1>2, SumFirst
<1>6. f[First(T)].amount \in Nat
  BY <1>2, <1>3
<1>7. Sum(f, T) \in Nat
  BY <1>4, <1>5, <1>6
<1> QED
  BY <1>7

\* Any element may be taken first.
LEMMA SumWithout ==
  ASSUME NEW f, NEW S, IsFiniteSet(S), \A r \in S : f[r].amount \in Nat, NEW x \in S
  PROVE  Sum(f, S) = f[x].amount + Sum(f, S \ {x})
<1> DEFINE Good(T) == \A y \in T : Sum(f, T) = f[y].amount + Sum(f, T \ {y})
<1> DEFINE X == {T \in SUBSET S : ~ Good(T)}
<1> SUFFICES ASSUME X # {} PROVE FALSE
  OBVIOUS
<1>1. PICK T \in X : \A U \in X : U \subseteq T => U = T
  <2>1. X \in SUBSET SUBSET S
    OBVIOUS
  <2> HIDE DEF X
  <2> QED BY <2>1, Smallest
<1>2. T \in SUBSET S /\ IsFiniteSet(T)
  BY FS_Subset
<1>3. PICK y \in T : Sum(f, T) # f[y].amount + Sum(f, T \ {y})
  OBVIOUS
<1> DEFINE c == First(T)
<1>4. c \in T
  BY <1>3, FirstIsIn
<1>5. Sum(f, T) = f[c].amount + Sum(f, T \ {c})
  BY <1>2, <1>3, SumFirst DEF Rest
<1>6. c # y
  BY <1>3, <1>5
<1>7. /\ T \ {c} \in SUBSET S /\ T \ {c} \subseteq T /\ T \ {c} # T
      /\ T \ {y} \in SUBSET S /\ T \ {y} \subseteq T /\ T \ {y} # T
  BY <1>2, <1>3, <1>4
<1>8. Good(T \ {c}) /\ Good(T \ {y})
  BY <1>1, <1>7
<1>9. /\ Sum(f, T \ {c}) = f[y].amount + Sum(f, (T \ {c}) \ {y})
      /\ Sum(f, T \ {y}) = f[c].amount + Sum(f, (T \ {y}) \ {c})
  BY <1>3, <1>4, <1>6, <1>8
<1>10. (T \ {c}) \ {y} = (T \ {y}) \ {c}
  OBVIOUS
<1> DEFINE U == (T \ {c}) \ {y}
<1>11. Sum(f, U) \in Nat
  <2>1. U \in SUBSET S
    BY <1>2
  <2>2. IsFiniteSet(U) /\ \A r \in U : f[r].amount \in Nat
    BY <2>1, FS_Subset
  <2> HIDE DEF U
  <2> QED BY <2>2, SumType
<1>12. f[c].amount \in Nat /\ f[y].amount \in Nat
  BY <1>2, <1>3, <1>4
<1>13. Sum(f, T \ {c}) = f[y].amount + Sum(f, U) /\ Sum(f, T \ {y}) = f[c].amount + Sum(f, U)
  BY <1>9, <1>10, Zenon
<1>14. Sum(f, T) = f[y].amount + Sum(f, T \ {y})
  <2> HIDE DEF c, Good, X, U
  <2> QED BY <1>5, <1>11, <1>12, <1>13
<1> QED
  BY <1>3, <1>14

\* A sum looks at its elements only.
LEMMA SumSame ==
  ASSUME NEW f, NEW h, NEW S, IsFiniteSet(S), \A r \in S : f[r].amount = h[r].amount
  PROVE  Sum(f, S) = Sum(h, S)
<1> DEFINE X == {T \in SUBSET S : Sum(f, T) # Sum(h, T)}
<1> SUFFICES ASSUME X # {} PROVE FALSE
  OBVIOUS
<1>1. PICK T \in X : \A U \in X : U \subseteq T => U = T
  <2>1. X \in SUBSET SUBSET S
    OBVIOUS
  <2> HIDE DEF X
  <2> QED BY <2>1, Smallest
<1>2. T \in SUBSET S /\ IsFiniteSet(T) /\ T # {}
  BY FS_Subset, SumEmpty
<1>3. First(T) \in T /\ Rest(T) \in SUBSET S /\ Rest(T) \notin X
  BY <1>1, <1>2, FirstIsIn
<1>4. Sum(f, Rest(T)) = Sum(h, Rest(T))
  BY <1>3
<1>5. /\ Sum(f, T) = f[First(T)].amount + Sum(f, Rest(T))
      /\ Sum(h, T) = h[First(T)].amount + Sum(h, Rest(T))
  BY <1>2, SumFirst
<1>6. Sum(f, T) = Sum(h, T)
  BY <1>2, <1>3, <1>4, <1>5
<1> QED
  BY <1>6

\* Of two sets that have no element in common.
LEMMA SumOfBoth ==
  ASSUME NEW f, NEW S, NEW U, IsFiniteSet(S), IsFiniteSet(U), S \cap U = {},
         \A r \in S \cup U : f[r].amount \in Nat
  PROVE  Sum(f, S \cup U) = Sum(f, S) + Sum(f, U)
<1> DEFINE X == {T \in SUBSET S : Sum(f, T \cup U) # Sum(f, T) + Sum(f, U)}
<1> SUFFICES ASSUME X # {} PROVE FALSE
  OBVIOUS
<1>1. PICK T \in X : \A V \in X : V \subseteq T => V = T
  <2>1. X \in SUBSET SUBSET S
    OBVIOUS
  <2> HIDE DEF X
  <2> QED BY <2>1, Smallest
<1>2. T \in SUBSET S /\ IsFiniteSet(T)
  BY FS_Subset
<1>3. Sum(f, U) \in Nat
  BY SumType
<1>4. T # {}
  <2>1. {} \cup U = U
    OBVIOUS
  <2> QED
    BY <1>3, <2>1, SumEmpty
<1>5. PICK x \in T : TRUE
  BY <1>4
<1>6. /\ T \ {x} \in SUBSET S /\ T \ {x} \notin X
      /\ (T \cup U) \ {x} = (T \ {x}) \cup U
      /\ x \in T \cup U
  BY <1>1, <1>2, <1>5
<1>7. Sum(f, (T \ {x}) \cup U) = Sum(f, T \ {x}) + Sum(f, U)
  BY <1>6
<1>8. Sum(f, T) = f[x].amount + Sum(f, T \ {x})
  BY <1>2, SumWithout
<1>9. Sum(f, T \cup U) = f[x].amount + Sum(f, (T \ {x}) \cup U)
  <2>1. IsFiniteSet(T \cup U) /\ \A r \in T \cup U : f[r].amount \in Nat
    BY <1>2, FS_Union
  <2> QED
    BY <1>6, <2>1, SumWithout
<1>10. Sum(f, T \ {x}) \in Nat /\ f[x].amount \in Nat
  <2>1. IsFiniteSet(T \ {x}) /\ \A r \in T \ {x} : f[r].amount \in Nat
    BY <1>2, FS_RemoveElement
  <2> QED
    BY <1>2, <2>1, SumType
<1>11. Sum(f, T \cup U) = Sum(f, T) + Sum(f, U)
  BY <1>3, <1>7, <1>8, <1>9, <1>10
<1> QED
  BY <1>11

LEMMA SumOfPart ==
  ASSUME NEW f, NEW S, IsFiniteSet(S), \A r \in S : f[r].amount \in Nat, NEW T \in SUBSET S
  PROVE  Sum(f, T) <= Sum(f, S)
<1> DEFINE U == S \ T
<1>1. IsFiniteSet(T) /\ IsFiniteSet(U)
  BY FS_Subset, FS_Difference
<1>2. T \cup U = S /\ T \cap U = {}
  OBVIOUS
<1>3. /\ \A r \in T : f[r].amount \in Nat
      /\ \A r \in U : f[r].amount \in Nat
      /\ \A r \in T \cup U : f[r].amount \in Nat
  OBVIOUS
<1> HIDE DEF U
<1>4. Sum(f, T) \in Nat /\ Sum(f, U) \in Nat
  BY <1>1, <1>3, SumType
<1>5. Sum(f, S) = Sum(f, T) + Sum(f, U)
  BY <1>1, <1>2, <1>3, SumOfBoth
<1> QED
  BY <1>4, <1>5

-----------------------------------------------------------------------------
(* A step keeps the rows that count, reserves one, releases one or settles   *)
(* one, and the counters follow.                                             *)

Same(q) == refund'[q].status = refund[q].status /\ refund'[q].amount = refund[q].amount

Reserves(r) ==
  /\ refund[r].status = "none" /\ refund'[r].status = "pending"
  /\ intent'.pending = intent.pending + refund'[r].amount
  /\ intent'.refunded = intent.refunded

LetsGo(r) ==
  /\ refund[r].status = "pending" /\ refund'[r].status \in {"failed", "canceled"}
  /\ intent'.pending = intent.pending - refund[r].amount
  /\ intent'.refunded = intent.refunded

Settles(r) ==
  /\ refund[r].status = "pending" /\ refund'[r].status = "succeeded"
  /\ refund'[r].amount = refund[r].amount
  /\ intent'.pending = intent.pending - refund[r].amount
  /\ intent'.refunded = intent.refunded + refund[r].amount

LEMMA CountStep ==
  ASSUME RefundInv, [Next]_vars
  PROVE  \/ intent' = intent /\ \A q \in Refunds : Same(q)
         \/ \E r \in Refunds : /\ Reserves(r) \/ LetsGo(r) \/ Settles(r)
                               /\ \A q \in Refunds \ {r} : Same(q)
<1> DEFINE Goal == \/ intent' = intent /\ \A q \in Refunds : Same(q)
                   \/ \E r \in Refunds : /\ Reserves(r) \/ LetsGo(r) \/ Settles(r)
                                         /\ \A q \in Refunds \ {r} : Same(q)
<1>t. /\ refund \in [Refunds -> [status: Status, amount: 0..Captured, old: BOOLEAN]]
      /\ intent \in [refunded: 0..Captured, pending: 0..Captured]
  BY DEF RefundInv, TypeOK
<1>1. ASSUME NEW r \in Refunds, Write(r) PROVE Goal
  <2>1. Reserves(r)
    BY <1>t, <1>1 DEF Write, Reserves, RefundInv, Trail, LeftBehind, At
  <2>2. \A q \in Refunds \ {r} : Same(q)
    BY <1>t, <1>1 DEF Write, Same
  <2> QED BY <2>1, <2>2
<1>2. ASSUME NEW r \in Refunds, NEW status \in {"failed", "canceled"},
             Pending(r), Releases(r), Becomes(r, status)
      PROVE  Goal
  <2>1. LetsGo(r)
    BY <1>t, <1>2 DEF LetsGo, Pending, Releases, Becomes
  <2>2. \A q \in Refunds \ {r} : Same(q)
    BY <1>t, <1>2 DEF Becomes, Same
  <2> QED BY <2>1, <2>2
<1>3. ASSUME NEW r \in Refunds, Fail(r) \/ Cancel(r) \/ SettleFailed(r) PROVE Goal
  BY <1>2, <1>3 DEF Fail, Cancel, SettleFailed, Cancelable, Settleable
<1>4. ASSUME NEW r \in Refunds, SettleSucceeded(r) PROVE Goal
  <2>1. Settles(r)
    BY <1>t, <1>4 DEF SettleSucceeded, Settleable, Settles, Pending, Becomes
  <2>2. \A q \in Refunds \ {r} : Same(q)
    BY <1>t, <1>4 DEF SettleSucceeded, Becomes, Same
  <2> QED BY <2>1, <2>2
<1>5. ASSUME NEW r \in Refunds, Age(r) PROVE Goal
  BY <1>t, <1>5 DEF Age, Same
<1>6. ASSUME NEW r \in Refunds,
             Resolve(r) \/ Refuse(r) \/ OverRefund(r) \/ RecordAttempt(r) \/ Call(r)
               \/ Finish(r) \/ FailNothing(r) \/ Vanish(r) \/ RailEnds(r)
      PROVE  Goal
  BY <1>6
  DEF Resolve, Refuse, OverRefund, RecordAttempt, Call, Finish, FailNothing, Vanish,
      RailEnds, Same
<1>7. CASE UNCHANGED vars
  BY <1>7 DEF vars, Same
<1> QED
  BY <1>1, <1>3, <1>4, <1>5, <1>6, <1>7 DEF Next

(* The rows that were ever written, of which there are finitely many.        *)
Rows == {r \in Refunds : refund[r].status # "none"}

Counted ==
  /\ IsFiniteSet(Rows)
  /\ intent.pending  = Sum(refund, Those("pending"))
  /\ intent.refunded = Sum(refund, Those("succeeded"))

LEMMA ThoseAreFinite ==
  ASSUME RefundInv, IsFiniteSet(Rows), NEW status, status # "none"
  PROVE  /\ IsFiniteSet(Those(status))
         /\ \A r \in Those(status) : refund[r].amount \in Nat
<1>1. Those(status) \in SUBSET Rows
  BY DEF Those, Rows
<1>2. \A r \in Those(status) : refund[r].amount \in Nat
  BY DEF Those, RefundInv, TypeOK
<1> QED
  BY <1>1, <1>2, FS_Subset

LEMMA NextCounted ==
  ASSUME RefundInv, Counted, [Next]_vars
  PROVE  Counted'
<1>t. /\ \A r \in Refunds : refund[r].amount \in Nat /\ refund'[r].amount \in Nat
      /\ intent.pending \in Nat /\ intent.refunded \in Nat
  BY NextRefundInv DEF RefundInv, TypeOK
<1>f. \A status \in {"pending", "succeeded"} : IsFiniteSet(Those(status))
  BY ThoseAreFinite DEF Counted
<1>s. ASSUME NEW r, \A q \in Refunds \ {r} : Same(q), NEW S \in SUBSET Refunds, r \notin S,
             IsFiniteSet(S)
      PROVE  Sum(refund', S) = Sum(refund, S)
  <2>1. \A q \in S : refund'[q].amount = refund[q].amount
    BY <1>s DEF Same
  <2> QED
    BY <1>s, <2>1, SumSame
<1>1. CASE intent' = intent /\ \A q \in Refunds : Same(q)
  <2>1. Rows' = Rows /\ \A status \in Status : Those(status)' = Those(status)
    BY <1>1 DEF Rows, Those, Same
  <2>2. ASSUME NEW S \in SUBSET Refunds, IsFiniteSet(S)
        PROVE  Sum(refund', S) = Sum(refund, S)
    BY <1>1, <2>2, SumSame DEF Same
  <2>3. ASSUME NEW status \in {"pending", "succeeded"}
        PROVE  Sum(refund', Those(status)') = Sum(refund, Those(status))
    <3>1. Those(status)' = Those(status) /\ Those(status) \in SUBSET Refunds
      BY <2>1 DEF Those, Status
    <3> QED
      BY <1>f, <2>2, <3>1
  <2> QED
    BY <1>1, <2>1, <2>3 DEF Counted
<1>2. ASSUME NEW r \in Refunds, \A q \in Refunds \ {r} : Same(q), Reserves(r)
      PROVE  Counted'
  <2>1. /\ Rows' = Rows \cup {r}
        /\ Those("pending")' = Those("pending") \cup {r}
        /\ Those("succeeded")' = Those("succeeded")
        /\ r \notin Those("pending") /\ r \notin Those("succeeded")
    BY <1>2 DEF Rows, Those, Same, Reserves
  <2>2. IsFiniteSet(Rows')
    BY <2>1, FS_AddElement DEF Counted
  <2>3. Sum(refund', Those("pending")') = refund'[r].amount + Sum(refund', Those("pending"))
    <3> DEFINE S == Those("pending") \cup {r}
    <3>1. IsFiniteSet(S) /\ r \in S /\ S \ {r} = Those("pending")
      BY <1>f, <2>1, FS_AddElement
    <3>2. \A q \in S : refund'[q].amount \in Nat
      BY <1>t DEF Those
    <3> HIDE DEF S
    <3>3. Sum(refund', S) = refund'[r].amount + Sum(refund', S \ {r})
      BY <3>1, <3>2, SumWithout
    <3> QED
      BY <2>1, <3>1, <3>3 DEF S
  <2>4. /\ Sum(refund', Those("pending")) = Sum(refund, Those("pending"))
        /\ Sum(refund', Those("succeeded")) = Sum(refund, Those("succeeded"))
    BY <1>2, <1>f, <1>s, <2>1 DEF Those
  <2>5. intent'.pending = Sum(refund', Those("pending")')
    BY <1>t, <1>2, <2>3, <2>4 DEF Counted, Reserves
  <2>6. intent'.refunded = Sum(refund', Those("succeeded")')
    BY <1>2, <2>1, <2>4 DEF Counted, Reserves
  <2> QED
    BY <2>2, <2>5, <2>6 DEF Counted
<1>3. ASSUME NEW r \in Refunds, \A q \in Refunds \ {r} : Same(q), LetsGo(r) \/ Settles(r)
      PROVE  /\ IsFiniteSet(Rows')
             /\ intent'.pending = Sum(refund', Those("pending")')
  <2>1. /\ Rows' = Rows
        /\ Those("pending")' = Those("pending") \ {r}
        /\ r \in Those("pending")
    BY <1>3 DEF Rows, Those, Same, LetsGo, Settles
  <2> DEFINE S == Those("pending") \ {r}
  <2>2. IsFiniteSet(S) /\ r \notin S /\ S \in SUBSET Refunds
    BY <1>f, FS_RemoveElement DEF Those
  <2>3. Sum(refund', S) = Sum(refund, S)
    BY <1>3, <1>s, <2>2
  <2>4. Sum(refund, Those("pending")) = refund[r].amount + Sum(refund, S)
    <3>1. \A q \in Those("pending") : refund[q].amount \in Nat
      BY <1>t DEF Those
    <3> QED
      BY <1>f, <2>1, <3>1, SumWithout
  <2>5. Sum(refund, S) \in Nat
    BY <1>t, <2>2, SumType
  <2>6. Sum(refund', Those("pending")') = Sum(refund', S)
    BY <2>1
  <2> HIDE DEF S
  <2>7. intent'.pending = Sum(refund', Those("pending")')
    BY <1>t, <1>3, <2>3, <2>4, <2>5, <2>6 DEF Counted, LetsGo, Settles
  <2> QED
    BY <2>1, <2>7 DEF Counted
<1>4. ASSUME NEW r \in Refunds, \A q \in Refunds \ {r} : Same(q), LetsGo(r)
      PROVE  intent'.refunded = Sum(refund', Those("succeeded")')
  <2>1. Those("succeeded")' = Those("succeeded") /\ r \notin Those("succeeded")
    BY <1>4 DEF Those, Same, LetsGo
  <2>2. Sum(refund', Those("succeeded")) = Sum(refund, Those("succeeded"))
    BY <1>4, <1>f, <1>s, <2>1 DEF Those
  <2> QED
    BY <1>4, <2>1, <2>2 DEF Counted, LetsGo
<1>5. ASSUME NEW r \in Refunds, \A q \in Refunds \ {r} : Same(q), Settles(r)
      PROVE  intent'.refunded = Sum(refund', Those("succeeded")')
  <2>1. Those("succeeded")' = Those("succeeded") \cup {r} /\ r \notin Those("succeeded")
    BY <1>5 DEF Those, Same, Settles
  <2>2. Sum(refund', Those("succeeded")) = Sum(refund, Those("succeeded"))
    BY <1>5, <1>f, <1>s, <2>1 DEF Those
  <2>3. Sum(refund', Those("succeeded")') = refund'[r].amount + Sum(refund', Those("succeeded"))
    <3> DEFINE S == Those("succeeded") \cup {r}
    <3>1. IsFiniteSet(S) /\ r \in S /\ S \ {r} = Those("succeeded")
      BY <1>f, <2>1, FS_AddElement
    <3>2. \A q \in S : refund'[q].amount \in Nat
      BY <1>t DEF Those
    <3> HIDE DEF S
    <3>3. Sum(refund', S) = refund'[r].amount + Sum(refund', S \ {r})
      BY <3>1, <3>2, SumWithout
    <3> QED
      BY <2>1, <3>1, <3>3 DEF S
  <2> QED
    BY <1>t, <1>5, <2>2, <2>3 DEF Counted, Settles
<1> QED
  BY <1>1, <1>2, <1>3, <1>4, <1>5, CountStep DEF Counted

LEMMA CountedAlways == Spec => [](RefundInv /\ Counted)
<1>1. Init => RefundInv /\ Counted
  <2> SUFFICES ASSUME Init PROVE RefundInv /\ Counted
    OBVIOUS
  <2>1. Rows = {} /\ Those("pending") = {} /\ Those("succeeded") = {}
    BY DEF Init, Rows, Those
  <2>2. intent.pending = 0 /\ intent.refunded = 0
    BY DEF Init
  <2> QED
    BY <2>1, <2>2, InitRefundInv, FS_EmptySet, SumEmpty DEF Counted
<1>2. RefundInv /\ Counted /\ [Next]_vars => (RefundInv /\ Counted)'
  BY NextRefundInv, NextCounted
<1> QED
  BY <1>1, <1>2, PTL DEF Spec

(* The counters of the intent, the invoice and the ledger are the sums of    *)
(* the refunds they count, however many are at work (write_pending_refund,   *)
(* release_refund_in_tx, apply_refund_succeeded).                            *)
THEOREM CountersAreSums == Spec => []BooksAgree
<1>1. RefundInv /\ Counted => BooksAgree
  BY DEF RefundInv, Mirrored, Counted, BooksAgree, Total, Sum
<1> QED
  BY <1>1, CountedAlways, PTL

(* Whatever the rail was asked to return is reserved or returned, so it is   *)
(* no more than was captured (no_over_refund, cancel_in_tx).                 *)
THEOREM NoMoreThanCaptured == Spec => []NeverMoreThanCaptured
<1>1. ASSUME RefundInv, Counted, PromiseKept
      PROVE  NeverMoreThanCaptured
  <2> DEFINE P == Those("pending")
             S == Those("succeeded")
  <2>1. Taken \in SUBSET (P \cup S)
    <3>1. ASSUME NEW r \in Refunds, rail[r] \in {"sent", "moved"}, ~create[r].late
          PROVE  refund[r].status \in {"pending", "succeeded"}
      <4>1. refund[r].status \in Status
        BY <1>1 DEF RefundInv, TypeOK
      <4>2. refund[r].status # "none"
        BY <1>1, <3>1 DEF RefundInv, Trail, LeftBehind
      <4>3. refund[r].status \notin {"canceled", "failed"}
        BY <1>1, <3>1 DEF PromiseKept
      <4> QED
        BY <4>1, <4>2, <4>3 DEF Status
    <3> QED
      BY <3>1 DEF Taken, Those
  <2>2. /\ IsFiniteSet(P) /\ IsFiniteSet(S) /\ IsFiniteSet(P \cup S) /\ P \cap S = {}
        /\ \A r \in P \cup S : refund[r].amount \in Nat
    <3>1. IsFiniteSet(P) /\ IsFiniteSet(S)
      BY <1>1, ThoseAreFinite DEF Counted
    <3>2. P \cap S = {} /\ \A r \in P \cup S : refund[r].amount \in Nat
      BY <1>1 DEF Those, RefundInv, TypeOK
    <3> QED
      BY <3>1, <3>2, FS_Union
  <2>3. intent.pending = Sum(refund, P) /\ intent.refunded = Sum(refund, S)
    BY <1>1 DEF Counted
  <2> HIDE DEF P, S
  <2>4. Sum(refund, P \cup S) = Sum(refund, P) + Sum(refund, S)
    BY <2>2, SumOfBoth
  <2>5. Sum(refund, Taken) <= Sum(refund, P \cup S)
    BY <2>1, <2>2, SumOfPart
  <2>6. /\ intent.pending \in Nat /\ intent.refunded \in Nat
        /\ intent.refunded + intent.pending <= Captured /\ Captured \in Nat
    BY <1>1, ConstantsAssumption DEF RefundInv, TypeOK
  <2>7. Sum(refund, Taken) \in Nat
    <3>1. IsFiniteSet(Taken) /\ \A r \in Taken : refund[r].amount \in Nat
      BY <2>1, <2>2, FS_Subset
    <3> QED
      BY <3>1, SumType
  <2>8. Total(Taken) = Sum(refund, Taken)
    BY DEF Total, Sum
  <2> QED
    BY <2>3, <2>4, <2>5, <2>6, <2>7, <2>8 DEF NeverMoreThanCaptured
<1> QED
  BY <1>1, CountedAlways, NoMoneyForACanceledRefund, PTL
=============================================================================
