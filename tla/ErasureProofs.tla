-------------------------- MODULE ErasureProofs ---------------------------
(*****************************************************************************)
(* What Erasure promises for any number of requests, erasures and sessions.  *)
(* ErasureInv says what each row lock keeps still: an erasure that has the   *)
(* customer is alone with the row, whoever shares it reads the row as it is, *)
(* and what the statements of an erasure have found stays what there is to   *)
(* find until it commits.                                                    *)
(*****************************************************************************)
EXTENDS Erasure, TLAPS

\* Whoever has the row of the customer, and what they have read of it.
Guarded ==
  /\ \A e \in Erasers : Erasing(e) => exclusive = e /\ row = "whole"
  /\ \A u \in Updates : pc[u] = "locked" => exclusive = u /\ row = "whole"
  /\ exclusive # "nobody" => sharing = {}
  /\ \A p \in Payments : pc[p] = "locked" => p \in sharing
  /\ \A q \in Requests : pc[q] = "shared" => q \in sharing
  /\ \A c \in Creates : pc[c] \in {"shared", "holding", "claimed"} => c \in sharing
  /\ \A a \in sharing : erased[a] = Erased

\* Whoever gives the intent a customer has it locked, and it has none.
Claimed ==
  /\ \A c \in Sessions : pc[c] = "holding" => held = c /\ payer = "none"
  /\ \A c \in Creates : pc[c] = "holding" => row = "whole"
  /\ \A c \in Creates : pc[c] = "claimed" => payer = "customer"
  /\ \A c \in Rivals  : pc[c] = "claimed" => payer = "other"

\* What an erasure has found is all there is.
Finding(e) ==
  /\ pc[e] \in {"idle", "paged", "locked"} => ~found[e].gone /\ ~found[e].note
  /\ Erasing(e) /\ found[e].gone => ~billed /\ ~named /\ payer # "customer"
  /\ pc[e] \in {"events", "copied", "charged", "reached", "cleared"} =>
       event \cap Updates \subseteq found[e].event
  /\ pc[e] \in {"copied", "charged", "reached", "cleared"} =>
       answer \cap Updates \subseteq found[e].answer
  /\ pc[e] \in {"charged", "reached", "cleared"} /\ Reached /\ charge = "whole" =>
       found[e].charge \/ late
  /\ found[e].note => pc[e] = "cleared" /\ held = e /\ payer # "other"

Findings == \A e \in Erasers : Finding(e)

ErasureInv == TypeOK /\ Guarded /\ Claimed /\ Findings /\ NothingLeft /\ IdleIsSpared

LEMMA Reading ==
  ASSUME TypeOK, NEW a \in Actors, ReadUnderShareLock(a)
  PROVE  /\ erased' \in [Actors -> BOOLEAN]
         /\ erased'[a] = Erased
         /\ sharing' = sharing \cup {a} /\ exclusive = "nobody"
         /\ UNCHANGED <<exclusive, held>>
<1>1. Erased \in BOOLEAN
  BY DEF Erased
<1> QED
  BY <1>1 DEF ReadUnderShareLock, TakeShare, TypeOK

LEMMA Noted ==
  ASSUME TypeOK, NEW e \in Erasers, NEW b \in BOOLEAN,
         NEW field \in {"gone", "charge", "intent", "note"}, Note(e, field, b)
  PROVE  /\ found' \in [Erasers -> Found]
         /\ \A x \in Erasers \ {e} : found'[x] = found[x]
         /\ \A f \in {"event", "answer", "gone", "charge", "intent", "note"} \ {field} :
              found'[e][f] = found[e][f]
         /\ found'[e][field] = b
<1>1. CASE field = "gone"
  BY <1>1 DEF Note, TypeOK, Found
<1>2. CASE field = "charge"
  BY <1>2 DEF Note, TypeOK, Found
<1>3. CASE field = "intent"
  BY <1>3 DEF Note, TypeOK, Found
<1>4. CASE field = "note"
  BY <1>4 DEF Note, TypeOK, Found
<1> QED
  BY <1>1, <1>2, <1>3, <1>4

LEMMA TouchKeeps == ASSUME ErasureInv, Touch PROVE ErasureInv'
<1>1. TypeOK'
  BY DEF ErasureInv, Touch, copies, intent, locks, TypeOK
<1>2. Guarded'
  BY DEF ErasureInv, Touch, locks, LockFree, Guarded, Erasing
<1>3. Claimed'
  BY DEF ErasureInv, Touch, intent, locks, Claimed
<1>4. Findings'
  BY ConstantsAssumption DEF ErasureInv, Touch, LockFree, Actors, Findings, Finding, Erasing,
       Guarded
<1>5. NothingLeft'
  BY DEF Touch, NothingLeft, Erased
<1>6. IdleIsSpared'
  BY ConstantsAssumption DEF ErasureInv, Touch, LockFree, Erasers, Actors, IdleIsSpared, Guarded,
       Erasing
<1> QED
  BY <1>1, <1>2, <1>3, <1>4, <1>5, <1>6 DEF ErasureInv

LEMMA OpenChargeKeeps == ASSUME ErasureInv, OpenCharge PROVE ErasureInv'
<1>1. TypeOK'
  BY DEF ErasureInv, OpenCharge, copies, locks, TypeOK
<1>2. Guarded'
  BY DEF ErasureInv, OpenCharge, locks, Guarded, Erasing, Erased
<1>3. Claimed'
  BY DEF ErasureInv, OpenCharge, locks, Claimed
<1>4. Findings'
  BY DEF ErasureInv, OpenCharge, copies, locks, Findings, Finding, Erasing
<1>5. NothingLeft'
  BY DEF ErasureInv, OpenCharge, copies, NothingLeft, Erased
<1>6. IdleIsSpared'
  BY DEF ErasureInv, OpenCharge, IdleIsSpared, Erasing
<1> QED
  BY <1>1, <1>2, <1>3, <1>4, <1>5, <1>6 DEF ErasureInv

LEMMA DeclineKeeps == ASSUME ErasureInv, Decline PROVE ErasureInv'
<1>1. TypeOK'
  BY DEF ErasureInv, Decline, copies, locks, TypeOK
<1>2. Guarded'
  BY DEF ErasureInv, Decline, locks, Guarded, Erasing, Erased
<1>3. Claimed'
  BY DEF ErasureInv, Decline, locks, Claimed
<1>4. Findings'
  BY DEF ErasureInv, Decline, copies, locks, Findings, Finding, Erasing, Reached
<1>5. NothingLeft'
  BY DEF ErasureInv, Decline, copies, NothingLeft, Erased, Reached
<1>6. IdleIsSpared'
  BY DEF ErasureInv, Decline, IdleIsSpared, Erasing
<1> QED
  BY <1>1, <1>2, <1>3, <1>4, <1>5, <1>6 DEF ErasureInv

LEMMA LockForUpdateKeeps ==
  ASSUME ErasureInv, NEW u \in Updates, LockForUpdate(u)
  PROVE  ErasureInv'
<1>1. TypeOK'
  BY DEF ErasureInv, LockForUpdate, copies, intent, locks, TakeUpdate, Go, Requests, Actors,
       TypeOK, PC
<1>2. Guarded'
  BY ConstantsAssumption DEF ErasureInv, LockForUpdate, locks, TakeUpdate, LockFree, Go, Requests,
       Sessions, Actors, Guarded, Erasing, TypeOK
<1>3. Claimed'
  BY DEF ErasureInv, LockForUpdate, intent, locks, TakeUpdate, Go, Sessions, Actors, Claimed,
       TypeOK
<1>4. Findings'
  BY ConstantsAssumption DEF ErasureInv, LockForUpdate, TakeUpdate, LockFree, Go, Actors,
       Findings, Finding, Erasing, Guarded, TypeOK
<1>5. NothingLeft'
  BY DEF ErasureInv, LockForUpdate, copies, intent, NothingLeft, Erased, Reached
<1>6. IdleIsSpared'
  BY ConstantsAssumption DEF ErasureInv, LockForUpdate, Go, Requests, Erasers, Actors,
       IdleIsSpared, Erasing, TypeOK
<1> QED
  BY <1>1, <1>2, <1>3, <1>4, <1>5, <1>6 DEF ErasureInv

LEMMA CommitUpdateKeeps ==
  ASSUME ErasureInv, NEW u \in Updates, CommitUpdate(u)
  PROVE  ErasureInv'
<1>1. TypeOK'
  BY DEF ErasureInv, CommitUpdate, intent, Release, Go, Requests, TypeOK, PC
<1>2. Guarded'
  BY ConstantsAssumption DEF ErasureInv, CommitUpdate, Release, Go, Requests, Actors, Guarded,
       Erasing, TypeOK
<1>3. Claimed'
  BY DEF ErasureInv, CommitUpdate, intent, Release, Go, Claimed
<1>4. Findings'
  BY DEF ErasureInv, CommitUpdate, Go, Findings, Finding, Erasing, Guarded
<1>5. NothingLeft'
  BY DEF ErasureInv, CommitUpdate, NothingLeft, Erased, Guarded
<1>6. IdleIsSpared'
  BY ConstantsAssumption DEF ErasureInv, CommitUpdate, Go, Requests, Erasers, IdleIsSpared,
       Guarded, Erasing
<1> QED
  BY <1>1, <1>2, <1>3, <1>4, <1>5, <1>6 DEF ErasureInv

LEMMA BeginPaymentKeeps ==
  ASSUME ErasureInv, NEW p \in Payments, BeginPayment(p)
  PROVE  ErasureInv'
<1>1. TypeOK'
  BY Reading DEF ErasureInv, BeginPayment, copies, intent, Go, Requests, Actors, TypeOK, PC
<1>2. Guarded'
  BY ConstantsAssumption DEF ErasureInv, BeginPayment, TakeShare, ReadUnderShareLock, Go,
       Requests, Actors, Guarded, Erasing, Erased, TypeOK
<1>3. Claimed'
  BY DEF ErasureInv, BeginPayment, intent, TakeShare, ReadUnderShareLock, Go, Claimed
<1>4. Findings'
  BY ConstantsAssumption DEF ErasureInv, BeginPayment, TakeShare, ReadUnderShareLock, Go, Actors,
       Findings, Finding, Erasing, Guarded
<1>5. NothingLeft'
  BY DEF ErasureInv, BeginPayment, copies, intent, NothingLeft, Erased, Reached
<1>6. IdleIsSpared'
  BY ConstantsAssumption DEF ErasureInv, BeginPayment, Go, Requests, Erasers, IdleIsSpared,
       Erasing
<1> QED
  BY <1>1, <1>2, <1>3, <1>4, <1>5, <1>6 DEF ErasureInv

LEMMA CommitPaymentKeeps ==
  ASSUME ErasureInv, NEW p \in Payments, CommitPayment(p)
  PROVE  ErasureInv'
<1>1. TypeOK'
  BY DEF ErasureInv, CommitPayment, intent, Release, Go, Requests, TypeOK, PC
<1>2. Guarded'
  BY DEF ErasureInv, CommitPayment, Release, Go, Requests, Sessions, Actors, Guarded, Erasing,
       Erased, TypeOK
<1>3. Claimed'
  BY DEF ErasureInv, CommitPayment, intent, Release, Go, Sessions, Actors, Claimed, TypeOK
<1>4. Findings'
  BY ConstantsAssumption DEF ErasureInv, CommitPayment, Go, Actors, Findings, Finding, Erasing,
       Guarded, TypeOK
<1>5. NothingLeft'
  BY DEF ErasureInv, CommitPayment, intent, NothingLeft, Erased, Guarded, Reached
<1>6. IdleIsSpared'
  BY DEF ErasureInv, CommitPayment, Go, Erasers, Actors, IdleIsSpared, Erasing, TypeOK
<1> QED
  BY <1>1, <1>2, <1>3, <1>4, <1>5, <1>6 DEF ErasureInv

LEMMA BeginStoreKeeps ==
  ASSUME ErasureInv, NEW q \in Requests, BeginStore(q)
  PROVE  ErasureInv'
<1>1. TypeOK'
  BY Reading DEF ErasureInv, BeginStore, copies, intent, Go, Actors, TypeOK, PC
<1>2. Guarded'
  BY DEF ErasureInv, BeginStore, TakeShare, ReadUnderShareLock, Go, Actors, Guarded, Erasing,
       Erased, TypeOK
<1>3. Claimed'
  BY DEF ErasureInv, BeginStore, intent, TakeShare, ReadUnderShareLock, Go, Claimed
<1>4. Findings'
  BY ConstantsAssumption DEF ErasureInv, BeginStore, TakeShare, ReadUnderShareLock, Go, Actors,
       Findings, Finding, Erasing, Guarded
<1>5. NothingLeft'
  BY DEF ErasureInv, BeginStore, copies, intent, NothingLeft, Erased, Reached
<1>6. IdleIsSpared'
  BY DEF ErasureInv, BeginStore, Go, IdleIsSpared, Erasing
<1> QED
  BY <1>1, <1>2, <1>3, <1>4, <1>5, <1>6 DEF ErasureInv

LEMMA CommitStoreKeeps ==
  ASSUME ErasureInv, NEW q \in Requests, CommitStore(q)
  PROVE  ErasureInv'
<1>1. TypeOK'
  BY DEF ErasureInv, CommitStore, intent, Release, Go, TypeOK, PC
<1>2. Guarded'
  BY DEF ErasureInv, CommitStore, Release, Go, Guarded, Erasing, Erased, TypeOK
<1>3. Claimed'
  BY DEF ErasureInv, CommitStore, intent, Release, Go, Claimed
<1>4. Findings'
  BY ConstantsAssumption DEF ErasureInv, CommitStore, Go, Actors, Findings, Finding, Erasing,
       Guarded
<1>5. NothingLeft'
  BY DEF ErasureInv, CommitStore, intent, NothingLeft, Erased, Guarded, Reached
<1>6. IdleIsSpared'
  BY DEF ErasureInv, CommitStore, Go, IdleIsSpared, Erasing
<1> QED
  BY <1>1, <1>2, <1>3, <1>4, <1>5, <1>6 DEF ErasureInv

LEMMA PrepareKeeps ==
  ASSUME ErasureInv, NEW c \in Sessions, Prepare(c)
  PROVE  ErasureInv'
<1>1. TypeOK'
  BY DEF ErasureInv, Prepare, copies, intent, locks, Go, Actors, TypeOK, PC
<1>2. Guarded'
  BY DEF ErasureInv, Prepare, locks, Go, Guarded, Erasing, Erased
<1>3. Claimed'
  BY DEF ErasureInv, Prepare, intent, locks, Go, Claimed
<1>4. Findings'
  BY DEF ErasureInv, Prepare, copies, intent, locks, Go, Findings, Finding, Erasing
<1>5. NothingLeft'
  BY DEF ErasureInv, Prepare, copies, intent, NothingLeft, Erased
<1>6. IdleIsSpared'
  BY DEF ErasureInv, Prepare, Go, IdleIsSpared, Erasing
<1> QED
  BY <1>1, <1>2, <1>3, <1>4, <1>5, <1>6 DEF ErasureInv

LEMMA ShareCustomerKeeps ==
  ASSUME ErasureInv, NEW c \in Sessions, ShareCustomer(c)
  PROVE  ErasureInv'
<1>1. TypeOK'
  BY Reading DEF ErasureInv, ShareCustomer, locks, copies, intent, Go, Actors, TypeOK, PC
<1>2. Guarded'
  BY ConstantsAssumption DEF ErasureInv, ShareCustomer, locks, TakeShare, ReadUnderShareLock, Go,
       Actors, Guarded, Erasing, Erased, TypeOK
<1>3. Claimed'
  BY DEF ErasureInv, ShareCustomer, intent, locks, TakeShare, ReadUnderShareLock, Go, Claimed
<1>4. Findings'
  BY DEF ErasureInv, ShareCustomer, copies, intent, locks, TakeShare, ReadUnderShareLock, Go,
       Findings, Finding, Erasing, Reached
<1>5. NothingLeft'
  BY DEF ErasureInv, ShareCustomer, copies, intent, NothingLeft, Erased, Reached
<1>6. IdleIsSpared'
  BY DEF ErasureInv, ShareCustomer, Go, IdleIsSpared, Erasing
<1> QED
  BY <1>1, <1>2, <1>3, <1>4, <1>5, <1>6 DEF ErasureInv

LEMMA ClaimKeeps == ASSUME ErasureInv, NEW c \in Sessions, Claim(c) PROVE ErasureInv'
<1>1. TypeOK'
  BY DEF ErasureInv, Claim, copies, intent, locks, Release, Go, Actors, TypeOK, PC
<1>2. Guarded'
  BY DEF ErasureInv, Claim, locks, Release, Go, Requests, Sessions, Actors, Guarded, Erasing,
       Erased, TypeOK
<1>3. Claimed'
  <2>1. c \in Creates /\ MayClaim(c) => row = "whole"
    BY DEF ErasureInv, Guarded, Claim, MayClaim, Erased
  <2>2. MayClaim(c) => payer = "none"
    BY DEF MayClaim
  <2> QED
    BY <2>1, <2>2, ConstantsAssumption DEF ErasureInv, Claim, intent, Go, Sessions, Actors,
         Claimed, TypeOK
<1>4. Findings'
  BY ConstantsAssumption DEF ErasureInv, Claim, copies, intent, Go, Actors, Findings, Finding,
       Erasing, TypeOK, Reached
<1>5. NothingLeft'
  BY DEF ErasureInv, Claim, copies, intent, NothingLeft, Erased, Reached
<1>6. IdleIsSpared'
  BY DEF ErasureInv, Claim, Go, Erasers, Actors, IdleIsSpared, Erasing, TypeOK
<1> QED
  BY <1>1, <1>2, <1>3, <1>4, <1>5, <1>6 DEF ErasureInv

LEMMA CommitSessionKeeps ==
  ASSUME ErasureInv, NEW c \in Sessions, CommitSession(c)
  PROVE  ErasureInv'
<1>1. TypeOK'
  BY DEF ErasureInv, CommitSession, copies, Release, Go, TypeOK, PC, Claimed
<1>2. Guarded'
  BY DEF ErasureInv, CommitSession, Release, Go, Guarded, Erasing, Erased, TypeOK
<1>3. Claimed'
  BY DEF ErasureInv, CommitSession, Release, Go, Actors, Claimed, TypeOK
<1>4. Findings'
  BY ConstantsAssumption DEF ErasureInv, CommitSession, copies, Release, Go, Actors, Findings,
       Finding, Erasing, Guarded, Claimed, TypeOK, Reached
<1>5. NothingLeft'
  BY DEF ErasureInv, CommitSession, copies, NothingLeft, Erased, Claimed, Reached
<1>6. IdleIsSpared'
  BY DEF ErasureInv, CommitSession, Go, IdleIsSpared, Erasing
<1> QED
  BY <1>1, <1>2, <1>3, <1>4, <1>5, <1>6 DEF ErasureInv

LEMMA LockToDeleteKeeps ==
  ASSUME ErasureInv, NEW d \in Deletes, LockToDelete(d)
  PROVE  ErasureInv'
<1>1. TypeOK'
  BY DEF ErasureInv, LockToDelete, copies, intent, locks, TakeUpdate, Go, Erasers, Actors, TypeOK,
       PC
<1>2. Guarded'
  BY ConstantsAssumption DEF ErasureInv, LockToDelete, locks, TakeUpdate, LockFree, Go, Requests,
       Erasers, Sessions, Actors, Guarded, Erasing, TypeOK
<1>3. Claimed'
  BY DEF ErasureInv, LockToDelete, intent, locks, TakeUpdate, Go, Sessions, Actors, Claimed,
       TypeOK
<1>4. Findings'
  BY ConstantsAssumption DEF ErasureInv, LockToDelete, TakeUpdate, LockFree, Go, Actors, Findings,
       Finding, Erasing, Guarded, TypeOK
<1>5. NothingLeft'
  BY DEF ErasureInv, LockToDelete, copies, intent, NothingLeft, Erased, Reached
<1>6. IdleIsSpared'
  BY ConstantsAssumption DEF ErasureInv, LockToDelete, Go, Erasers, Actors, IdleIsSpared, Erasing,
       TypeOK
<1> QED
  BY <1>1, <1>2, <1>3, <1>4, <1>5, <1>6 DEF ErasureInv

LEMMA ReadIdleKeeps ==
  ASSUME ErasureInv, NEW s \in Sweeps, ReadIdle(s)
  PROVE  ErasureInv'
<1>1. TypeOK'
  BY DEF ErasureInv, ReadIdle, copies, intent, locks, Go, TypeOK, PC
<1>2. Guarded'
  BY DEF ErasureInv, ReadIdle, locks, Go, Guarded, Erasing, Erased
<1>3. Claimed'
  BY DEF ErasureInv, ReadIdle, intent, locks, Go, Claimed
<1>4. Findings'
  BY DEF ErasureInv, ReadIdle, copies, intent, locks, Go, Findings, Finding, Erasing, Reached
<1>5. NothingLeft'
  BY DEF ReadIdle, NothingLeft, Erased
<1>6. IdleIsSpared'
  BY DEF ReadIdle, IdleIsSpared
<1> QED
  BY <1>1, <1>2, <1>3, <1>4, <1>5, <1>6 DEF ErasureInv

LEMMA LockIdleKeeps ==
  ASSUME ErasureInv, NEW s \in Sweeps, LockIdle(s)
  PROVE  ErasureInv'
<1>1. TypeOK'
  BY DEF ErasureInv, LockIdle, copies, intent, locks, TakeUpdate, Go, Erasers, Actors, TypeOK, PC
<1>2. Guarded'
  BY ConstantsAssumption DEF ErasureInv, LockIdle, locks, TakeUpdate, LockFree, Go, Requests,
       Erasers, Sessions, Actors, Guarded, Erasing, TypeOK
<1>3. Claimed'
  BY DEF ErasureInv, LockIdle, intent, locks, TakeUpdate, Go, Sessions, Actors, Claimed, TypeOK
<1>4. Findings'
  BY ConstantsAssumption DEF ErasureInv, LockIdle, TakeUpdate, LockFree, Go, Actors, Findings,
       Finding, Erasing, Guarded, TypeOK
<1>5. NothingLeft'
  BY DEF ErasureInv, LockIdle, copies, intent, NothingLeft, Erased, Reached
<1>6. IdleIsSpared'
  BY DEF ErasureInv, LockIdle, Go, Erasers, Actors, IdleIsSpared, Erasing, TypeOK
<1> QED
  BY <1>1, <1>2, <1>3, <1>4, <1>5, <1>6 DEF ErasureInv

LEMMA BranchKeeps == ASSUME ErasureInv, NEW e \in Erasers, Branch(e) PROVE ErasureInv'
<1>1. TypeOK'
  <2>2. Note(e, "gone", payer # "customer" /\ ~named /\ ~billed)
    BY DEF Branch
  <2>3. found' \in [Erasers -> Found]
    BY <2>2, Noted DEF ErasureInv
  <2> QED
    BY <2>3 DEF ErasureInv, Branch, copies, intent, locks, Go, Step, Quiet, Actors, TypeOK, PC
<1>2. Guarded'
  BY ConstantsAssumption DEF ErasureInv, Branch, locks, Go, Step, Quiet, Actors, Guarded, Erasing
<1>3. Claimed'
  BY DEF ErasureInv, Branch, intent, locks, Go, Step, Quiet, Claimed
<1>4. Findings'
  <2>2. Note(e, "gone", payer # "customer" /\ ~named /\ ~billed)
    BY DEF Branch
  <2>3. /\ \A x \in Erasers \ {e} : found'[x] = found[x]
        /\ \A f \in {"event", "answer", "charge", "note"} : found'[e][f] = found[e][f]
        /\ found'[e]["gone"] <=> payer # "customer" /\ ~named /\ ~billed
    BY <2>2, Noted DEF ErasureInv
  <2> QED
    BY <2>3 DEF ErasureInv, Branch, intent, Go, Step, Quiet, Actors, TypeOK, Findings, Finding,
         Erasing, Guarded
<1>5. NothingLeft'
  BY DEF ErasureInv, Branch, Step, Quiet, NothingLeft, Erased, Guarded, Erasing
<1>6. IdleIsSpared'
  BY DEF ErasureInv, Branch, Go, Step, Quiet, IdleIsSpared, Erasing
<1> QED
  BY <1>1, <1>2, <1>3, <1>4, <1>5, <1>6 DEF ErasureInv

LEMMA FindEventsKeeps ==
  ASSUME ErasureInv, NEW e \in Erasers, FindEvents(e)
  PROVE  ErasureInv'
<1>1. TypeOK'
  BY DEF ErasureInv, FindEvents, copies, intent, locks, Go, Step, Quiet, Erasers, Actors, TypeOK,
       PC, Found
<1>2. Guarded'
  BY ConstantsAssumption DEF ErasureInv, FindEvents, locks, Go, Step, Quiet, Actors, Guarded,
       Erasing
<1>3. Claimed'
  BY DEF ErasureInv, FindEvents, intent, locks, Go, Step, Quiet, Claimed
<1>4. Findings'
  BY DEF ErasureInv, FindEvents, copies, intent, Go, Step, Quiet, Findings, Finding, Erasing,
       Guarded, TypeOK
<1>5. NothingLeft'
  BY DEF ErasureInv, FindEvents, Step, Quiet, NothingLeft, Erased, Guarded, Erasing
<1>6. IdleIsSpared'
  BY DEF ErasureInv, FindEvents, Go, Step, Quiet, IdleIsSpared, Erasing
<1> QED
  BY <1>1, <1>2, <1>3, <1>4, <1>5, <1>6 DEF ErasureInv

LEMMA FindAnswersKeeps ==
  ASSUME ErasureInv, NEW e \in Erasers, FindAnswers(e)
  PROVE  ErasureInv'
<1>1. TypeOK'
  BY DEF ErasureInv, FindAnswers, copies, intent, locks, Go, Step, Quiet, Erasers, Actors, TypeOK,
       PC, Found
<1>2. Guarded'
  BY ConstantsAssumption DEF ErasureInv, FindAnswers, locks, Go, Step, Quiet, Actors, Guarded,
       Erasing
<1>3. Claimed'
  BY DEF ErasureInv, FindAnswers, intent, locks, Go, Step, Quiet, Claimed
<1>4. Findings'
  BY DEF ErasureInv, FindAnswers, copies, intent, Go, Step, Quiet, Findings, Finding, Erasing,
       Guarded, TypeOK
<1>5. NothingLeft'
  BY DEF ErasureInv, FindAnswers, Step, Quiet, NothingLeft, Erased, Guarded, Erasing
<1>6. IdleIsSpared'
  BY DEF ErasureInv, FindAnswers, Go, Step, Quiet, IdleIsSpared, Erasing
<1> QED
  BY <1>1, <1>2, <1>3, <1>4, <1>5, <1>6 DEF ErasureInv

LEMMA FindChargesKeeps ==
  ASSUME ErasureInv, NEW e \in Erasers, FindCharges(e)
  PROVE  ErasureInv'
<1>1. TypeOK'
  <2>2. Note(e, "charge", Reached /\ charge # "none")
    BY DEF FindCharges
  <2>3. found' \in [Erasers -> Found]
    BY <2>2, Noted DEF ErasureInv
  <2> QED
    BY <2>3 DEF ErasureInv, FindCharges, copies, intent, locks, Go, Step, Quiet, Actors, TypeOK,
         PC
<1>2. Guarded'
  BY ConstantsAssumption DEF ErasureInv, FindCharges, locks, Go, Step, Quiet, Actors, Guarded,
       Erasing
<1>3. Claimed'
  BY DEF ErasureInv, FindCharges, intent, locks, Go, Step, Quiet, Claimed
<1>4. Findings'
  <2>2. Note(e, "charge", Reached /\ charge # "none")
    BY DEF FindCharges
  <2>3. /\ \A x \in Erasers \ {e} : found'[x] = found[x]
        /\ \A f \in {"event", "answer", "gone", "note"} : found'[e][f] = found[e][f]
        /\ found'[e]["charge"] <=> Reached /\ charge # "none"
    BY <2>2, Noted DEF ErasureInv
  <2> QED
    BY <2>3 DEF ErasureInv, FindCharges, copies, intent, locks, Go, Step, Quiet, Findings,
         Finding, Erasing, Reached
<1>5. NothingLeft'
  BY DEF ErasureInv, FindCharges, Step, Quiet, NothingLeft, Erased, Guarded, Erasing
<1>6. IdleIsSpared'
  BY DEF ErasureInv, FindCharges, Go, Step, Quiet, IdleIsSpared, Erasing
<1> QED
  BY <1>1, <1>2, <1>3, <1>4, <1>5, <1>6 DEF ErasureInv

LEMMA ReachIntentKeeps ==
  ASSUME ErasureInv, NEW e \in Erasers, ReachIntent(e)
  PROVE  ErasureInv'
<1>1. TypeOK'
  <2>1. (Reached) \in BOOLEAN
    BY DEF Reached
  <2>2. Note(e, "intent", Reached)
    BY DEF ReachIntent
  <2>3. found' \in [Erasers -> Found]
    BY <2>1, <2>2, Noted DEF ErasureInv
  <2> QED
    BY <2>3 DEF ErasureInv, ReachIntent, copies, intent, locks, Go, Step, Quiet, Actors, TypeOK,
         PC
<1>2. Guarded'
  BY ConstantsAssumption DEF ErasureInv, ReachIntent, locks, Go, Step, Quiet, Actors, Guarded,
       Erasing
<1>3. Claimed'
  BY DEF ErasureInv, ReachIntent, intent, locks, Go, Step, Quiet, Claimed
<1>4. Findings'
  BY DEF ErasureInv, ReachIntent, copies, intent, locks, Go, Step, Note, Quiet, Findings, Finding,
       Erasing, Reached
<1>5. NothingLeft'
  BY DEF ErasureInv, ReachIntent, Step, Quiet, NothingLeft, Erased, Guarded, Erasing
<1>6. IdleIsSpared'
  BY DEF ErasureInv, ReachIntent, Go, Step, Quiet, IdleIsSpared, Erasing
<1> QED
  BY <1>1, <1>2, <1>3, <1>4, <1>5, <1>6 DEF ErasureInv

LEMMA ClearIntentKeeps ==
  ASSUME ErasureInv, NEW e \in Erasers, ClearIntent(e)
  PROVE  ErasureInv'
<1>1. TypeOK'
  <2>1. StillTheirs \in BOOLEAN
    BY DEF StillTheirs
  <2>2. CASE found[e].intent
    <3>1. found' \in [Erasers -> Found] /\ held' \in Actors \cup {"nobody"}
      BY <2>1, <2>2, Noted DEF ErasureInv, ClearIntent, Actors
    <3> QED
      BY <3>1 DEF ErasureInv, ClearIntent, copies, intent, Go, Step, Actors, TypeOK, PC
  <2>3. CASE ~found[e].intent
    BY <2>3 DEF ErasureInv, ClearIntent, copies, intent, Go, Step, Actors, TypeOK, PC
  <2> QED
    BY <2>2, <2>3
<1>2. Guarded'
  BY ConstantsAssumption DEF ErasureInv, ClearIntent, Go, Step, Actors, Guarded, Erasing
<1>3. Claimed'
  BY ConstantsAssumption DEF ErasureInv, ClearIntent, intent, Go, Step, Actors, Claimed
<1>4. Findings'
  <2>1. StillTheirs \in BOOLEAN /\ (StillTheirs => payer # "other")
    BY DEF StillTheirs
  <2>2. /\ \A x \in Erasers \ {e} : found'[x] = found[x]
        /\ \A f \in {"event", "answer", "gone", "charge"} : found'[e][f] = found[e][f]
        /\ found'[e]["note"] => held' = e /\ payer # "other"
    <3>1. CASE found[e].intent
      BY <2>1, <3>1, Noted DEF ErasureInv, ClearIntent
    <3>2. CASE ~found[e].intent
      BY <3>2 DEF ErasureInv, Findings, Finding, ClearIntent
    <3> QED
      BY <3>1, <3>2
  <2>3. \A x \in Erasers : found[x].note => held' = held
    BY ConstantsAssumption DEF ErasureInv, Findings, Finding, ClearIntent, Actors
  <2> QED
    BY <2>2, <2>3 DEF ErasureInv, ClearIntent, copies, intent, Go, Step, Actors, TypeOK, Findings,
         Finding, Erasing, Reached
<1>5. NothingLeft'
  BY DEF ErasureInv, ClearIntent, Step, NothingLeft, Erased, Guarded, Erasing
<1>6. IdleIsSpared'
  BY DEF ErasureInv, ClearIntent, Go, Step, IdleIsSpared, Erasing
<1> QED
  BY <1>1, <1>2, <1>3, <1>4, <1>5, <1>6 DEF ErasureInv

LEMMA CommitErasureKeeps ==
  ASSUME ErasureInv, NEW e \in Erasers, CommitErasure(e)
  PROVE  ErasureInv'
<1>1. TypeOK'
  <2>2. /\ row' \in {"redacted", "gone"}
        /\ row' = "gone" => ~billed /\ ~named /\ payer # "customer"
    BY DEF ErasureInv, Findings, Finding, Erasing, CommitErasure, Step
  <2>3. found' \in [Erasers -> Found]
    BY DEF ErasureInv, TypeOK, CommitErasure, Found, Nothing
  <2> QED
    BY <2>2, <2>3 DEF ErasureInv, CommitErasure, Release, Go, Step, TypeOK, PC
<1>2. Guarded'
  BY ConstantsAssumption DEF ErasureInv, CommitErasure, Release, Go, Step, Actors, Guarded,
       Erasing, TypeOK
<1>3. Claimed'
  BY ConstantsAssumption DEF ErasureInv, CommitErasure, Release, Go, Step, Actors, Claimed,
       Guarded, Erasing
<1>4. Findings'
  BY DEF ErasureInv, CommitErasure, Go, Step, Actors, Findings, Finding, Erasing, Guarded, TypeOK,
       Nothing
<1>5. NothingLeft'
  BY DEF ErasureInv, CommitErasure, Step, Requests, NothingLeft, Findings, Finding, Reached,
       TypeOK
<1>6. IdleIsSpared'
  BY DEF ErasureInv, CommitErasure, Go, Step, IdleIsSpared, Erasing
<1> QED
  BY <1>1, <1>2, <1>3, <1>4, <1>5, <1>6 DEF ErasureInv

LEMMA LoseKeeps == ASSUME ErasureInv, NEW e \in Erasers, Lose(e) PROVE ErasureInv'
<1>1. TypeOK'
  BY DEF ErasureInv, Lose, copies, intent, Release, Go, Requests, TypeOK, PC, Found, Nothing
<1>2. Guarded'
  BY ConstantsAssumption DEF ErasureInv, Lose, Release, Go, Actors, Guarded, Erasing, TypeOK
<1>3. Claimed'
  BY ConstantsAssumption DEF ErasureInv, Lose, intent, Release, Go, Claimed
<1>4. Findings'
  BY DEF ErasureInv, Lose, Go, Actors, Findings, Finding, Erasing, Guarded, TypeOK, Nothing
<1>5. NothingLeft'
  BY DEF ErasureInv, Lose, NothingLeft, Erased, Guarded
<1>6. IdleIsSpared'
  BY DEF ErasureInv, Lose, Go, IdleIsSpared, Erasing
<1> QED
  BY <1>1, <1>2, <1>3, <1>4, <1>5, <1>6 DEF ErasureInv

LEMMA InitErasureInv == Init => ErasureInv
<1> SUFFICES ASSUME Init PROVE ErasureInv
  OBVIOUS
<1>1. Nothing \in Found /\ ~Nothing.gone /\ ~Nothing.note
  BY DEF Nothing, Found
<1>2. TypeOK
  BY <1>1 DEF Init, TypeOK, PC
<1>3. /\ \A a \in Actors : pc[a] = "idle" /\ erased[a] = FALSE
      /\ \A e \in Erasers : found[e] = Nothing /\ pc[e] = "idle"
      /\ Updates \cup Payments \cup Requests \cup Creates \cup Rivals \cup Sessions \subseteq Actors
  BY DEF Init, Requests, Sessions, Actors
<1>4. Guarded
  BY <1>3 DEF Init, Guarded, Erasing
<1>5. Claimed
  BY <1>3 DEF Claimed
<1>6. Findings
  BY <1>1, <1>3 DEF Findings, Finding
<1>7. NothingLeft /\ IdleIsSpared
  BY DEF Init, NothingLeft, IdleIsSpared
<1> QED
  BY <1>2, <1>4, <1>5, <1>6, <1>7 DEF ErasureInv

LEMMA StutterKeeps == ErasureInv /\ UNCHANGED vars => ErasureInv'
BY DEF vars, copies, intent, locks, ErasureInv, TypeOK, Guarded, Claimed, Findings, Finding,
     Erasing, Reached, NothingLeft, IdleIsSpared, Erased

LEMMA NextKeeps == ErasureInv /\ Next => ErasureInv'
<1> SUFFICES ASSUME ErasureInv, Next PROVE ErasureInv'
  OBVIOUS
<1>1. CASE Touch \/ OpenCharge \/ Decline
  BY <1>1, TouchKeeps, OpenChargeKeeps, DeclineKeeps
<1>2. ASSUME NEW u \in Updates, LockForUpdate(u) \/ CommitUpdate(u) PROVE ErasureInv'
  BY <1>2, LockForUpdateKeeps, CommitUpdateKeeps
<1>3. ASSUME NEW p \in Payments, BeginPayment(p) \/ CommitPayment(p) PROVE ErasureInv'
  BY <1>3, BeginPaymentKeeps, CommitPaymentKeeps
<1>4. ASSUME NEW q \in Requests, StoreNext(q) PROVE ErasureInv'
  BY <1>4, BeginStoreKeeps, CommitStoreKeeps DEF StoreNext
<1>5. ASSUME NEW c \in Sessions, Prepare(c) \/ SessionNext(c) PROVE ErasureInv'
  BY <1>5, PrepareKeeps, ShareCustomerKeeps, ClaimKeeps, CommitSessionKeeps DEF SessionNext
<1>6. ASSUME NEW d \in Deletes, LockToDelete(d) PROVE ErasureInv'
  BY <1>6, LockToDeleteKeeps
<1>7. ASSUME NEW s \in Sweeps, ReadIdle(s) \/ LockIdle(s) PROVE ErasureInv'
  BY <1>7, ReadIdleKeeps, LockIdleKeeps
<1>8. ASSUME NEW e \in Erasers, EraserNext(e) \/ Lose(e) PROVE ErasureInv'
  BY <1>8, BranchKeeps, FindEventsKeeps, FindAnswersKeeps, FindChargesKeeps, ReachIntentKeeps,
     ClearIntentKeeps, CommitErasureKeeps, LoseKeeps DEF EraserNext
<1> QED
  BY <1>1, <1>2, <1>3, <1>4, <1>5, <1>6, <1>7, <1>8 DEF Next

LEMMA Always == Spec => []ErasureInv
BY InitErasureInv, StutterKeeps, NextKeeps, PTL DEF Spec

(* The rows, the locks and the transactions keep their types, and a customer who is *)
(* deleted is one nothing refers to (hard_delete and the foreign keys).             *)
THEOREM ErasureTypes == Spec => []TypeOK
BY Always, PTL DEF ErasureInv

(* An erasure that has committed left no copy of the payer's data that its *)
(* statements are to find, and no writer adds one (redact_stored_copies,   *)
(* erased_under_share_lock).                                               *)
THEOREM NoCopyIsLeft == Spec => []NothingLeft
BY Always, PTL DEF ErasureInv

(* The sweep never erases a customer who was used after its horizon (erase_idle). *)
THEOREM UsedAreSpared == Spec => []IdleIsSpared
BY Always, PTL DEF ErasureInv

LEMMA NotesOfOthersStay ==
  ASSUME ErasureInv, Next, payer = "other", note
  PROVE  note'
<1>1. ASSUME NEW e \in Erasers, CommitErasure(e) PROVE note'
  BY <1>1 DEF ErasureInv, Findings, Finding, CommitErasure
<1>2. ASSUME NEW c \in Sessions,
             Claim(c) \/ Prepare(c) \/ ShareCustomer(c) \/ CommitSession(c)
      PROVE  note'
  BY <1>2 DEF Claim, Prepare, ShareCustomer, CommitSession, intent
<1>3. ASSUME NEW e \in Erasers,
             \/ Lose(e) \/ Branch(e) \/ FindEvents(e) \/ FindAnswers(e)
             \/ FindCharges(e) \/ ReachIntent(e) \/ ClearIntent(e)
      PROVE  note'
  BY <1>3 DEF Lose, Branch, FindEvents, FindAnswers, FindCharges, ReachIntent, ClearIntent, Quiet,
       intent
<1>4. ASSUME NEW a, \/ LockForUpdate(a) \/ CommitUpdate(a) \/ BeginPayment(a) \/ CommitPayment(a)
                   \/ StoreNext(a) \/ LockToDelete(a) \/ ReadIdle(a) \/ LockIdle(a)
      PROVE  note'
  BY <1>4 DEF LockForUpdate, CommitUpdate, BeginPayment, CommitPayment, StoreNext, BeginStore,
       CommitStore, LockToDelete, ReadIdle, LockIdle, intent
<1>5. CASE Touch \/ OpenCharge \/ Decline
  BY <1>5 DEF Touch, OpenCharge, Decline, intent
<1> QED
  BY <1>1, <1>2, <1>3, <1>4, <1>5 DEF Next, EraserNext, SessionNext

(* The decline of an intent that names another customer survives every erasure that *)
(* reaches it through an old session (the guard repeated on payment_intents).       *)
THEOREM OthersKeepTheirs == Spec => OthersAreSpared
<1>1. ErasureInv /\ [Next]_vars => [payer = "other" /\ note => note']_vars
  BY NotesOfOthersStay
<1> QED
  BY <1>1, Always, PTL DEF Spec, OthersAreSpared

LEMMA NobodyClaimsForTheErased ==
  ASSUME ErasureInv, Next, Erased, payer # "customer"
  PROVE  payer' # "customer"
<1>1. ASSUME NEW c \in Sessions, CommitSession(c) PROVE payer' # "customer"
  BY <1>1 DEF ErasureInv, Claimed, CommitSession, Erased
<1>2. ASSUME NEW c \in Sessions, Claim(c) \/ Prepare(c) \/ ShareCustomer(c) PROVE payer' = payer
  BY <1>2 DEF Claim, Prepare, ShareCustomer, intent
<1>3. ASSUME NEW e \in Erasers, EraserNext(e) \/ Lose(e) PROVE payer' = payer
  BY <1>3 DEF EraserNext, Lose, Branch, FindEvents, FindAnswers, FindCharges, ReachIntent,
       ClearIntent, CommitErasure, Quiet, intent
<1>4. ASSUME NEW a, \/ LockForUpdate(a) \/ CommitUpdate(a) \/ BeginPayment(a) \/ CommitPayment(a)
                   \/ StoreNext(a) \/ LockToDelete(a) \/ ReadIdle(a) \/ LockIdle(a)
      PROVE  payer' = payer
  BY <1>4 DEF LockForUpdate, CommitUpdate, BeginPayment, CommitPayment, StoreNext, BeginStore,
       CommitStore, LockToDelete, ReadIdle, LockIdle, intent
<1>5. CASE Touch \/ OpenCharge \/ Decline
  BY <1>5 DEF Touch, OpenCharge, Decline, intent
<1> QED
  BY <1>1, <1>2, <1>3, <1>4, <1>5 DEF Next, SessionNext

(* A session create never gives an intent to a customer who is erased      *)
(* (claim_intent_customer under the share lock).                           *)
THEOREM TheErasedGetNoIntent == Spec => ErasedIsNotClaimed
<1>1. ErasureInv /\ [Next]_vars => [Erased /\ payer # "customer" => payer' # "customer"]_vars
  BY NobodyClaimsForTheErased
<1> QED
  BY <1>1, Always, PTL DEF Spec, ErasedIsNotClaimed
=============================================================================
