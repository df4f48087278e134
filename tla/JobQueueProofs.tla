--------------------------- MODULE JobQueueProofs ---------------------------
(* What the fence and the lease of a job row guarantee, for any number of   *)
(* rows, processes and claim loops.                                          *)
EXTENDS JobQueue, TLAPS

\* A loop that holds the id of a row claimed it.
SlotsHaveJobs == \A s \in Slots : slot[s].same => slot[s].job \in Jobs

\* A process that has not started runs nothing.
NewIsIdle == \A s \in Slots : proc[Home[s]] = "new" => slot[s].pc = "idle"

\* A loop at work in a process that never stalled is the last claimer of its row,
\* on a lease that has not run out.
WorkersAreHolders ==
  \A s \in Slots :
    OnTime(s) => LET j == slot[s].job
               IN  /\ slot[s].same /\ j \in Jobs
                   /\ lock[j] = Home[s] /\ holder[j] = s /\ lease[j] = "fresh"

QueueInv ==
  /\ TypeOK
  /\ HeldRowsAreDue
  /\ SlotsHaveJobs
  /\ NewIsIdle
  /\ WorkersAreHolders

-----------------------------------------------------------------------------

\* The steps of a row that nobody holds the lease of, and of its lease.
LEMMA RowInv ==
  ASSUME QueueInv, NEW j \in Jobs, Row(j)
  PROVE  QueueInv'
<1> USE ConstantsAssumption DEF QueueInv
<1>1. CASE Enqueue(j)
  <2>1. TypeOK'
    BY <1>1 DEF Enqueue, TypeOK, When
  <2>2. HeldRowsAreDue'
    BY <1>1 DEF Enqueue, TypeOK, HeldRowsAreDue
  <2>3. SlotsHaveJobs' /\ NewIsIdle' /\ WorkersAreHolders'
    BY <1>1 DEF Enqueue, SlotsHaveJobs, NewIsIdle, WorkersAreHolders, OnTime, Busy, Alive
  <2> QED BY <2>1, <2>2, <2>3
<1>2. CASE when[j] = "later" /\ FallsDue(j)
  <2>1. TypeOK'
    BY <1>2 DEF FallsDue, TypeOK, When
  <2>2. HeldRowsAreDue'
    BY <1>2 DEF FallsDue, TypeOK, HeldRowsAreDue
  <2>3. SlotsHaveJobs' /\ NewIsIdle' /\ WorkersAreHolders'
    BY <1>2 DEF FallsDue, SlotsHaveJobs, NewIsIdle, WorkersAreHolders, OnTime, Busy, Alive
  <2> QED BY <2>1, <2>2, <2>3
<1>3. CASE LeaseExpires(j)
  <2>1. TypeOK'
    BY <1>3 DEF LeaseExpires, TypeOK
  <2>2. HeldRowsAreDue' /\ SlotsHaveJobs' /\ NewIsIdle'
    BY <1>3 DEF LeaseExpires, HeldRowsAreDue, SlotsHaveJobs, NewIsIdle
  <2>3. WorkersAreHolders'
    BY <1>3 DEF LeaseExpires, WorksOn, Matches, WorkersAreHolders, OnTime, Busy, Alive, TypeOK
  <2> QED BY <2>1, <2>2, <2>3
<1> QED BY <1>1, <1>2, <1>3 DEF Row, TimeComes, PullForward

\* A set of leases ends: nobody who is at work loses one.
LEMMA UnlockInv ==
  ASSUME QueueInv, NEW S \in SUBSET Jobs, Unlock(S), UNCHANGED <<when, ahead>>
  PROVE  /\ lock' \in [Jobs -> Processes \cup {None}]
         /\ lease' \in [Jobs -> {"fresh", "expired"}]
         /\ holder' \in [Jobs -> Slots \cup {None}]
         /\ HeldRowsAreDue'
<1>1. /\ lock' \in [Jobs -> Processes \cup {None}]
      /\ lease' \in [Jobs -> {"fresh", "expired"}]
      /\ holder' \in [Jobs -> Slots \cup {None}]
  BY DEF QueueInv, TypeOK, Unlock
<1>2. HeldRowsAreDue'
  BY DEF QueueInv, HeldRowsAreDue, Unlock
<1> QED BY <1>1, <1>2

\* The steps of a loop that leave the rows alone.
LEMMA QuietInv ==
  ASSUME QueueInv, NEW s \in Slots, UNCHANGED <<row, proc, stalled>>,
         NEW r \in SlotState, slot' = [slot EXCEPT ![s] = r],
         r.same => r.job \in Jobs,
         proc[Home[s]] = "new" => r.pc = "idle",
         r.pc \in {"working", "settling"} =>
           /\ slot[s].pc \in {"working", "settling"}
           /\ r.job = slot[s].job /\ r.same = slot[s].same
  PROVE  QueueInv'
<1> USE ConstantsAssumption DEF QueueInv
<1>1. TypeOK'
  BY DEF TypeOK, row
<1>2. HeldRowsAreDue' /\ SlotsHaveJobs' /\ NewIsIdle'
  BY DEF HeldRowsAreDue, SlotsHaveJobs, NewIsIdle, row, TypeOK
<1>3. WorkersAreHolders'
  BY DEF WorkersAreHolders, OnTime, Busy, Alive, row, TypeOK
<1> QED BY <1>1, <1>2, <1>3

LEMMA RestIsResting ==
  ASSUME NEW s \in Slots
  PROVE  /\ Rest(s) \in SlotState /\ ~Rest(s).same
         /\ Rest(s).pc \in {"idle", "gone"}
BY DEF Rest, Resting, SlotState, SlotPC, Verdict

LEMMA ClaimInv ==
  ASSUME QueueInv, NEW s \in Slots, NEW j \in Jobs, Claim(s, j)
  PROVE  QueueInv'
<1> USE ConstantsAssumption DEF QueueInv
<1>1. slot' \in [Slots -> SlotState]
  BY DEF Claim, Resting, TypeOK, SlotState, SlotPC, Verdict
<1>2. TypeOK'
  BY <1>1 DEF Claim, TypeOK
<1>3. HeldRowsAreDue'
  BY DEF Claim, Claimable, HeldRowsAreDue, TypeOK
<1>4. SlotsHaveJobs' /\ NewIsIdle'
  BY DEF Claim, SlotsHaveJobs, NewIsIdle, Resting, TypeOK, Alive
<1>5. WorkersAreHolders'
  <2> SUFFICES ASSUME NEW t \in Slots, OnTime(t)'
               PROVE  LET k == slot'[t].job
                      IN  /\ slot'[t].same /\ k \in Jobs
                          /\ lock'[k] = Home[t] /\ holder'[k] = t /\ lease'[k] = "fresh"
    BY DEF WorkersAreHolders
  <2>1. CASE t = s
    BY <2>1 DEF Claim, OnTime, Busy, Alive, Resting, TypeOK
  <2>2. CASE t # s
    <3>1. OnTime(t) /\ slot'[t] = slot[t]
      BY <2>2 DEF Claim, OnTime, Busy, Alive, TypeOK
    <3>2. slot[t].job # j
      BY <3>1 DEF WorkersAreHolders, Claim, Claimable
    <3> QED BY <3>1, <3>2 DEF WorkersAreHolders, Claim, TypeOK
  <2> QED BY <2>1, <2>2
<1> QED BY <1>2, <1>3, <1>4, <1>5

\* The answer that matches ends its own lease: nobody else was at work on the row.
LEMMA SettleRowInv ==
  ASSUME QueueInv, NEW s \in Slots, slot[s].pc = "settling", SettleRow(s)
  PROVE  QueueInv'
<1> USE ConstantsAssumption DEF QueueInv
<1> DEFINE j == slot[s].job
<1>1. j \in Jobs /\ lock[j] = Home[s]
  BY DEF SettleRow, Matches, SlotsHaveJobs
<1>2. /\ lock'   = [k \in Jobs |-> IF k = j THEN None ELSE lock[k]]
      /\ lease'  = [k \in Jobs |-> IF k = j THEN "fresh" ELSE lease[k]]
      /\ holder' = [k \in Jobs |-> IF k = j THEN None ELSE holder[k]]
  BY DEF SettleRow, Unlock
<1>3. /\ when' \in [Jobs -> When]
      /\ \A k \in Jobs : k # j => when'[k] = when[k]
  <2>1. slot[s].will \in Verdict
    BY DEF TypeOK, SlotState
  <2> QED BY <1>1, <2>1 DEF SettleRow, TypeOK, When, Verdict
<1>4. ahead' \in [Jobs -> SUBSET {k \in Jobs : when'[k] = "due"}]
  <2>1. ahead' = [k \in Jobs |-> IF k = j THEN {} ELSE ahead[k] \ {j}]
    BY DEF SettleRow
  <2> QED BY <1>3, <2>1 DEF TypeOK
<1>5. /\ slot' \in [Slots -> SlotState]
      /\ slot'[s] = Rest(s)
      /\ \A t \in Slots : t # s => /\ slot'[t].pc = slot[t].pc /\ slot'[t].job = slot[t].job
                                   /\ slot'[t].same => slot[t].same
                                   /\ slot[t].job # j => slot'[t].same = slot[t].same
  <2>1. slot' = [t \in Slots |->
                  IF t = s THEN Rest(s)
                  ELSE [slot[t] EXCEPT !.same = @ /\ ~(slot[s].will = "finish" /\ slot[t].job = j)]]
    BY DEF SettleRow
  <2>2. slot \in [Slots -> SlotState]
    BY DEF TypeOK
  <2>3. \A t \in Slots : \A b \in BOOLEAN :
          /\ [slot[t] EXCEPT !.same = b] \in SlotState
          /\ [slot[t] EXCEPT !.same = b].pc = slot[t].pc
          /\ [slot[t] EXCEPT !.same = b].job = slot[t].job
          /\ [slot[t] EXCEPT !.same = b].same = b
    BY <2>2 DEF SlotState
  <2>4. \A t \in Slots : slot[t].same \in BOOLEAN
    BY <2>2 DEF SlotState
  <2> QED BY <2>1, <2>2, <2>3, <2>4, RestIsResting
<1>6. TypeOK'
  BY <1>1, <1>2, <1>3, <1>4, <1>5 DEF TypeOK, SettleRow
<1>7. HeldRowsAreDue'
  BY <1>2, <1>3 DEF HeldRowsAreDue
<1>8. SlotsHaveJobs'
  BY <1>5, RestIsResting DEF SlotsHaveJobs
<1>9. NewIsIdle'
  BY <1>5 DEF NewIsIdle, SettleRow
<1>10. WorkersAreHolders'
  <2> SUFFICES ASSUME NEW t \in Slots, OnTime(t)'
               PROVE  LET k == slot'[t].job
                      IN  /\ slot'[t].same /\ k \in Jobs
                          /\ lock'[k] = Home[t] /\ holder'[k] = t /\ lease'[k] = "fresh"
    BY DEF WorkersAreHolders
  <2>1. t # s
    BY <1>5, RestIsResting DEF OnTime, Busy
  <2>2. OnTime(t)
    BY <1>5, <2>1 DEF OnTime, Busy, Alive, SettleRow
  <2>3. slot[t].job # j
    <3> SUFFICES ASSUME slot[t].job = j PROVE FALSE
      OBVIOUS
    <3>1. Home[s] = Home[t]
      BY <1>1, <2>2 DEF WorkersAreHolders
    <3>2. OnTime(s)
      BY <2>2, <3>1 DEF OnTime, Busy
    <3> QED BY <2>1, <2>2, <3>2 DEF WorkersAreHolders
  <2> QED BY <1>2, <1>5, <2>1, <2>2, <2>3 DEF WorkersAreHolders
<1> QED BY <1>6, <1>7, <1>8, <1>9, <1>10

LEMMA LoopInv ==
  ASSUME QueueInv, NEW s \in Slots, Loop(s)
  PROVE  QueueInv'
<1> USE ConstantsAssumption
<1>0. slot[s] \in SlotState /\ (slot[s].same => slot[s].job \in Jobs)
  BY DEF QueueInv, TypeOK, SlotsHaveJobs
<1>a. proc[Home[s]] = "new" => slot[s].pc = "idle"
  BY DEF QueueInv, NewIsIdle
<1>b. Resting("gone") \in SlotState /\ Resting("gone").pc = "gone" /\ ~Resting("gone").same
  BY DEF Resting, SlotState, SlotPC, Verdict
<1>1. CASE Look(s)
  <2> DEFINE r == [slot[s] EXCEPT !.pc = "claiming"]
  <2>1. r \in SlotState /\ r.pc = "claiming" /\ r.same = slot[s].same /\ r.job = slot[s].job
    BY <1>0 DEF SlotState, SlotPC
  <2>2. slot' = [slot EXCEPT ![s] = r]
    BY <1>1 DEF Look, QueueInv, TypeOK
  <2> QED BY <1>0, <1>1, <2>1, <2>2, QuietInv DEF Look
<1>2. CASE ClaimNothing(s)
  BY <1>2, <1>a, RestIsResting, QuietInv DEF ClaimNothing
<1>3. CASE Handled(s)
  <2> PICK v \in Verdict : slot' = [slot EXCEPT ![s].pc = "settling", ![s].will = v]
    BY <1>3 DEF Handled
  <2> DEFINE r == [slot[s] EXCEPT !.pc = "settling", !.will = v]
  <2>1. r \in SlotState /\ r.pc = "settling" /\ r.same = slot[s].same /\ r.job = slot[s].job
    BY <1>0 DEF SlotState, SlotPC
  <2>2. slot' = [slot EXCEPT ![s] = r]
    BY <1>3 DEF QueueInv, TypeOK
  <2> QED BY <1>0, <1>3, <1>a, <2>1, <2>2, QuietInv DEF Handled
<1>4. CASE Settle(s)
  <2>1. CASE SettleRow(s)
    BY <1>4, <2>1, SettleRowInv DEF Settle
  <2>2. CASE SettleNothing(s)
    BY <1>4, <2>2, <1>a, RestIsResting, QuietInv DEF Settle, SettleNothing
  <2> QED BY <1>4, <2>1, <2>2 DEF Settle
<1>5. CASE Leave(s)
  BY <1>5, <1>b, QuietInv DEF Leave
<1>6. CASE \E j \in Jobs : Claim(s, j)
  BY <1>6, ClaimInv
<1> QED BY <1>1, <1>2, <1>3, <1>4, <1>5, <1>6 DEF Loop

\* A process moves on, its loops stopped or not, and may end leases that nobody
\* at work holds.
LEMMA ProcessStep ==
  ASSUME QueueInv, NEW p \in Processes, NEW q \in ProcState \ {"new"},
         proc' = [proc EXCEPT ![p] = q], UNCHANGED stalled,
         q \in {"up", "draining"} => proc[p] \in {"new", "up"},
         slot' = slot \/ slot' = Aborted(p),
         NEW S \in SUBSET Jobs, Unlock(S), UNCHANGED <<when, ahead>>,
         \A s \in Slots : OnTime(s)' /\ OnTime(s) => slot[s].job \notin S
  PROVE  QueueInv'
<1> USE ConstantsAssumption
<1>1. /\ \A s \in Slots : slot'[s] = slot[s] \/ slot'[s] = Resting("gone")
      /\ slot' \in [Slots -> SlotState]
  <2>1. Resting("gone") \in SlotState
    BY DEF Resting, SlotState, SlotPC, Verdict
  <2>2. slot \in [Slots -> SlotState]
    BY DEF QueueInv, TypeOK
  <2> QED BY <2>1, <2>2 DEF Aborted
<1>b. Resting("gone").pc = "gone" /\ ~Resting("gone").same
  BY DEF Resting
<1>2. /\ proc' \in [Processes -> ProcState]
      /\ \A r \in Processes : r # p => proc'[r] = proc[r]
      /\ proc'[p] = q
  BY DEF QueueInv, TypeOK
<1>3. TypeOK' /\ HeldRowsAreDue'
  BY <1>1, <1>2, UnlockInv DEF QueueInv, TypeOK
<1>4. SlotsHaveJobs'
  BY <1>1, <1>b DEF QueueInv, SlotsHaveJobs
<1>5. NewIsIdle'
  <2> SUFFICES ASSUME NEW s \in Slots, proc'[Home[s]] = "new"
               PROVE  slot'[s].pc = "idle"
    BY DEF NewIsIdle
  <2>1. Home[s] # p /\ proc[Home[s]] = "new"
    BY <1>2
  <2>2. slot'[s] = slot[s]
    BY <2>1 DEF Aborted
  <2> QED BY <2>1, <2>2 DEF QueueInv, NewIsIdle
<1>6. WorkersAreHolders'
  <2> SUFFICES ASSUME NEW t \in Slots, OnTime(t)'
               PROVE  LET k == slot'[t].job
                      IN  /\ slot'[t].same /\ k \in Jobs
                          /\ lock'[k] = Home[t] /\ holder'[k] = t /\ lease'[k] = "fresh"
    BY DEF WorkersAreHolders
  <2>1. slot'[t] = slot[t] /\ slot[t].pc \in {"working", "settling"}
    BY <1>1, <1>b DEF OnTime, Busy
  <2>2. OnTime(t)
    <3>1. proc[Home[t]] # "new"
      BY <2>1 DEF QueueInv, NewIsIdle
    <3>2. CASE Home[t] = p
      BY <2>1, <3>1, <3>2, <1>2 DEF OnTime, Busy, Alive
    <3>3. CASE Home[t] # p
      BY <2>1, <3>3, <1>2 DEF OnTime, Busy, Alive
    <3> QED BY <3>2, <3>3
  <2> QED BY <2>1, <2>2 DEF QueueInv, WorkersAreHolders, Unlock
<1> QED BY <1>3, <1>4, <1>5, <1>6 DEF QueueInv

LEMMA ProcessInv ==
  ASSUME QueueInv, NEW p \in Processes, Process(p)
  PROVE  QueueInv'
<1> USE ConstantsAssumption
<1>0. UNCHANGED <<lock, lease, holder>> => Unlock({})
  BY DEF QueueInv, TypeOK, Unlock
<1>a. Expired \in SUBSET Jobs /\ HeldBy(p) \in SUBSET Jobs
  BY DEF Expired, HeldBy
<1>b. \A s \in Slots : OnTime(s) => slot[s].job \notin Expired
  BY DEF QueueInv, WorkersAreHolders, Expired
<1>c. {"up", "draining", "releasing", "down"} \subseteq ProcState \ {"new"}
  BY DEF ProcState
<1>1. CASE Start(p)
  <2>1. proc' = [proc EXCEPT ![p] = "up"] /\ proc[p] = "new" /\ slot' = slot /\ UNCHANGED <<when, ahead, stalled>>
    BY <1>1 DEF Start
  <2>2. CASE Unlock(Expired)
    BY <2>1, <2>2, <1>a, <1>b, <1>c, ProcessStep
  <2>3. CASE UNCHANGED <<lock, lease, holder>>
    BY <2>1, <2>3, <1>0, <1>c, ProcessStep
  <2> QED BY <1>1, <2>2, <2>3 DEF Start
<1>2. CASE Shutdown(p)
  BY <1>2, <1>0, <1>c, ProcessStep DEF Shutdown, row
<1>3. CASE Drained(p)
  BY <1>3, <1>0, <1>c, ProcessStep DEF Drained, row
<1>4. CASE DrainTimesOut(p)
  BY <1>4, <1>0, <1>c, ProcessStep DEF DrainTimesOut, row
<1>5. CASE Release(p)
  <2>1. proc' = [proc EXCEPT ![p] = "down"] /\ proc[p] = "releasing" /\ slot' = slot /\ UNCHANGED <<when, ahead, stalled>>
    BY <1>5 DEF Release
  <2>2. CASE Unlock(HeldBy(p))
    <3>1. \A s \in Slots : OnTime(s) => slot[s].job \notin HeldBy(p)
      BY <2>1 DEF QueueInv, WorkersAreHolders, HeldBy, OnTime, Busy, Alive
    <3> QED BY <2>1, <2>2, <3>1, <1>a, <1>c, ProcessStep
  <2>3. CASE UNCHANGED <<lock, lease, holder>>
    BY <2>1, <2>3, <1>0, <1>c, ProcessStep
  <2> QED BY <1>5, <2>2, <2>3 DEF Release
<1>6. CASE Crash(p)
  BY <1>6, <1>0, <1>c, ProcessStep DEF Crash, row
<1>7. CASE Reap(p)
  <2>1. Unlock(Expired) /\ UNCHANGED <<when, ahead, slot, proc, stalled>>
    BY <1>7 DEF Reap
  <2>2. TypeOK' /\ HeldRowsAreDue'
    BY <2>1, <1>a, UnlockInv DEF QueueInv, TypeOK
  <2>3. SlotsHaveJobs' /\ NewIsIdle'
    BY <2>1 DEF QueueInv, SlotsHaveJobs, NewIsIdle
  <2>4. WorkersAreHolders'
    BY <2>1, <1>b DEF QueueInv, WorkersAreHolders, Unlock, OnTime, Busy, Alive
  <2> QED BY <2>2, <2>3, <2>4 DEF QueueInv
<1> QED BY <1>1, <1>2, <1>3, <1>4, <1>5, <1>6, <1>7 DEF Process

-----------------------------------------------------------------------------

THEOREM QueueInductive == Spec => []QueueInv
<1>1. Init => QueueInv
  BY ConstantsAssumption DEF Init, QueueInv, TypeOK, HeldRowsAreDue, SlotsHaveJobs, NewIsIdle,
     WorkersAreHolders, OnTime, Busy, Alive, Resting, SlotState, SlotPC, Verdict, When, ProcState
<1>2. QueueInv /\ [Next]_vars => QueueInv'
  <2> SUFFICES ASSUME QueueInv, [Next]_vars PROVE QueueInv'
    OBVIOUS
  <2>1. CASE UNCHANGED vars
    BY <2>1 DEF vars, row, QueueInv, TypeOK, HeldRowsAreDue, SlotsHaveJobs, NewIsIdle,
       WorkersAreHolders, OnTime, Busy, Alive
  <2>2. CASE Next
    BY <2>2, RowInv, LoopInv, ProcessInv DEF Next
  <2> QED BY <2>1, <2>2
<1> QED BY <1>1, <1>2, PTL DEF Spec

\* Rows, loops and processes keep to their types.
THEOREM QueueTypes == Spec => []TypeOK
<1>1. QueueInv => TypeOK
  BY DEF QueueInv
<1> QED BY <1>1, QueueInductive, PTL

\* A held row is due, so whatever ends its lease leaves it claimable.
THEOREM HeldRowsStayDue == Spec => []HeldRowsAreDue
<1>1. QueueInv => HeldRowsAreDue
  BY DEF QueueInv
<1> QED BY <1>1, QueueInductive, PTL

\* Outside the processes that stalled, a job is worked by one loop at a time, the
\* one that holds it, across any number of restarts.
THEOREM OneWorkerPerJob == Spec => []WorkersHoldTheirLease
<1>1. QueueInv => WorkersHoldTheirLease
  BY DEF QueueInv, WorkersAreHolders, WorkersHoldTheirLease, Matches
<1> QED BY <1>1, QueueInductive, PTL

\* In a process with one loop, an answer that outlived its lease changes nothing,
\* however late it is.
THEOREM LateAnswersAreDiscarded == Spec => []FenceIsTheHolder
<1>1. QueueInv => FenceIsTheHolder
  BY ConstantsAssumption DEF QueueInv, TypeOK, HeldRowsAreDue, SlotsHaveJobs, FenceIsTheHolder,
     Alone, Matches
<1> QED BY <1>1, QueueInductive, PTL

\* A parked row stays parked, whoever is late and whatever is enqueued.
THEOREM ParkedForGood == Spec => ParkedStaysParked
<1>1. QueueInv /\ [Next]_vars => \A j \in Jobs : when[j] = "parked" => when'[j] = "parked"
  <2> SUFFICES ASSUME QueueInv, [Next]_vars, NEW j \in Jobs, when[j] = "parked"
               PROVE  when'[j] = "parked"
    OBVIOUS
  <2> USE ConstantsAssumption DEF QueueInv
  <2>1. CASE UNCHANGED when
    BY <2>1
  <2>2. ASSUME NEW k \in Jobs, Row(k) PROVE when'[j] = "parked"
    BY <2>2 DEF Row, Enqueue, TimeComes, PullForward, FallsDue, LeaseExpires, TypeOK
  <2>3. ASSUME NEW s \in Slots, slot[s].pc = "settling", SettleRow(s) PROVE when'[j] = "parked"
    <3>1. slot[s].job \in Jobs /\ lock[slot[s].job] = Home[s]
      BY <2>3 DEF SettleRow, Matches, SlotsHaveJobs
    <3>2. slot[s].job # j
      BY <3>1 DEF HeldRowsAreDue
    <3> QED BY <3>1, <3>2, <2>3 DEF SettleRow, TypeOK
  <2>4. ASSUME NEW s \in Slots, Loop(s) PROVE when'[j] = "parked"
    BY <2>1, <2>3, <2>4
       DEF Loop, Look, ClaimNothing, Handled, Settle, SettleNothing, Leave, Claim, row
  <2>5. ASSUME NEW p \in Processes, Process(p) PROVE UNCHANGED when
    BY <2>5 DEF Process, Start, Shutdown, Drained, DrainTimesOut, Release, Crash, Reap, row
  <2> QED BY <2>1, <2>2, <2>4, <2>5 DEF Next, vars, row
<1>2. QueueInv /\ [Next]_vars => [\A j \in Jobs : when[j] = "parked" => when'[j] = "parked"]_vars
  BY <1>1
<1> QED BY <1>2, QueueInductive, PTL DEF Spec, ParkedStaysParked

-----------------------------------------------------------------------------
(* JobQueue implements JobLease.                                            *)

\* What the lease needs besides: a handler runs in a live process.
WorkingIsAlive == \A s \in Slots : slot[s].pc = "working" => Alive(Home[s])

LeaseInv == QueueInv /\ WorkingIsAlive

\* A handler starts in a live process, and stops with it.
LEMMA WorkingNext ==
  ASSUME QueueInv, WorkingIsAlive, [Next]_vars
  PROVE  WorkingIsAlive'
<1> USE ConstantsAssumption DEF QueueInv, TypeOK
<1>0. \A s \in Slots : Rest(s).pc # "working" /\ Resting("gone").pc # "working"
  BY DEF Rest, Resting
<1>1. CASE UNCHANGED vars
  BY <1>1 DEF vars, row, WorkingIsAlive, Alive
<1>2. ASSUME NEW j \in Jobs, Row(j) PROVE WorkingIsAlive'
  BY <1>2 DEF Row, Enqueue, TimeComes, PullForward, FallsDue, LeaseExpires, WorkingIsAlive, Alive
<1>3. ASSUME NEW s \in Slots, Loop(s) PROVE WorkingIsAlive'
  <2>1. proc' = proc
    BY <1>3 DEF Loop, Look, ClaimNothing, Handled, Settle, SettleRow, SettleNothing, Leave, Claim
  <2>2. \A t \in Slots : slot'[t].pc = "working" => slot[t].pc = "working" \/ Alive(Home[t])
    <3>1. CASE Look(s)
      BY <3>1 DEF Look, SlotState
    <3>6. CASE ClaimNothing(s) \/ Leave(s)
      BY <3>6, <1>0 DEF ClaimNothing, Leave
    <3>5. CASE Handled(s)
      BY <3>5 DEF Handled, SlotState
    <3>2. CASE \E j \in Jobs : Claim(s, j)
      BY <3>2, <1>0 DEF Claim
    <3>3. CASE SettleRow(s)
      <4> SUFFICES ASSUME NEW t \in Slots, slot'[t].pc = "working" PROVE slot[t].pc = "working"
        OBVIOUS
      <4>1. slot' = [u \in Slots |->
               IF u = s THEN Rest(s)
               ELSE [slot[u] EXCEPT !.same = @ /\ ~(slot[s].will = "finish"
                                                      /\ slot[u].job = slot[s].job)]]
        BY <3>3 DEF SettleRow
      <4>2. t # s
        BY <4>1, <1>0
      <4> QED
        BY <4>1, <4>2 DEF SlotState
    <3>4. CASE SettleNothing(s)
      BY <3>4, <1>0 DEF SettleNothing
    <3> QED
      BY <1>3, <3>1, <3>2, <3>3, <3>4, <3>5, <3>6 DEF Loop, Settle
  <2> QED
    BY <2>1, <2>2 DEF WorkingIsAlive, Alive
<1>4. ASSUME NEW p \in Processes, Process(p) PROVE WorkingIsAlive'
  <2>1. CASE Start(p) \/ Shutdown(p)
    BY <2>1 DEF Start, Shutdown, WorkingIsAlive, Alive
  <2>2. CASE Drained(p)
    BY <2>2 DEF Drained, WorkingIsAlive, Alive
  <2>3. CASE DrainTimesOut(p) \/ Crash(p)
    <3> SUFFICES ASSUME NEW s \in Slots, slot'[s].pc = "working" PROVE Alive(Home[s])'
      BY DEF WorkingIsAlive
    <3>1. slot[s].pc = "working" /\ Home[s] # p
      BY <2>3, <1>0 DEF DrainTimesOut, Crash, Aborted
    <3> QED
      BY <2>3, <3>1 DEF DrainTimesOut, Crash, WorkingIsAlive, Alive
  <2>4. CASE Release(p) \/ Reap(p)
    BY <2>4 DEF Release, Reap, WorkingIsAlive, Alive
  <2> QED
    BY <1>4, <2>1, <2>2, <2>3, <2>4 DEF Process
<1> QED
  BY <1>1, <1>2, <1>3, <1>4 DEF Next

THEOREM LeaseInductive == Spec => []LeaseInv
<1>1. Init => WorkingIsAlive
  BY DEF Init, WorkingIsAlive, Resting
<1>2. QueueInv /\ WorkingIsAlive /\ [Next]_vars => WorkingIsAlive'
  BY WorkingNext
<1>3. Spec => []WorkingIsAlive
  BY <1>1, <1>2, QueueInductive, PTL DEF Spec
<1> QED
  BY <1>3, QueueInductive, PTL DEF LeaseInv

\* What the row says of its lease.
LEMMA LeaseOfRow ==
  ASSUME QueueInv, NEW j \in Jobs
  PROVE  /\ when[j] = "none" => LeaseOf(j) = "absent"
         /\ when[j] = "parked" => LeaseOf(j) = "parked"
         /\ when[j] \in {"later", "due"} /\ lock[j] = None => LeaseOf(j) = "queued"
         /\ lock[j] # None => /\ when[j] = "due" /\ LeaseOf(j) = holder[j]
                              /\ holder[j] \in Slots /\ Home[holder[j]] = lock[j]
         /\ LeaseOf(j) \in Slots => lock[j] # None
<1>1. when[j] \in When /\ holder[j] \in Slots \cup {None}
  BY DEF QueueInv, TypeOK
<1>2. lock[j] # None => when[j] = "due" /\ holder[j] # None /\ Home[holder[j]] = lock[j]
  BY DEF QueueInv, HeldRowsAreDue
<1>3. CASE when[j] = "none"
  BY <1>1, <1>2, <1>3, ConstantsAssumption DEF LeaseOf
<1>4. CASE when[j] = "parked"
  BY <1>1, <1>2, <1>4, ConstantsAssumption DEF LeaseOf
<1>5. CASE when[j] \in {"later", "due"} /\ lock[j] = None
  BY <1>1, <1>2, <1>5, ConstantsAssumption DEF LeaseOf
<1>6. CASE when[j] \in {"later", "due"} /\ lock[j] # None
  BY <1>1, <1>2, <1>6, ConstantsAssumption DEF LeaseOf
<1> QED
  BY <1>1, <1>3, <1>4, <1>5, <1>6 DEF When

\* Rows that keep their lease, and loops that keep what they have in hand.
LEMMA SameLease ==
  ASSUME UNCHANGED <<when, lock, holder>>
  PROVE  \A j \in Jobs : LeaseOf(j)' = LeaseOf(j)
BY DEF LeaseOf

DeadWriters == {s \in Slots : slot[s].pc = "settling" /\ ~Alive(Home[s])}

LEMMA SameHands ==
  ASSUME UNCHANGED <<slot, proc>>
  PROVE  (\A s \in Slots : InHand(s)' = InHand(s)) /\ DeadWriters' = DeadWriters
BY DEF InHand, DeadWriters, Alive

LEMMA LeaseStutter ==
  ASSUME \A j \in Jobs : LeaseOf(j)' = LeaseOf(j),
         \A s \in Slots : InHand(s)' = InHand(s),
         DeadWriters' = DeadWriters, stalled' = stalled
  PROVE  UNCHANGED Lease!leased
<1>1. [j \in Jobs |-> LeaseOf(j)]' = [j \in Jobs |-> LeaseOf(j)]
  OBVIOUS
<1>2. [s \in Slots |-> InHand(s)]' = [s \in Slots |-> InHand(s)]
  OBVIOUS
<1> QED
  BY <1>1, <1>2 DEF Lease!leased, DeadWriters

\* The leases of S end, and nobody at work on a row of S holds it.
LEMMA LeasesEnd ==
  ASSUME QueueInv, NEW S \in SUBSET Jobs, Unlock(S), when' = when, stalled' = stalled,
         \A s \in Slots : InHand(s)' = InHand(s), DeadWriters' = DeadWriters,
         \A j \in S : /\ lock[j] # None
                      /\ \/ Home[holder[j]] \in stalled
                         \/ j \notin InHand(holder[j]) \/ holder[j] \in DeadWriters
  PROVE  Lease!Next
<1> DEFINE J == [j \in Jobs |-> LeaseOf(j)]
           A == [s \in Slots |-> InHand(s)]
<1>1. \A j \in S : J[j] = holder[j] /\ holder[j] \in Slots
  BY LeaseOfRow
<1>2. \A j \in Jobs : LeaseOf(j)' = IF j \in S THEN "queued" ELSE LeaseOf(j)
  <2> SUFFICES ASSUME NEW j \in Jobs
               PROVE  LeaseOf(j)' = IF j \in S THEN "queued" ELSE LeaseOf(j)
    OBVIOUS
  <2>1. CASE j \in S
    <3>1. when[j] = "due" /\ lock'[j] = None /\ when'[j] = "due"
      BY <2>1, LeaseOfRow DEF Unlock
    <3> QED
      BY <2>1, <3>1 DEF LeaseOf
  <2>2. CASE j \notin S
    <3>1. lock'[j] = lock[j] /\ holder'[j] = holder[j] /\ when'[j] = when[j]
      BY <2>2 DEF Unlock
    <3> QED
      BY <2>2, <3>1 DEF LeaseOf
  <2> QED
    BY <2>1, <2>2
<1>3. J' = [j \in Jobs |-> IF j \in S THEN "queued" ELSE J[j]]
  BY <1>2
<1>4. A' = A
  OBVIOUS
<1>5. \A j \in S : Home[J[j]] \in stalled \/ j \notin A[J[j]] \/ J[j] \in DeadWriters
  BY <1>1
<1>6. Lease!Free(S)
  BY <1>1, <1>3, <1>4, <1>5 DEF Lease!Free, Lease!Held, Lease!Worked, DeadWriters
<1> QED
  BY <1>6 DEF Lease!Next

\* An expired lease, or one of a process that is dying, is not that of a loop at work,
\* unless the process stalled.
LEMMA FreeToEnd ==
  ASSUME LeaseInv, NEW j \in Jobs, lock[j] # None,
         lease[j] = "expired" \/ ~ Alive(lock[j])
  PROVE  \/ Home[holder[j]] \in stalled
         \/ j \notin InHand(holder[j]) \/ holder[j] \in DeadWriters
<1> SUFFICES ASSUME Home[holder[j]] \notin stalled, j \in InHand(holder[j])
             PROVE  holder[j] \in DeadWriters
  OBVIOUS
<1>1. holder[j] \in Slots /\ Home[holder[j]] = lock[j]
  BY LeaseOfRow DEF LeaseInv
<1>2. slot[holder[j]].pc \in {"working", "settling"} /\ slot[holder[j]].job = j
  BY DEF InHand
<1>3. CASE Alive(lock[j])
  <2>1. OnTime(holder[j])
    BY <1>1, <1>2, <1>3 DEF OnTime, Busy, LeaseInv
  <2> QED
    BY <1>1, <1>2, <1>3, <2>1 DEF LeaseInv, QueueInv, WorkersAreHolders
<1>4. CASE ~ Alive(lock[j])
  BY <1>1, <1>2, <1>4 DEF DeadWriters, LeaseInv, WorkingIsAlive
<1> QED
  BY <1>3, <1>4

-----------------------------------------------------------------------------

LEMMA RowLeases ==
  ASSUME LeaseInv, NEW j \in Jobs, Row(j)
  PROVE  [Lease!Next]_(Lease!leased)
<1> USE DEF LeaseInv
<1>1. CASE Enqueue(j)
  <2>1. (\A s \in Slots : InHand(s)' = InHand(s)) /\ DeadWriters' = DeadWriters
    BY <1>1, SameHands DEF Enqueue
  <2>2. LeaseOf(j) = "absent" /\ lock[j] = None
    BY <1>1, LeaseOfRow DEF Enqueue
  <2>3. \A k \in Jobs : LeaseOf(k)' = IF k \in {j} THEN "queued" ELSE LeaseOf(k)
    BY <1>1, <2>2 DEF Enqueue, LeaseOf, QueueInv, TypeOK
  <2>4. Lease!Enqueue({j})
    BY <1>1, <2>1, <2>2, <2>3 DEF Enqueue, Lease!Enqueue, DeadWriters
  <2> QED
    BY <2>4 DEF Lease!Next
<1>2. CASE when[j] = "later" /\ FallsDue(j)
  <2>1. (\A s \in Slots : InHand(s)' = InHand(s)) /\ DeadWriters' = DeadWriters
    BY <1>2, SameHands DEF FallsDue
  <2>2. \A k \in Jobs : LeaseOf(k)' = LeaseOf(k)
    BY <1>2 DEF FallsDue, LeaseOf, QueueInv, TypeOK
  <2> QED
    BY <1>2, <2>1, <2>2, LeaseStutter DEF FallsDue
<1>3. CASE LeaseExpires(j)
  <2> DEFINE W == {t \in Slots : WorksOn(t, j)}
  <2>1. /\ [k \in Jobs |-> LeaseOf(k)]' = [k \in Jobs |-> LeaseOf(k)]
        /\ [s \in Slots |-> InHand(s)]' = [s \in Slots |-> InHand(s)]
        /\ DeadWriters' = DeadWriters
    BY <1>3, SameLease, SameHands DEF LeaseExpires
  <2>2. stalled' = stalled \cup {Home[w] : w \in W}
    BY <1>3 DEF LeaseExpires
  <2>3. W \in SUBSET Slots
    OBVIOUS
  <2>4. Lease!Stall(W)
    BY <2>1, <2>2 DEF Lease!Stall, DeadWriters
  <2> HIDE DEF W
  <2> QED
    BY <2>3, <2>4 DEF Lease!Next
<1> QED
  BY <1>1, <1>2, <1>3 DEF Row, TimeComes, PullForward

\* A claim.
LEMMA ClaimLeases ==
  ASSUME LeaseInv, NEW s \in Slots, NEW j \in Jobs, Claim(s, j)
  PROVE  Lease!Next
<1> USE DEF LeaseInv
<1> DEFINE J == [k \in Jobs |-> LeaseOf(k)]
           A == [t \in Slots |-> InHand(t)]
<1>1. slot[s].pc = "claiming" /\ when[j] = "due" /\ lock[j] = None
  BY DEF Claim, Claimable
<1>2. J[j] = "queued" /\ A[s] = {}
  BY <1>1, LeaseOfRow DEF InHand
<1>3. \A k \in Jobs : LeaseOf(k)' = IF k = j THEN s ELSE LeaseOf(k)
  <2> SUFFICES ASSUME NEW k \in Jobs PROVE LeaseOf(k)' = IF k = j THEN s ELSE LeaseOf(k)
    OBVIOUS
  <2>1. CASE k = j
    <3>1. lock'[j] = Home[s] /\ holder'[j] = s /\ when'[j] = "due" /\ Home[s] # None
      BY <1>1, ConstantsAssumption DEF Claim, QueueInv, TypeOK
    <3> QED
      BY <2>1, <3>1 DEF LeaseOf
  <2>2. CASE k # j
    <3>1. lock'[k] = lock[k] /\ holder'[k] = holder[k] /\ when'[k] = when[k]
      BY <2>2 DEF Claim, QueueInv, TypeOK
    <3> QED
      BY <2>2, <3>1 DEF LeaseOf
  <2> QED
    BY <2>1, <2>2
<1>4. J' = [J EXCEPT ![j] = s]
  BY <1>3
<1>5. /\ \A t \in Slots : t # s => slot'[t] = slot[t]
      /\ slot'[s].pc = "gone" \/ (slot'[s].pc = "working" /\ slot'[s].job = j)
      /\ proc' = proc
  <2>1. slot'[s] = IF Alive(Home[s])
                   THEN [pc |-> "working", job |-> j, will |-> "finish", same |-> TRUE]
                   ELSE Resting("gone")
    BY DEF Claim, QueueInv, TypeOK
  <2>2. slot'[s].pc = "gone" \/ (slot'[s].pc = "working" /\ slot'[s].job = j)
    <3>1. CASE Alive(Home[s])
      BY <2>1, <3>1
    <3>2. CASE ~ Alive(Home[s])
      BY <2>1, <3>2 DEF Resting
    <3> QED
      BY <3>1, <3>2
  <2> QED
    BY <2>2 DEF Claim
<1>6. DeadWriters' = DeadWriters
  BY <1>1, <1>5 DEF DeadWriters, Alive
<1>7. \A t \in Slots : t # s => InHand(t)' = InHand(t)
  BY <1>5 DEF InHand
<1>8. InHand(s)' = {} \/ InHand(s)' = {j}
  BY <1>5 DEF InHand
<1>9. A' \in {A, [A EXCEPT ![s] = {j}]}
  BY <1>2, <1>7, <1>8
<1>10. Lease!Claim(s, j)
  BY <1>2, <1>4, <1>6, <1>9 DEF Claim, Lease!Claim, DeadWriters
<1> QED
  BY <1>10 DEF Lease!Next

\* The answer that matches: the row is the loop's own, or one of its process that no
\* loop of it is at work on, unless the process stalled.
LEMMA SettleLeases ==
  ASSUME LeaseInv, NEW s \in Slots, slot[s].pc = "settling", SettleRow(s),
         NEW j \in Jobs, j = slot[s].job
  PROVE  Lease!Next
<1> USE DEF LeaseInv
<1> DEFINE J == [k \in Jobs |-> LeaseOf(k)]
           A == [t \in Slots |-> InHand(t)]
<1>1. lock[j] = Home[s] /\ lock[j] # None
  BY ConstantsAssumption DEF SettleRow, Matches
<1>2. J[j] = holder[j] /\ holder[j] \in Slots /\ Home[holder[j]] = Home[s] /\ j \in A[s]
  BY <1>1, LeaseOfRow DEF InHand
<1>3. \/ Home[s] \in stalled \/ holder[j] = s
      \/ j \notin A[holder[j]] \/ holder[j] \in DeadWriters
  <2> SUFFICES ASSUME Home[s] \notin stalled, j \in A[holder[j]], holder[j] \notin DeadWriters
               PROVE  holder[j] = s
    OBVIOUS
  <2>1. slot[holder[j]].pc \in {"working", "settling"} /\ slot[holder[j]].job = j
    BY <1>2 DEF InHand
  <2>2. Alive(Home[s])
    BY <1>2, <2>1 DEF DeadWriters, WorkingIsAlive
  <2>3. OnTime(s)
    BY <2>2 DEF OnTime, Busy
  <2> QED
    BY <2>3 DEF QueueInv, WorkersAreHolders
<1>4. PICK v \in {"absent", "queued", "parked"} :
        \A k \in Jobs : LeaseOf(k)' = IF k = j THEN v ELSE LeaseOf(k)
  <2>1. /\ lock'   = [k \in Jobs |-> IF k = j THEN None ELSE lock[k]]
        /\ holder' = [k \in Jobs |-> IF k = j THEN None ELSE holder[k]]
    BY DEF SettleRow, Unlock
  <2>2. \A k \in Jobs : k # j => when'[k] = when[k]
    BY DEF SettleRow, QueueInv, TypeOK
  <2>3. \A k \in Jobs : k # j => LeaseOf(k)' = LeaseOf(k)
    BY <2>1, <2>2 DEF LeaseOf
  <2>4. LeaseOf(j)' \in {"absent", "queued", "parked"}
    BY <2>1 DEF LeaseOf
  <2> QED
    BY <2>3, <2>4
<1>5. J' = [J EXCEPT ![j] = v]
  BY <1>4
<1>6. /\ slot'[s].pc \in {"idle", "gone"}
      /\ \A t \in Slots : t # s => slot'[t].pc = slot[t].pc /\ slot'[t].job = slot[t].job
      /\ proc' = proc
  <2>1. slot' = [t \in Slots |->
                  IF t = s THEN Rest(s)
                  ELSE [slot[t] EXCEPT !.same = @ /\ ~(slot[s].will = "finish" /\ slot[t].job = j)]]
    BY DEF SettleRow
  <2>2. slot \in [Slots -> SlotState]
    BY DEF QueueInv, TypeOK
  <2>3. \A t \in Slots : \A b \in BOOLEAN :
          /\ [slot[t] EXCEPT !.same = b].pc = slot[t].pc
          /\ [slot[t] EXCEPT !.same = b].job = slot[t].job
    BY <2>2 DEF SlotState
  <2>4. \A t \in Slots : slot[t].same \in BOOLEAN
    BY <2>2 DEF SlotState
  <2>5. slot'[s].pc \in {"idle", "gone"}
    BY <2>1, RestIsResting
  <2>6. \A t \in Slots : t # s => slot'[t].pc = slot[t].pc /\ slot'[t].job = slot[t].job
    BY <2>1, <2>3, <2>4
  <2> QED
    BY <2>5, <2>6 DEF SettleRow
<1>7. A' = [A EXCEPT ![s] = {}]
  BY <1>6 DEF InHand
<1>8. DeadWriters' = DeadWriters \ {s}
  BY <1>6 DEF DeadWriters, Alive
<1>9. stalled' = stalled
  BY DEF SettleRow
<1>10. Lease!Settle(s, j)
  BY <1>2, <1>3, <1>5, <1>7, <1>8, <1>9 DEF Lease!Settle, Lease!Held, Lease!Worked, DeadWriters
<1> QED
  BY <1>1, <1>10 DEF Lease!Next

\* Loops lose what they had in hand, and some of them die with a write on its way.
LEMMA LoopsLeave ==
  ASSUME NEW W \in SUBSET Slots, NEW G \in SUBSET Slots, W \cap G = {},
         UNCHANGED <<when, lock, holder, stalled>>,
         \A t \in Slots : InHand(t)' = IF t \in W THEN {} ELSE InHand(t),
         DeadWriters' = (DeadWriters \cup {t \in G : InHand(t) # {}}) \ W
  PROVE  Lease!Next
<1>1. [j \in Jobs |-> LeaseOf(j)]' = [j \in Jobs |-> LeaseOf(j)]
  BY SameLease
<1>2. Lease!Leave(W, G)
  BY <1>1 DEF Lease!Leave, DeadWriters
<1> QED
  BY <1>2 DEF Lease!Next

\* A loop that changes its place and has in hand what it had, or nothing any more.
LEMMA OneLoop ==
  ASSUME LeaseInv, NEW s \in Slots, UNCHANGED <<when, lock, holder, proc, stalled>>,
         NEW r, slot' = [slot EXCEPT ![s] = r],
         \/ r.pc \notin {"working", "settling"}
         \/ slot[s].pc = "working" /\ r.pc = "settling" /\ r.job = slot[s].job
  PROVE  [Lease!Next]_(Lease!leased)
<1>1. slot'[s] = r /\ \A t \in Slots : t # s => slot'[t] = slot[t]
  BY DEF LeaseInv, QueueInv, TypeOK
<1>2. CASE slot[s].pc = "working" /\ r.pc = "settling" /\ r.job = slot[s].job
  <2>1. \A t \in Slots : InHand(t)' = InHand(t)
    BY <1>1, <1>2 DEF InHand
  <2>2. DeadWriters' = DeadWriters
    BY <1>1, <1>2 DEF DeadWriters, Alive, LeaseInv, WorkingIsAlive
  <2> QED
    BY <2>1, <2>2, SameLease, LeaseStutter
<1>3. CASE r.pc \notin {"working", "settling"}
  <2>1. \A t \in Slots : InHand(t)' = IF t \in {s} THEN {} ELSE InHand(t)
    BY <1>1, <1>3 DEF InHand
  <2>2. DeadWriters' = (DeadWriters \cup {t \in {} : InHand(t) # {}}) \ {s}
    BY <1>1, <1>3 DEF DeadWriters, Alive
  <2> QED
    BY <2>1, <2>2, LoopsLeave
<1> QED
  BY <1>2, <1>3

LEMMA LoopLeases ==
  ASSUME LeaseInv, NEW s \in Slots, Loop(s)
  PROVE  [Lease!Next]_(Lease!leased)
<1> USE DEF LeaseInv, QueueInv, TypeOK
<1>0. /\ slot \in [Slots -> SlotState] /\ slot[s] \in SlotState
      /\ Rest(s).pc \notin {"working", "settling"}
      /\ Resting("gone").pc \notin {"working", "settling"}
  BY RestIsResting DEF Resting
<1>1. CASE Look(s)
  <2>1. slot' = [slot EXCEPT ![s] = [slot[s] EXCEPT !.pc = "claiming"]]
    BY <1>1 DEF Look
  <2>2. [slot[s] EXCEPT !.pc = "claiming"].pc = "claiming"
    BY <1>0 DEF SlotState
  <2> QED
    BY <1>1, <2>1, <2>2, OneLoop DEF Look, row
<1>2. CASE ClaimNothing(s) \/ SettleNothing(s)
  BY <1>0, <1>2, OneLoop DEF ClaimNothing, SettleNothing, row
<1>3. CASE Handled(s)
  <2>1. PICK v \in Verdict :
          slot' = [slot EXCEPT ![s] = [slot[s] EXCEPT !.pc = "settling", !.will = v]]
    BY <1>3 DEF Handled
  <2> DEFINE r == [slot[s] EXCEPT !.pc = "settling", !.will = v]
  <2>2. r.pc = "settling" /\ r.job = slot[s].job
    BY <1>0 DEF SlotState
  <2> QED
    BY <1>3, <2>1, <2>2, OneLoop DEF Handled, row
<1>4. CASE slot[s].pc = "settling" /\ SettleRow(s)
  <2>1. slot[s].job \in Jobs
    BY <1>4 DEF SettleRow, Matches, SlotsHaveJobs
  <2> QED
    BY <1>4, <2>1, SettleLeases
<1>5. CASE Leave(s)
  BY <1>0, <1>5, OneLoop DEF Leave, row
<1>6. CASE \E j \in Jobs : Claim(s, j)
  BY <1>6, ClaimLeases
<1> QED
  BY <1>1, <1>2, <1>3, <1>4, <1>5, <1>6 DEF Loop, Settle

\* A process dies, or aborts its loops: those that wait for the answer to their last
\* write leave it on its way.
LEMMA AbortLeases ==
  ASSUME LeaseInv, NEW p \in Processes, DrainTimesOut(p) \/ Crash(p)
  PROVE  Lease!Next
<1> USE DEF LeaseInv, QueueInv, TypeOK
<1> DEFINE W == {s \in Slots : Home[s] = p /\ slot[s].pc \in {"idle", "working"}}
           G == {s \in Slots : Home[s] = p /\ slot[s].pc = "settling"}
<1>1. /\ slot' = Aborted(p) /\ UNCHANGED <<when, lock, holder, stalled>>
      /\ \A q \in Processes : q # p => proc'[q] = proc[q]
      /\ proc'[p] \notin {"up", "draining"}
  BY DEF DrainTimesOut, Crash, row
<1>2. \A t \in Slots : slot'[t] = IF t \in W THEN Resting("gone") ELSE slot[t]
  BY <1>1 DEF Aborted
<1>3. Resting("gone").pc = "gone"
  BY DEF Resting
<1>4. \A t \in Slots : InHand(t)' = IF t \in W THEN {} ELSE InHand(t)
  BY <1>2, <1>3 DEF InHand
<1>5. DeadWriters' = (DeadWriters \cup {t \in G : InHand(t) # {}}) \ W
  <2>1. \A t \in G : InHand(t) # {}
    BY DEF InHand
  <2>2. \A t \in Slots : slot'[t].pc = "settling" <=> slot[t].pc = "settling"
    BY <1>2, <1>3
  <2>3. \A t \in Slots : Alive(Home[t])' <=> Alive(Home[t]) /\ Home[t] # p
    BY <1>1, ConstantsAssumption DEF Alive
  <2> QED
    BY <2>1, <2>2, <2>3 DEF DeadWriters
<1>6. W \in SUBSET Slots /\ G \in SUBSET Slots /\ W \cap G = {}
  OBVIOUS
<1> QED
  <2> HIDE DEF W, G
  <2> QED
    BY <1>1, <1>4, <1>5, <1>6, LoopsLeave

LEMMA ProcessLeases ==
  ASSUME LeaseInv, NEW p \in Processes, Process(p)
  PROVE  [Lease!Next]_(Lease!leased)
<1> USE DEF LeaseInv, QueueInv, TypeOK
<1>1. \A j \in Expired : /\ lock[j] # None
                         /\ \/ Home[holder[j]] \in stalled
                            \/ j \notin InHand(holder[j]) \/ holder[j] \in DeadWriters
  BY FreeToEnd DEF Expired
<1>2. \A s \in Slots : slot' = slot => InHand(s)' = InHand(s)
  BY DEF InHand
<1>3. CASE Start(p)
  <2>1. slot' = slot /\ proc[p] = "new" /\ proc' = [proc EXCEPT ![p] = "up"] /\ UNCHANGED <<when, stalled>>
    BY <1>3 DEF Start
  <2>2. DeadWriters' = DeadWriters
    <3>1. \A s \in Slots : slot[s].pc = "settling" => Home[s] # p
      BY <2>1 DEF NewIsIdle
    <3>2. \A s \in Slots : Home[s] # p => Alive(Home[s])' = Alive(Home[s])
      BY <2>1 DEF Alive
    <3> QED
      BY <2>1, <3>1, <3>2 DEF DeadWriters
  <2>3. CASE Unlock(Expired)
    BY <1>1, <1>2, <2>1, <2>2, <2>3, LeasesEnd DEF Expired
  <2>4. CASE UNCHANGED <<lock, lease, holder>>
    BY <1>2, <2>1, <2>2, <2>4, SameLease, LeaseStutter
  <2> QED
    BY <1>3, <2>3, <2>4 DEF Start
<1>4. CASE Shutdown(p) \/ Drained(p)
  <2>1. slot' = slot /\ UNCHANGED <<when, lock, holder, stalled>>
    BY <1>4 DEF Shutdown, Drained, row
  <2>2. DeadWriters' = DeadWriters
    <3>1. CASE Shutdown(p)
      <4>1. \A q \in Processes : Alive(q)' <=> Alive(q)
        BY <3>1 DEF Shutdown, Alive
      <4> QED
        BY <2>1, <4>1, ConstantsAssumption DEF DeadWriters
    <3>2. CASE Drained(p)
      <4>1. \A s \in Slots : slot[s].pc = "settling" => Home[s] # p
        BY <3>2 DEF Drained
      <4>2. \A s \in Slots : Home[s] # p => Alive(Home[s])' = Alive(Home[s])
        BY <3>2 DEF Drained, Alive
      <4> QED
        BY <2>1, <4>1, <4>2 DEF DeadWriters
    <3> QED
      BY <1>4, <3>1, <3>2
  <2> QED
    BY <1>2, <2>1, <2>2, SameLease, LeaseStutter
<1>5. CASE DrainTimesOut(p) \/ Crash(p)
  BY <1>5, AbortLeases
<1>6. CASE Release(p)
  <2>1. slot' = slot /\ proc[p] = "releasing" /\ proc' = [proc EXCEPT ![p] = "down"] /\ UNCHANGED <<when, stalled>>
    BY <1>6 DEF Release
  <2>2. DeadWriters' = DeadWriters
    <3>1. \A s \in Slots : Alive(Home[s])' <=> Alive(Home[s])
      BY <2>1, ConstantsAssumption DEF Alive
    <3> QED
      BY <2>1, <3>1 DEF DeadWriters
  <2>3. CASE Unlock(HeldBy(p))
    <3>1. \A j \in HeldBy(p) :
            /\ lock[j] # None
            /\ \/ Home[holder[j]] \in stalled
               \/ j \notin InHand(holder[j]) \/ holder[j] \in DeadWriters
      BY <2>1, FreeToEnd, ConstantsAssumption DEF HeldBy, Alive
    <3> QED
      BY <1>2, <2>1, <2>2, <2>3, <3>1, LeasesEnd DEF HeldBy
  <2>4. CASE UNCHANGED <<lock, lease, holder>>
    BY <1>2, <2>1, <2>2, <2>4, SameLease, LeaseStutter
  <2> QED
    BY <1>6, <2>3, <2>4 DEF Release
<1>7. CASE Reap(p)
  <2>1. Unlock(Expired) /\ when' = when /\ UNCHANGED <<slot, proc, stalled>>
    BY <1>7 DEF Reap
  <2> QED
    BY <1>1, <2>1, SameHands, LeasesEnd DEF Expired
<1> QED
  BY <1>3, <1>4, <1>5, <1>6, <1>7 DEF Process

\* The job rows, the loops, the reaper and the drain implement JobLease, for any
\* rows, loops and processes, stalled or not: the handlers may rely on a row
\* that is theirs until they answer, whatever their process dies of, unless it stalled.
THEOREM QueueIsLeased == Spec => KeepsTheLease
<1>1. Init => Lease!Init
  BY DEF Init, Lease!Init, LeaseOf, InHand, Resting
<1>2. LeaseInv /\ [Next]_vars => [Lease!Next]_(Lease!leased)
  <2> SUFFICES ASSUME LeaseInv, [Next]_vars PROVE [Lease!Next]_(Lease!leased)
    OBVIOUS
  <2>1. CASE UNCHANGED vars
    BY <2>1, SameLease, SameHands, LeaseStutter DEF vars, row
  <2>2. CASE Next
    BY <2>2, RowLeases, LoopLeases, ProcessLeases DEF Next
  <2> QED
    BY <2>1, <2>2
<1> QED
  BY <1>1, <1>2, LeaseInductive, PTL DEF Spec, KeepsTheLease, Lease!Spec

=============================================================================
