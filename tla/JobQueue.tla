------------------------------ MODULE JobQueue ------------------------------
(***************************************************************************)
(* The jobs table of vpay-db and the worker processes that share it: what  *)
(* run_loop.rs does with a job row from its claim to the write that ends   *)
(* the lease, the reaper, the drain of a process that is told to stop, and *)
(* the death of one that is not.                                           *)
(*                                                                          *)
(* A process runs several claim loops (slots) under one worker_id, and a   *)
(* restarted process has a new one, so a process that was restarted is     *)
(* another element of Processes.  What a handler does is Payment's matter: *)
(* here it is a verdict.  The payload and the last_error of a row are left  *)
(* out.                                                                     *)
(***************************************************************************)
EXTENDS Naturals

CONSTANTS
  Jobs,       \* dedupe keys
  Processes,  \* worker processes, each started once
  Slots,      \* claim loops
  Home,       \* the process a slot runs in
  None,       \* no job, no process, no slot
  Stalls      \* may a handler outlast its lease?

ASSUME ConstantsAssumption ==
  /\ Home \in [Slots -> Processes]
  /\ None \notin Jobs \cup Processes \cup Slots
  /\ Slots \cap {"absent", "queued", "parked"} = {}
  /\ Stalls \in BOOLEAN

VARIABLES
  when,    \* run_at of the row: ahead of now(), due, infinity, or no row at all
  ahead,   \* the due rows whose run_at is earlier than the row's
  lock,    \* locked_by
  lease,   \* locked_at against the lease
  holder,  \* history: the slot of the claim that set locked_by
  slot,    \* the claim loops
  proc,    \* the worker processes
  stalled  \* history: the processes in which a handler outlasted its lease

row  == <<when, ahead, lock, lease, holder>>
vars == <<row, slot, proc, stalled>>

When     == {"none", "later", "due", "parked"}
Verdict  == {"finish", "retry", "park"}
SlotPC   == {"idle", "claiming", "working", "settling", "gone"}
ProcState == {"new", "up", "draining", "releasing", "down"}

\* `same` is the `id = $1` of a settling write: the row that was claimed exists.
SlotState == [pc: SlotPC, job: Jobs \cup {None}, will: Verdict, same: BOOLEAN]

TypeOK ==
  /\ when   \in [Jobs -> When]
  /\ ahead  \in [Jobs -> SUBSET {j \in Jobs : when[j] = "due"}]
  /\ lock   \in [Jobs -> Processes \cup {None}]
  /\ lease  \in [Jobs -> {"fresh", "expired"}]
  /\ holder \in [Jobs -> Slots \cup {None}]
  /\ slot   \in [Slots -> SlotState]
  /\ proc   \in [Processes -> ProcState]
  /\ stalled \subseteq Processes

Resting(pc) == [pc |-> pc, job |-> None, will |-> "finish", same |-> FALSE]

Init ==
  /\ when   = [j \in Jobs |-> "none"]
  /\ ahead  = [j \in Jobs |-> {}]
  /\ lock   = [j \in Jobs |-> None]
  /\ lease  = [j \in Jobs |-> "fresh"]
  /\ holder = [j \in Jobs |-> None]
  /\ slot   = [s \in Slots |-> Resting("idle")]
  /\ proc   = [p \in Processes |-> "new"]
  /\ stalled = {}

Alive(p) == proc[p] \in {"up", "draining"}

\* A slot whose handler is running, or whose answer is on its way to the row.
Busy(s) == slot[s].pc \in {"working", "settling"} /\ Alive(Home[s])

\* Where a slot is left once a statement of its has answered: its task may have
\* been aborted, or its process may have died, while the statement ran.
Rest(s) == Resting(IF Alive(Home[s]) THEN "idle" ELSE "gone")

-----------------------------------------------------------------------------
(* The row: who puts it there, and how its time comes.                      *)

\* ON CONFLICT (dedupe_key) DO NOTHING: a row that is there, whatever its state,
\* is left alone.
Enqueue(j) ==
  /\ when[j] = "none"
  /\ when' = [when EXCEPT ![j] = "later"]
  /\ UNCHANGED <<ahead, lock, lease, holder, slot, proc, stalled>>

\* The row becomes due behind those that are due already.
FallsDue(j) ==
  /\ when'  = [when EXCEPT ![j] = "due"]
  /\ ahead' = [ahead EXCEPT ![j] = {k \in Jobs \ {j} : when[k] = "due"}]
  /\ UNCHANGED <<lock, lease, holder, slot, proc, stalled>>

\* now() reaches run_at.
TimeComes(j) == when[j] = "later" /\ FallsDue(j)

\* A callback makes a waiting row due now, unless it is held or parked.
PullForward(j) == when[j] = "later" /\ lock[j] = None /\ FallsDue(j)

\* The rows of S lose their lease and keep their run_at.
Unlock(S) ==
  /\ lock'   = [j \in Jobs |-> IF j \in S THEN None ELSE lock[j]]
  /\ lease'  = [j \in Jobs |-> IF j \in S THEN "fresh" ELSE lease[j]]
  /\ holder' = [j \in Jobs |-> IF j \in S THEN None ELSE holder[j]]

-----------------------------------------------------------------------------
(* A claim loop.                                                            *)

\* The loop reads the shutdown flag, finds it down and sends the claim: the
\* flag may go up before the claim is executed.
Look(s) ==
  /\ slot[s].pc = "idle"
  /\ proc[Home[s]] = "up"
  /\ slot' = [slot EXCEPT ![s].pc = "claiming"]
  /\ UNCHANGED <<row, proc, stalled>>

\* Variant: a claim that takes any due row instead of the one due longest.
ClaimableAny(j) == when[j] = "due" /\ lock[j] = None

\* run_at <= now() AND locked_at IS NULL ORDER BY run_at LIMIT 1.
Claimable(j) ==
  /\ when[j] = "due"
  /\ lock[j] = None
  /\ \A k \in ahead[j] : lock[k] # None

Claim(s, j) ==
  /\ slot[s].pc = "claiming"
  /\ Claimable(j)
  /\ lock'   = [lock EXCEPT ![j] = Home[s]]
  /\ lease'  = [lease EXCEPT ![j] = "fresh"]
  /\ holder' = [holder EXCEPT ![j] = s]
  /\ slot'   = [slot EXCEPT ![s] = IF Alive(Home[s])
                                   THEN [pc |-> "working", job |-> j, will |-> "finish", same |-> TRUE]
                                   ELSE Resting("gone")]
  /\ UNCHANGED <<when, ahead, proc, stalled>>

\* The claim found nothing, or the database did not answer it.
ClaimNothing(s) ==
  /\ slot[s].pc = "claiming"
  /\ slot' = [slot EXCEPT ![s] = Rest(s)]
  /\ UNCHANGED <<row, proc, stalled>>

\* The handler returns.
Handled(s) ==
  /\ slot[s].pc = "working"
  /\ \E v \in Verdict : slot' = [slot EXCEPT ![s].pc = "settling", ![s].will = v]
  /\ UNCHANGED <<row, proc, stalled>>

\* Variant: WHERE id = $1 alone.
MatchesById(s) == slot[s].same

\* WHERE id = $1 AND locked_by = $2, of the three writes that settle a job.
Matches(s) == slot[s].same /\ lock[slot[s].job] = Home[s]

\* finish deletes the row, reschedule moves it, dead_letter parks it; each ends
\* the lease.  A slot still running a deleted row finds no row of that id.
SettleRow(s) ==
  LET j == slot[s].job
      v == slot[s].will
  IN  /\ Matches(s)
      /\ Unlock({j})
      /\ when'  = [when EXCEPT ![j] = CASE v = "finish" -> "none"
                                        [] v = "retry"  -> "later"
                                        [] v = "park"   -> "parked"]
      /\ ahead' = [k \in Jobs |-> IF k = j THEN {} ELSE ahead[k] \ {j}]
      /\ slot'  = [t \in Slots |->
                     IF t = s THEN Rest(s)
                     ELSE [slot[t] EXCEPT !.same = @ /\ ~(v = "finish" /\ slot[t].job = j)]]
      /\ UNCHANGED <<proc, stalled>>

\* The write matched no row, or the database did not answer it: in both cases
\* the loop goes on, and a row that was held stays held.
SettleNothing(s) ==
  /\ slot' = [slot EXCEPT ![s] = Rest(s)]
  /\ UNCHANGED <<row, proc, stalled>>

Settle(s) == slot[s].pc = "settling" /\ (SettleRow(s) \/ SettleNothing(s))

\* The loop reads the shutdown flag, finds it up and ends.
Leave(s) ==
  /\ slot[s].pc = "idle"
  /\ proc[Home[s]] = "draining"
  /\ slot' = [slot EXCEPT ![s] = Resting("gone")]
  /\ UNCHANGED <<row, proc, stalled>>

-----------------------------------------------------------------------------
(* Leases.                                                                  *)

\* Five minutes pass.  A handler that is still at work on the row has stalled.
WorksOn(s, j) == Busy(s) /\ slot[s].job = j /\ Matches(s)

LeaseExpires(j) ==
  /\ lock[j] # None
  /\ lease[j] = "fresh"
  /\ Stalls \/ \A s \in Slots : ~WorksOn(s, j)
  /\ lease' = [lease EXCEPT ![j] = "expired"]
  /\ stalled' = stalled \cup {Home[s] : s \in {t \in Slots : WorksOn(t, j)}}
  /\ UNCHANGED <<when, ahead, lock, holder, slot, proc>>

\* Variant: every lease is freed, whatever its age.
ExpiredEvery == {j \in Jobs : lock[j] # None}

Expired == {j \in Jobs : lock[j] # None /\ lease[j] = "expired"}

\* Variant: a process that frees its own leases only.
ReapOwn(p) ==
  /\ proc[p] \in {"up", "draining", "releasing"}
  /\ Unlock({j \in Expired : lock[j] = p})
  /\ UNCHANGED <<when, ahead, slot, proc, stalled>>

\* The reaper of any process that has not exited, every half lease; the hourly
\* sweep_expired job does the same.
Reap(p) ==
  /\ proc[p] \in {"up", "draining", "releasing"}
  /\ Unlock(Expired)
  /\ UNCHANGED <<when, ahead, slot, proc, stalled>>

-----------------------------------------------------------------------------
(* Processes.                                                               *)

\* recover_and_seed frees the expired leases, if the database answers, and the
\* claim loops start.  The jobs it seeds are Enqueue's.
Start(p) ==
  /\ proc[p] = "new"
  /\ proc' = [proc EXCEPT ![p] = "up"]
  /\ Unlock(Expired) \/ UNCHANGED <<lock, lease, holder>>
  /\ UNCHANGED <<when, ahead, slot, stalled>>

\* The deployment keeps a worker: the last process is not stopped.
Spared(p) == \E q \in Processes \ {p} : proc[q] \in {"new", "up"}

Shutdown(p) ==
  /\ proc[p] = "up"
  /\ Spared(p)
  /\ proc' = [proc EXCEPT ![p] = "draining"]
  /\ UNCHANGED <<row, slot, stalled>>

Drained(p) ==
  /\ proc[p] = "draining"
  /\ \A s \in Slots : Home[s] = p => slot[s].pc = "gone"
  /\ proc' = [proc EXCEPT ![p] = "down"]
  /\ UNCHANGED <<row, slot, stalled>>

\* The handlers of p end where they stand.  A statement that is already with the
\* database may still be executed.
Aborted(p) ==
  [s \in Slots |-> IF Home[s] = p /\ slot[s].pc \in {"idle", "working"}
                   THEN Resting("gone") ELSE slot[s]]

\* The grace period is over: the tasks are aborted, and release_all comes next.
DrainTimesOut(p) ==
  /\ proc[p] = "draining"
  /\ \E s \in Slots : Home[s] = p /\ slot[s].pc # "gone"
  /\ proc' = [proc EXCEPT ![p] = "releasing"]
  /\ slot' = Aborted(p)
  /\ UNCHANGED <<row, stalled>>

HeldBy(p) == {j \in Jobs : lock[j] = p}

\* Variant: release_all without its WHERE.
ReleaseAllLeases(p) ==
  /\ proc[p] = "releasing"
  /\ Unlock(ExpiredEvery)
  /\ proc' = [proc EXCEPT ![p] = "down"]
  /\ UNCHANGED <<when, ahead, slot, stalled>>

\* release_all, or the error that leaves the leases to a reaper.
Release(p) ==
  /\ proc[p] = "releasing"
  /\ Unlock(HeldBy(p)) \/ UNCHANGED <<lock, lease, holder>>
  /\ proc' = [proc EXCEPT ![p] = "down"]
  /\ UNCHANGED <<when, ahead, slot, stalled>>

Crash(p) ==
  /\ proc[p] \in {"up", "draining", "releasing"}
  /\ Spared(p)
  /\ proc' = [proc EXCEPT ![p] = "down"]
  /\ slot' = Aborted(p)
  /\ UNCHANGED <<row, stalled>>

-----------------------------------------------------------------------------

Row(j)     == Enqueue(j) \/ TimeComes(j) \/ PullForward(j) \/ LeaseExpires(j)
Loop(s)    == \/ Look(s) \/ ClaimNothing(s) \/ Handled(s) \/ Settle(s) \/ Leave(s)
              \/ \E j \in Jobs : Claim(s, j)
Process(p) == \/ Start(p) \/ Shutdown(p) \/ Drained(p) \/ DrainTimesOut(p)
              \/ Release(p) \/ Crash(p) \/ Reap(p)

Next ==
  \/ \E j \in Jobs : Row(j)
  \/ \E s \in Slots : Loop(s)
  \/ \E p \in Processes : Process(p)

Spec == Init /\ [][Next]_vars

\* Time passes, every loop runs on, every handler returns, every process starts
\* and reaps.  Strong fairness of the claim and of the settling write: the
\* database does not fail each of them for ever.
Fairness ==
  /\ \A j \in Jobs : WF_vars(TimeComes(j)) /\ WF_vars(LeaseExpires(j))
  /\ \A s \in Slots :
       /\ WF_vars(Look(s)) /\ WF_vars(Handled(s)) /\ WF_vars(Settle(s))
       /\ SF_vars(\E j \in Jobs : Claim(s, j)) /\ SF_vars(slot[s].pc = "settling" /\ SettleRow(s))
  /\ \A p \in Processes : WF_vars(Start(p)) /\ WF_vars(Reap(p))

FairSpec == Spec /\ Fairness

-----------------------------------------------------------------------------
(* Properties.                                                              *)

\* Only a due row is held, so a lease that ends leaves its row claimable; and the
\* lease is its last claimer's.
HeldRowsAreDue ==
  \A j \in Jobs :
    lock[j] # None => /\ when[j] = "due"
                      /\ holder[j] # None /\ Home[holder[j]] = lock[j]

\* In a process where no handler outlasted its lease, whoever works a job holds it
\* and is alone with it: neither the drain of another process, nor the death of
\* one, nor a reaper, nor a claim in flight across any of them, nor the late
\* answer of a stalled process, gives it to a second loop.
OnTime(s) == Busy(s) /\ Home[s] \notin stalled

WorkersHoldTheirLease ==
  \A s \in Slots :
    OnTime(s) => /\ Matches(s)
                 /\ \A t \in Slots \ {s} : OnTime(t) => slot[t].job # slot[s].job

\* A write that matches the row comes from the loop of the last claim, when that
\* loop is the only one of its process: an answer that outlived its lease then
\* changes nothing (finish, reschedule and dead_letter, WHERE locked_by).
Alone(s) == \A t \in Slots : Home[t] = Home[s] => t = s

FenceIsTheHolder ==
  \A s \in Slots :
    Alone(s) /\ slot[s].pc = "settling" /\ Matches(s) => holder[slot[s].job] = s

\* A dead letter stays one: neither a callback, nor a re-enqueue, nor a late
\* answer of a loop whose lease was reaped brings it back.
ParkedStaysParked ==
  [][\A j \in Jobs : when[j] = "parked" => when'[j] = "parked"]_vars

\* A due row that no live process holds is claimed by one: a row whose holder died is
\* reaped, unless the holder's last write, still with the database, ends or moves it,
\* and the rows are claimed in their turn (ORDER BY run_at), unless a handler outlasts
\* its lease: its row is then claimed first again.
HeldAlive(j) == lock[j] # None /\ Alive(lock[j])

DueIsClaimed ==
  \A j \in Jobs : (when[j] = "due" /\ ~HeldAlive(j))
                    ~> HeldAlive(j) \/ when[j] # "due" \/ stalled # {}

-----------------------------------------------------------------------------
(* JobQueue implements JobLease, to which the modules of the handlers keep.   *)
(* A row under a lease is the last claimer's.                                 *)

LeaseOf(j) ==
  IF lock[j] # None
  THEN holder[j]
  ELSE CASE when[j] = "none"   -> "absent"
         [] when[j] = "parked" -> "parked"
         [] OTHER -> "queued"

InHand(s) == IF slot[s].pc \in {"working", "settling"} THEN {slot[s].job} ELSE {}

Lease == INSTANCE JobLease WITH
  Loops <- Slots,
  job   <- [j \in Jobs |-> LeaseOf(j)],
  at    <- [s \in Slots |-> InHand(s)],
  gone  <- {s \in Slots : slot[s].pc = "settling" /\ ~Alive(Home[s])}

\* Every step of the rows, the loops, the reaper and the drain is one step of the
\* lease or none: whatever a process dies of, a row leaves the loop at work on it by
\* that loop's answer, or because that loop's process has stalled (run_loop.rs and
\* jobs.rs as a whole).
KeepsTheLease == Lease!Spec
=============================================================================
