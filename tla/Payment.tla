------------------------------ MODULE Payment ------------------------------
(***************************************************************************)
(* The life of a payment intent and of the one charge it may open: the     *)
(* confirm and cancel requests of vpay-api, the poll, resubmit and scan     *)
(* jobs of vpay-worker, the rows of vpay-db they share, and the rail.       *)
(*                                                                          *)
(* Every action is one database statement or transaction, or one call to    *)
(* the rail: the points at which another actor can interleave and at which  *)
(* a process can die.  A request or a runner that is between two of them    *)
(* is described by a `pc` and by what it read.                              *)
(*                                                                          *)
(* The checkout session and invoice rows that a settlement flips in the     *)
(* same transaction are left out; the leases and the delays of the job rows *)
(* are those of JobQueue.tla.                                               *)
(***************************************************************************)
EXTENDS Naturals

CONSTANTS
  Intents,        \* payment intents
  Requests,       \* confirm requests, each served once
  Runners,        \* claim loops, each in a worker process of its own
  None,           \* no intent, no request, no runner
  Flows,          \* the kinds of rail in use: push, two_step, redirect
  NotFoundStreak, \* denials in a row before a lost submit is resubmitted
  MaxCrashes,     \* bound on the processes that die in a behaviour
  Stalls,         \* may a live process outlast the recovery window or its lease?
  Misconfigured   \* may an adapter refuse to run for want of configuration?

ASSUME ConstantsAssumption ==
  /\ None \notin Intents \cup Requests \cup Runners
  /\ Requests \cap Runners = {}
  /\ {"absent", "queued", "parked"} \cap Runners = {}
  /\ Flows \subseteq {"push", "two_step", "redirect"}
  /\ NotFoundStreak \in Nat \ {0}
  /\ MaxCrashes \in Nat
  /\ Stalls \in BOOLEAN
  /\ Misconfigured \in BOOLEAN

VARIABLES
  flow,      \* the rail each intent resolves to, which nothing changes
  intent,    \* payment_intents.status
  charge,    \* charges.state, "none" before the confirm opens it
  url,       \* charges.redirect_url has been committed
  prepared,  \* charges.provider_ref_extra has been committed
  attempt,   \* the latest `submit` row of provider_requests
  age,       \* now() - charges.created_at, against the two thresholds
  job,       \* the charge's poll_charge and resubmit_charge job rows
  payload,   \* the not-found streak in the poll job's payload
  rail,      \* what the rail holds under the charge's reference
  sent,      \* events rows written for the intent, by type
  posted,    \* ledger captures posted for the charge
  cancel,    \* a cancel request's statement has taken its snapshot
  req,       \* confirm requests
  run,       \* runners
  crashes    \* processes that have died

rows == <<intent, charge, url, prepared, attempt, sent, posted>>
vars == <<rows, age, job, payload, rail, cancel, req, run, crashes, flow>>

-----------------------------------------------------------------------------
(* The two state machines and the settlement table of vpay-core.            *)

IntentStatus == {"requires_payment_method", "requires_action", "processing",
                 "succeeded", "canceled"}
Live         == {"submitting", "submitted", "pending", "unresolved"}
Terminal     == {"succeeded", "failed"}
ChargeState  == {"none"} \cup Live \cup Terminal
Event        == {"succeeded", "payment_failed", "canceled"}
Kind         == {"poll", "resubmit"}

StatusAfterConfirm(i) ==
  IF flow[i] = "redirect" THEN "requires_action" ELSE "processing"

\* Variant: a settle table without the status a resubmitted payment is still in.
SettleableMovedOnly == {"processing", "requires_action"}

\* The statuses a settlement may leave: every one but the two final ones.
Settleable == {"processing", "requires_action", "requires_payment_method"}

NoAttempt == [by |-> None, answered |-> FALSE]

\* What recovery_step may decide for a `submitting` charge of age `old` after
\* `n` denials.  The streak's own age is left open: a streak that is long enough
\* may or may not be old enough.
StepsOnEvidence(i, n) ==
  CASE flow[i] = "redirect"    -> {"fail_dead_order"}
    [] flow[i] # "redirect" /\ attempt[i] = NoAttempt -> {"resubmit"}
    [] flow[i] # "redirect" /\ attempt[i].answered    -> {"advance"}
    [] OTHER -> {"poll"} \cup (IF n >= NotFoundStreak THEN {"resubmit"} ELSE {})

\* Variant: recovery that does not wait for the confirm to be over.
RecoveryStepsNoWindow(i, old, n) == StepsOnEvidence(i, n)

RecoverySteps(i, old, n) == IF old = "young" THEN {"wait"} ELSE StepsOnEvidence(i, n)

-----------------------------------------------------------------------------
(* Types.                                                                   *)

JobState == {"absent", "queued", "parked"} \cup Runners
Answer   == {"none", "ok", "rejected", "pending", "succeeded", "failed",
             "not_found", "transport", "reconcile", "refused", "config"}

\* The steps of a confirm between which the rail may hold its call.
InRailWindow == {"prepare", "prepared", "attempt", "submit", "answered", "persist",
                 "decline", "note"}
RequestPC    == {"idle", "loaded", "ok", "declined", "error"} \cup InRailWindow
RunnerPC     == {"idle", "load", "evidence", "schedule", "advance", "query", "act",
                 "reset", "deny", "fail_dead", "escalate", "prepare", "prepared", "refused",
                 "open", "submit", "answered", "commit", "note",
                 "requeue", "finish", "park"}

Attempt      == [by: Requests \cup Runners \cup {None}, answered: BOOLEAN]
RequestState == [pc: RequestPC, i: Intents \cup {None}]
RunnerState  == [pc: RunnerPC, i: Intents \cup {None}, kind: Kind, seen: ChargeState,
                 old: {"young", "mature", "late"}, n: 0..NotFoundStreak, ans: Answer]

TypeOK ==
  /\ intent   \in [Intents -> IntentStatus]
  /\ charge   \in [Intents -> ChargeState]
  /\ url      \in [Intents -> BOOLEAN]
  /\ prepared \in [Intents -> BOOLEAN]
  /\ attempt  \in [Intents -> Attempt]
  /\ age      \in [Intents -> {"young", "mature", "late"}]
  /\ job      \in [Intents -> [Kind -> JobState]]
  /\ payload  \in [Intents -> 0..NotFoundStreak]
  /\ rail     \in [Intents -> {"none", "open", "paid", "declined"}]
  /\ sent     \in [Intents -> [Event -> Nat]]
  /\ posted   \in [Intents -> Nat]
  /\ cancel   \in [Intents -> BOOLEAN]
  /\ req      \in [Requests -> RequestState]
  /\ run      \in [Runners -> RunnerState]
  /\ crashes  \in 0..MaxCrashes

IdleRequest == [pc |-> "idle", i |-> None]
IdleRunner  == [pc |-> "idle", i |-> None, kind |-> "poll", seen |-> "none",
                old |-> "young", n |-> 0, ans |-> "none"]

Init ==
  /\ flow \in [Intents -> Flows]
  /\ intent   = [i \in Intents |-> "requires_payment_method"]
  /\ charge   = [i \in Intents |-> "none"]
  /\ url      = [i \in Intents |-> FALSE]
  /\ prepared = [i \in Intents |-> FALSE]
  /\ attempt  = [i \in Intents |-> NoAttempt]
  /\ age      = [i \in Intents |-> "young"]
  /\ job      = [i \in Intents |-> [k \in Kind |-> "absent"]]
  /\ payload  = [i \in Intents |-> 0]
  /\ rail     = [i \in Intents |-> "none"]
  /\ sent     = [i \in Intents |-> [e \in Event |-> 0]]
  /\ posted   = [i \in Intents |-> 0]
  /\ cancel   = [i \in Intents |-> FALSE]
  /\ req      = [r \in Requests |-> IdleRequest]
  /\ run      = [w \in Runners |-> IdleRunner]
  /\ crashes  = 0

-----------------------------------------------------------------------------
(* What several actions share.                                              *)

Emit(i, e) == sent' = [sent EXCEPT ![i][e] = @ + 1]

\* record_response on the submit row its writer opened: it changes the charge's
\* evidence only while that row is still the latest.
RecordAnswered(i, p) ==
  attempt' = IF attempt[i].by = p THEN [attempt EXCEPT ![i].answered = TRUE] ELSE attempt

\* adapter.submit under the charge's one reference.  A rail that already holds the
\* reference answers as it did the first time; an answer may be lost either way.
RailTakes(i, a) ==
  \/ /\ a \in {"ok", "transport", "reconcile"}
     /\ rail' = [rail EXCEPT ![i] = IF @ = "none" THEN "open" ELSE @]
  \/ /\ a \in {"transport", "reconcile"} \cup (IF rail[i] = "none" THEN {"rejected"} ELSE {})
                                         \cup (IF Misconfigured THEN {"config"} ELSE {})
     /\ UNCHANGED rail

\* What adapter.query_status may say; a rail may be slow to index an open order.
RailSays(i) ==
  CASE rail[i] = "none"     -> {"not_found"}
    [] rail[i] = "open"     -> {"pending", "not_found"}
    [] rail[i] = "paid"     -> {"succeeded"}
    [] rail[i] = "declined" -> {"failed"}

-----------------------------------------------------------------------------
(* POST /v1/payment_intents/{id}/confirm                                    *)

AtReq(r, i, pc) == req[r].pc = pc /\ req[r].i = i
GoReq(r, pc)    == req' = [req EXCEPT ![r].pc = pc]

\* The reads at the head of confirm_once: the status and the absence of a charge.
LoadConfirmable(r, i) ==
  /\ req[r].pc = "idle"
  /\ intent[i] = "requires_payment_method"
  /\ charge[i] = "none"
  /\ req' = [req EXCEPT ![r] = [pc |-> "loaded", i |-> i]]
  /\ UNCHANGED <<rows, age, job, payload, rail, cancel, run, crashes>>

\* One transaction: the charge and its poll job.  The unique index on the intent
\* is the only guard; the intent's status is not read again.
OpenCharge(r, i) ==
  /\ AtReq(r, i, "loaded")
  /\ \/ /\ charge[i] = "none"
        /\ charge' = [charge EXCEPT ![i] = "submitting"]
        /\ job' = [job EXCEPT ![i]["poll"] = "queued"]
        /\ GoReq(r, IF flow[i] = "two_step" THEN "prepare" ELSE "attempt")
     \/ /\ charge[i] # "none"
        /\ GoReq(r, "error")
        /\ UNCHANGED <<charge, job>>
  /\ UNCHANGED <<intent, url, prepared, attempt, sent, posted,
                 age, payload, rail, cancel, run, crashes>>

\* A two-step rail's first call: a reference, a refusal, or no answer.
PrepareOnRail(r, i) ==
  /\ AtReq(r, i, "prepare")
  /\ \E pc \in {"prepared", "decline", "error"} : GoReq(r, pc)
  /\ UNCHANGED <<rows, age, job, payload, rail, cancel, run, crashes>>

\* record_prepared: the reference is committed to a charge that is still `submitting`.
RecordPrepared(r, i) ==
  /\ AtReq(r, i, "prepared")
  /\ \/ /\ charge[i] = "submitting"
        /\ prepared' = [prepared EXCEPT ![i] = TRUE]
        /\ GoReq(r, "attempt")
     \/ /\ charge[i] # "submitting"
        /\ GoReq(r, "error")
        /\ UNCHANGED prepared
  /\ UNCHANGED <<intent, charge, url, attempt, sent, posted,
                 age, job, payload, rail, cancel, run, crashes>>

\* Variant: the attempt is written down only once the rail has answered.
OpenAttemptLate(r, i) ==
  /\ AtReq(r, i, "attempt")
  /\ GoReq(r, "submit")
  /\ UNCHANGED <<rows, age, job, payload, rail, cancel, run, crashes>>

\* The attempt row is committed before the rail is called.
OpenAttempt(r, i) ==
  /\ AtReq(r, i, "attempt")
  /\ attempt' = [attempt EXCEPT ![i] = [by |-> r, answered |-> FALSE]]
  /\ GoReq(r, "submit")
  /\ UNCHANGED <<intent, charge, url, prepared, sent, posted,
                 age, job, payload, rail, cancel, run, crashes>>

SubmitToRail(r, i) ==
  /\ AtReq(r, i, "submit")
  /\ \E a \in Answer :
       /\ RailTakes(i, a)
       /\ GoReq(r, CASE a = "ok"       -> "answered"
                     [] a = "rejected" -> "decline"
                     [] OTHER          -> "error")
  /\ UNCHANGED <<rows, age, job, payload, cancel, run, crashes>>

RecordSubmitAnswer(r, i) ==
  /\ AtReq(r, i, "answered")
  /\ RecordAnswered(i, r)
  /\ GoReq(r, "persist")
  /\ UNCHANGED <<intent, charge, url, prepared, sent, posted,
                 age, job, payload, rail, cancel, run, crashes>>

\* One transaction: the charge leaves `submitting` and the intent follows, or the
\* whole of it is abandoned and the merchant is answered 500.
PersistSubmitted(r, i) ==
  /\ AtReq(r, i, "persist")
  /\ \/ /\ charge[i] = "submitting"
        /\ intent[i] = "requires_payment_method"
        /\ charge'   = [charge EXCEPT ![i] = "submitted"]
        /\ url'      = [url EXCEPT ![i] = (flow[i] = "redirect")]
        /\ prepared' = [prepared EXCEPT ![i] = TRUE]
        /\ intent'   = [intent EXCEPT ![i] = StatusAfterConfirm(i)]
        /\ GoReq(r, "ok")
     \/ /\ charge[i] # "submitting" \/ intent[i] # "requires_payment_method"
        /\ GoReq(r, "error")
        /\ UNCHANGED <<charge, url, prepared, intent>>
  /\ UNCHANGED <<attempt, sent, posted, age, job, payload, rail, cancel, run, crashes>>

\* Variant: a decline told to the merchant wherever the intent is.
PersistDeclineAlwaysTold(r, i) ==
  /\ AtReq(r, i, "decline")
  /\ charge[i] = "submitting"
  /\ charge' = [charge EXCEPT ![i] = "failed"]
  /\ Emit(i, "payment_failed")
  /\ GoReq(r, "note")
  /\ UNCHANGED <<intent, url, prepared, attempt, posted,
                 age, job, payload, rail, cancel, run, crashes>>

\* One transaction: the charge fails; the error and its event reach the merchant
\* only if the intent is still where the confirm found it.
PersistDecline(r, i) ==
  /\ AtReq(r, i, "decline")
  /\ \/ /\ charge[i] = "submitting"
        /\ charge' = [charge EXCEPT ![i] = "failed"]
        /\ IF intent[i] = "requires_payment_method"
             THEN Emit(i, "payment_failed")
             ELSE UNCHANGED sent
        /\ GoReq(r, "note")
     \/ /\ charge[i] # "submitting"
        /\ GoReq(r, "error")
        /\ UNCHANGED <<charge, sent>>
  /\ UNCHANGED <<intent, url, prepared, attempt, posted,
                 age, job, payload, rail, cancel, run, crashes>>

NoteDecline(r, i) ==
  /\ AtReq(r, i, "note")
  /\ RecordAnswered(i, r)
  /\ GoReq(r, "declined")
  /\ UNCHANGED <<intent, charge, url, prepared, sent, posted,
                 age, job, payload, rail, cancel, run, crashes>>

\* The process serving the request dies; the request is not served again.
CrashRequest(r) ==
  /\ req[r].pc \in {"loaded"} \cup InRailWindow
  /\ crashes < MaxCrashes
  /\ crashes' = crashes + 1
  /\ GoReq(r, "error")
  /\ UNCHANGED <<rows, age, job, payload, rail, cancel, run>>

Confirm(r, i) ==
  \/ LoadConfirmable(r, i)    \/ OpenCharge(r, i)       \/ PrepareOnRail(r, i)
  \/ RecordPrepared(r, i)     \/ OpenAttempt(r, i)      \/ SubmitToRail(r, i)
  \/ RecordSubmitAnswer(r, i) \/ PersistSubmitted(r, i) \/ PersistDecline(r, i)
  \/ NoteDecline(r, i)

-----------------------------------------------------------------------------
(* POST /v1/payment_intents/{id}/cancel: one UPDATE whose NOT EXISTS over    *)
(* charges is answered by the statement's snapshot, and whose status guard   *)
(* is evaluated again on the row it finally locks.                          *)

CancelSnapshot(i) ==
  /\ ~cancel[i]
  /\ intent[i] = "requires_payment_method"
  /\ charge[i] \notin Live
  /\ cancel' = [cancel EXCEPT ![i] = TRUE]
  /\ UNCHANGED <<rows, age, job, payload, rail, req, run, crashes>>

CancelCommit(i) ==
  /\ cancel[i]
  /\ cancel' = [cancel EXCEPT ![i] = FALSE]
  /\ \/ /\ intent[i] = "requires_payment_method"
        /\ intent' = [intent EXCEPT ![i] = "canceled"]
        /\ Emit(i, "canceled")
     \/ /\ intent[i] # "requires_payment_method"
        /\ UNCHANGED <<intent, sent>>
  /\ UNCHANGED <<charge, url, prepared, attempt, posted,
                 age, job, payload, rail, req, run, crashes>>

-----------------------------------------------------------------------------
(* The job loop around every handler: claim, then settle the row, each write *)
(* to the row fenced by its holder.                                          *)

At(w, i, k, pc) == run[w].pc = pc /\ run[w].i = i /\ run[w].kind = k
Go(w, pc)       == run' = [run EXCEPT ![w].pc = pc]
See(w, pc, c)   == run' = [run EXCEPT ![w].pc = pc, ![w].seen = c]
Look(w, pc, c, o) ==
  run' = [run EXCEPT ![w].pc = pc, ![w].seen = c, ![w].old = o]
Hear(w, pc, a)  == run' = [run EXCEPT ![w].pc = pc, ![w].ans = a]

Claim(w, i, k) ==
  /\ run[w].pc = "idle"
  /\ job[i][k] = "queued"
  /\ job' = [job EXCEPT ![i][k] = w]
  /\ run' = [run EXCEPT ![w] = [IdleRunner EXCEPT !.pc = "load", !.i = i, !.kind = k,
                                                  !.n = payload[i]]]
  /\ UNCHANGED <<rows, age, payload, rail, cancel, req, crashes>>

\* finish, reschedule or dead_letter: no effect on a row someone else now holds.
SettleJob(w, i, k) ==
  /\ run[w].pc \in {"finish", "requeue", "park"}
  /\ run[w].i = i /\ run[w].kind = k
  /\ job' = IF job[i][k] = w
              THEN [job EXCEPT ![i][k] = CASE run[w].pc = "finish"  -> "absent"
                                           [] run[w].pc = "requeue" -> "queued"
                                           [] run[w].pc = "park"    -> "parked"]
              ELSE job
  /\ run' = [run EXCEPT ![w] = IdleRunner]
  /\ UNCHANGED <<rows, age, payload, rail, cancel, req, crashes>>

\* The reaper frees a lease whose holder died, or has outlasted it.
ReapLease(i, k) ==
  /\ job[i][k] \in Runners
  /\ Stalls \/ ~(run[job[i][k]].i = i /\ run[job[i][k]].kind = k)
  /\ job' = [job EXCEPT ![i][k] = "queued"]
  /\ UNCHANGED <<rows, age, payload, rail, cancel, req, run, crashes>>

CrashRunner(w) ==
  /\ run[w].pc # "idle"
  /\ crashes < MaxCrashes
  /\ crashes' = crashes + 1
  /\ run' = [run EXCEPT ![w] = IdleRunner]
  /\ UNCHANGED <<rows, age, job, payload, rail, cancel, req>>

-----------------------------------------------------------------------------
(* What the poll_charge and resubmit_charge handlers share.                  *)

KeepPollingQuietly(w) == "requeue"

\* keep_polling: past the horizon the charge is escalated as well.
KeepPolling(w) == IF run[w].old = "late" THEN "escalate" ELSE "requeue"

\* set_payload, fenced like every write to the job row.
Remember(w, i, n) ==
  payload' = IF job[i]["poll"] = w THEN [payload EXCEPT ![i] = n] ELSE payload

Denials(w) == IF run[w].n < NotFoundStreak THEN run[w].n + 1 ELSE NotFoundStreak

\* Variant: no compare-and-swap.
SetLiveStateBlind(i, from, to) == charge' = [charge EXCEPT ![i] = to]

\* set_live_state: a compare-and-swap whose loss is not an error.
SetLiveState(i, from, to) ==
  charge' = IF charge[i] = from THEN [charge EXCEPT ![i] = to] ELSE charge

\* settle_succeeded: the charge, the intent, the ledger and the event, or nothing.
\* A charge settled by someone else is left alone; an intent that no longer admits
\* the answer rolls everything back and dead-letters the job.
SettleSucceeded(w, i) ==
  \/ /\ charge[i] \in Live
     /\ intent[i] \in Settleable
     /\ charge' = [charge EXCEPT ![i] = "succeeded"]
     /\ intent' = [intent EXCEPT ![i] = "succeeded"]
     /\ posted' = [posted EXCEPT ![i] = @ + 1]
     /\ Emit(i, "succeeded")
     /\ Go(w, "finish")
  \/ /\ charge[i] \in Live
     /\ intent[i] \notin Settleable
     /\ Go(w, "park")
     /\ UNCHANGED <<charge, intent, posted, sent>>
  \/ /\ charge[i] \notin Live
     /\ Go(w, "finish")
     /\ UNCHANGED <<charge, intent, posted, sent>>

\* settle_failed_with, on the same terms; `pc` is what follows a settlement.
SettleFailed(w, i, pc) ==
  \/ /\ charge[i] \in Live
     /\ intent[i] \in Settleable
     /\ charge' = [charge EXCEPT ![i] = "failed"]
     /\ intent' = [intent EXCEPT ![i] = "requires_payment_method"]
     /\ Emit(i, "payment_failed")
     /\ Go(w, pc)
  \/ /\ charge[i] \in Live
     /\ intent[i] \notin Settleable
     /\ Go(w, "park")
     /\ UNCHANGED <<charge, intent, sent>>
  \/ /\ charge[i] \notin Live
     /\ Go(w, pc)
     /\ UNCHANGED <<charge, intent, sent>>

\* escalate_to_unresolved: Exhausted, hence an hourly retry.
Escalate(w, i, k) ==
  /\ At(w, i, k, "escalate")
  /\ SetLiveState(i, run[w].seen, "unresolved")
  /\ Go(w, "requeue")
  /\ UNCHANGED <<intent, url, prepared, attempt, sent, posted,
                 age, job, payload, rail, cancel, req, crashes>>

-----------------------------------------------------------------------------
(* poll_charge                                                              *)

PollLoad(w, i) ==
  /\ At(w, i, "poll", "load")
  /\ Look(w, CASE charge[i] \in Terminal    -> "finish"
               [] charge[i] = "submitting" -> "evidence"
               [] OTHER                    -> "query", charge[i], age[i])
  /\ UNCHANGED <<rows, age, job, payload, rail, cancel, req, crashes>>

\* What follows each decision of recovery_step.
AfterStep == [wait |-> "requeue", fail_dead_order |-> "fail_dead", resubmit |-> "schedule",
              advance |-> "advance", poll |-> "query"]

\* recovery_action: the submit evidence is read, and acted upon later.
PollRecover(w, i) ==
  /\ At(w, i, "poll", "evidence")
  /\ \E step \in RecoverySteps(i, run[w].old, run[w].n) : Go(w, AfterStep[step])
  /\ UNCHANGED <<rows, age, job, payload, rail, cancel, req, crashes>>

\* act_on_recovery for a submit that was answered and never recorded.
AdvanceAnswered(w, i) ==
  /\ At(w, i, "poll", "advance")
  /\ SetLiveState(i, "submitting", "submitted")
  /\ See(w, "query", IF charge[i] = "submitting" THEN "submitted" ELSE run[w].seen)
  /\ UNCHANGED <<intent, url, prepared, attempt, sent, posted,
                 age, job, payload, rail, cancel, req, crashes>>

\* schedule_resubmit: the dedupe key makes a second enqueue a no-op.
ScheduleResubmit(w, i) ==
  /\ At(w, i, "poll", "schedule")
  /\ job' = IF job[i]["resubmit"] = "absent"
              THEN [job EXCEPT ![i]["resubmit"] = "queued"] ELSE job
  /\ Go(w, "reset")
  /\ UNCHANGED <<rows, age, payload, rail, cancel, req, crashes>>

\* A resubmission, or an answer other than a denial, ends the streak.
ResetStreak(w, i) ==
  /\ At(w, i, "poll", "reset")
  /\ Remember(w, i, 0)
  /\ Go(w, KeepPolling(w))
  /\ UNCHANGED <<rows, age, job, rail, cancel, req, crashes>>

\* One denial more.
RememberDenial(w, i) ==
  /\ At(w, i, "poll", "deny")
  /\ Remember(w, i, Denials(w))
  /\ Go(w, KeepPolling(w))
  /\ UNCHANGED <<rows, age, job, rail, cancel, req, crashes>>

FailDeadOrder(w, i) ==
  /\ At(w, i, "poll", "fail_dead")
  /\ SettleFailed(w, i, "finish")
  /\ UNCHANGED <<url, prepared, attempt, posted, age, job, payload, rail, cancel, req, crashes>>

QueryRail(w, i) ==
  /\ At(w, i, "poll", "query")
  /\ \E a \in RailSays(i) : Hear(w, "act", a)
  /\ UNCHANGED <<rows, age, job, payload, rail, cancel, req, crashes>>

\* The rail did not answer: read against the horizon and the error's class.
QueryFails(w, i) ==
  /\ At(w, i, "poll", "query")
  /\ \E a \in {"transport", "reconcile", "refused"} \cup
              (IF Misconfigured THEN {"config"} ELSE {}) :
       Hear(w, CASE a = "reconcile" \/ run[w].old = "late" -> "escalate"
                 [] a = "transport" /\ run[w].old # "late"  -> "requeue"
                 [] a = "refused" /\ run[w].old # "late"    -> "finish"
                 [] a = "config" /\ run[w].old # "late"     -> "park", a)
  /\ UNCHANGED <<rows, age, job, payload, rail, cancel, req, crashes>>

ActSucceeded(w, i) ==
  /\ At(w, i, "poll", "act") /\ run[w].ans = "succeeded"
  /\ SettleSucceeded(w, i)
  /\ UNCHANGED <<url, prepared, attempt, age, job, payload, rail, cancel, req, crashes>>

ActFailed(w, i) ==
  /\ At(w, i, "poll", "act") /\ run[w].ans = "failed"
  /\ SettleFailed(w, i, "finish")
  /\ UNCHANGED <<url, prepared, attempt, posted, age, job, payload, rail, cancel, req, crashes>>

\* Live(pending) from submitting or submitted, Stay otherwise; the handler goes on
\* with the state it asked for, whether or not the compare-and-swap was won.
ActPending(w, i) ==
  /\ At(w, i, "poll", "act") /\ run[w].ans = "pending"
  /\ IF run[w].seen \in {"submitting", "submitted"}
       THEN SetLiveState(i, run[w].seen, "pending") /\ See(w, "reset", "pending")
       ELSE Go(w, "reset") /\ UNCHANGED charge
  /\ UNCHANGED <<intent, url, prepared, attempt, sent, posted,
                 age, job, payload, rail, cancel, req, crashes>>

\* recover: the evidence is read again for a `submitting` charge; one more denial is
\* remembered for any other, and when the evidence asks for nothing but polling.
ActNotFound(w, i) ==
  /\ At(w, i, "poll", "act") /\ run[w].ans = "not_found"
  /\ IF run[w].seen = "submitting"
       THEN \E step \in RecoverySteps(i, run[w].old, Denials(w)) :
              Go(w, IF step \in {"resubmit", "fail_dead_order"} THEN AfterStep[step] ELSE "deny")
       ELSE Go(w, "deny")
  /\ UNCHANGED <<rows, age, job, payload, rail, cancel, req, crashes>>

Poll(w, i) ==
  \/ PollLoad(w, i)      \/ PollRecover(w, i)      \/ AdvanceAnswered(w, i)
  \/ QueryRail(w, i)     \/ QueryFails(w, i)       \/ ScheduleResubmit(w, i)
  \/ ActSucceeded(w, i)  \/ ActFailed(w, i)        \/ ActPending(w, i)
  \/ ActNotFound(w, i)   \/ ResetStreak(w, i)      \/ RememberDenial(w, i)
  \/ FailDeadOrder(w, i) \/ Escalate(w, i, "poll")

-----------------------------------------------------------------------------
(* resubmit_charge                                                          *)

ResubmitLoad(w, i) ==
  /\ At(w, i, "resubmit", "load")
  /\ See(w, IF charge[i] # "submitting" THEN "finish"
            ELSE IF flow[i] = "two_step" /\ ~prepared[i] THEN "prepare" ELSE "open",
         charge[i])
  /\ UNCHANGED <<rows, age, job, payload, rail, cancel, req, crashes>>

\* The rail's first call again: a reference, a refusal, or no answer that can be acted on.
PrepareAgain(w, i) ==
  /\ At(w, i, "resubmit", "prepare")
  /\ \E pc \in {"prepared", "refused", "requeue", "escalate"} \cup
               (IF Misconfigured THEN {"park"} ELSE {}) : Go(w, pc)
  /\ UNCHANGED <<rows, age, job, payload, rail, cancel, req, crashes>>

\* A reference that cannot be recorded is a dead letter.
RecordPreparedAgain(w, i) ==
  /\ At(w, i, "resubmit", "prepared")
  /\ \/ /\ charge[i] = "submitting"
        /\ prepared' = [prepared EXCEPT ![i] = TRUE]
        /\ Go(w, "open")
     \/ /\ charge[i] # "submitting"
        /\ Go(w, "park")
        /\ UNCHANGED prepared
  /\ UNCHANGED <<intent, charge, url, attempt, sent, posted,
                 age, job, payload, rail, cancel, req, crashes>>

SettleRefused(w, i) ==
  /\ At(w, i, "resubmit", "refused")
  /\ SettleFailed(w, i, "finish")
  /\ UNCHANGED <<url, prepared, attempt, posted, age, job, payload, rail, cancel, req, crashes>>

OpenResubmit(w, i) ==
  /\ At(w, i, "resubmit", "open")
  /\ attempt' = [attempt EXCEPT ![i] = [by |-> w, answered |-> FALSE]]
  /\ Go(w, "submit")
  /\ UNCHANGED <<intent, charge, url, prepared, sent, posted,
                 age, job, payload, rail, cancel, req, crashes>>

SubmitAgain(w, i) ==
  /\ At(w, i, "resubmit", "submit")
  /\ \E a \in Answer :
       /\ RailTakes(i, a)
       /\ Hear(w, CASE a \in {"ok", "rejected"} -> "answered"
                    [] a = "transport"         -> "requeue"
                    [] a = "reconcile"         -> "escalate"
                    [] a = "config"            -> "park", a)
  /\ UNCHANGED <<rows, age, job, payload, cancel, req, crashes>>

RecordResubmitAnswer(w, i) ==
  /\ At(w, i, "resubmit", "answered") /\ run[w].ans = "ok"
  /\ RecordAnswered(i, w)
  /\ Go(w, "commit")
  /\ UNCHANGED <<intent, charge, url, prepared, sent, posted,
                 age, job, payload, rail, cancel, req, crashes>>

SettleRejected(w, i) ==
  /\ At(w, i, "resubmit", "answered") /\ run[w].ans = "rejected"
  /\ SettleFailed(w, i, "note")
  /\ UNCHANGED <<url, prepared, attempt, posted, age, job, payload, rail, cancel, req, crashes>>

NoteRejected(w, i) ==
  /\ At(w, i, "resubmit", "note")
  /\ RecordAnswered(i, w)
  /\ Go(w, "finish")
  /\ UNCHANGED <<intent, charge, url, prepared, sent, posted,
                 age, job, payload, rail, cancel, req, crashes>>

\* One transaction: the charge leaves `submitting`, its poll job is there when it
\* does.  The intent is not moved.
CommitResubmission(w, i) ==
  /\ At(w, i, "resubmit", "commit")
  /\ \/ /\ charge[i] = "submitting"
        /\ charge'   = [charge EXCEPT ![i] = "submitted"]
        /\ prepared' = [prepared EXCEPT ![i] = TRUE]
        /\ job' = IF job[i]["poll"] = "absent" THEN [job EXCEPT ![i]["poll"] = "queued"] ELSE job
        /\ Go(w, "finish")
     \/ /\ charge[i] # "submitting"
        /\ Go(w, "park")
        /\ UNCHANGED <<charge, prepared, job>>
  /\ UNCHANGED <<intent, url, attempt, sent, posted, age, payload, rail, cancel, req, crashes>>

Resubmit(w, i) ==
  \/ ResubmitLoad(w, i)         \/ PrepareAgain(w, i)   \/ RecordPreparedAgain(w, i)
  \/ SettleRefused(w, i)        \/ OpenResubmit(w, i)   \/ SubmitAgain(w, i)
  \/ RecordResubmitAnswer(w, i) \/ SettleRejected(w, i) \/ NoteRejected(w, i)
  \/ CommitResubmission(w, i)   \/ Escalate(w, i, "resubmit")

-----------------------------------------------------------------------------
(* The backstop scan, the clock, and the payer.                             *)

\* Variant: a scan over `submitting` charges only.
ScanSubmittingCharges(i) ==
  /\ charge[i] = "submitting"
  /\ job[i]["poll"] = "absent"
  /\ job' = [job EXCEPT ![i]["poll"] = "queued"]
  /\ UNCHANGED <<rows, age, payload, rail, cancel, req, run, crashes>>

\* scan_live_charges: a live charge with no poll job gets one.
ScanLiveCharges(i) ==
  /\ charge[i] \in Live
  /\ job[i]["poll"] = "absent"
  /\ job' = [job EXCEPT ![i]["poll"] = "queued"]
  /\ UNCHANGED <<rows, age, payload, rail, cancel, req, run, crashes>>

\* The recovery window and the 24-hour horizon.  The window is three times the
\* timeout of the rail call a confirm makes: unless a process stalls, no confirm
\* is still inside it when the window closes.
ChargeAges(i) ==
  /\ charge[i] # "none"
  /\ \/ /\ age[i] = "young"
        /\ Stalls \/ \A r \in Requests : req[r].i = i => req[r].pc \notin InRailWindow
        /\ age' = [age EXCEPT ![i] = "mature"]
     \/ /\ age[i] = "mature"
        /\ age' = [age EXCEPT ![i] = "late"]
  /\ UNCHANGED <<rows, job, payload, rail, cancel, req, run, crashes>>

\* A payer needs the hosted page of a redirect rail, a push reaches the handset.
PayerPays(i) ==
  /\ rail[i] = "open"
  /\ flow[i] = "redirect" => url[i]
  /\ rail' = [rail EXCEPT ![i] = "paid"]
  /\ UNCHANGED <<rows, age, job, payload, cancel, req, run, crashes>>

\* The payer declines, or the rail gives the order up.
RailDeclines(i) ==
  /\ rail[i] = "open"
  /\ rail' = [rail EXCEPT ![i] = "declined"]
  /\ UNCHANGED <<rows, age, job, payload, cancel, req, run, crashes>>

Rail(i) == PayerPays(i) \/ RailDeclines(i)

Step ==
  \/ \E r \in Requests : CrashRequest(r) \/ \E i \in Intents : Confirm(r, i)
  \/ \E i \in Intents  : \/ CancelSnapshot(i) \/ CancelCommit(i)
                         \/ ScanLiveCharges(i) \/ ChargeAges(i) \/ Rail(i)
                         \/ \E k \in Kind : ReapLease(i, k)
  \/ \E w \in Runners  : \/ CrashRunner(w)
                         \/ \E i \in Intents :
                              \/ Poll(w, i) \/ Resubmit(w, i)
                              \/ \E k \in Kind : Claim(w, i, k) \/ SettleJob(w, i, k)

\* A step of the system leaves the rails as they are.
Onto(A) == A /\ UNCHANGED flow

Next == Onto(Step)

Spec == Init /\ [][Next]_vars

-----------------------------------------------------------------------------
(* What the payment core promises.                                          *)

\* The charge, the intent, the ledger and the outbox settle together: whatever
\* reads one of a success's four rows finds the other three, once each
\* (apply_succeeded, however many runners hear the rail's answer).
SettledTogether ==
  \A i \in Intents :
    LET paid == charge[i] = "succeeded" IN
      /\ intent[i] = "succeeded" <=> paid
      /\ posted[i] = (IF paid THEN 1 ELSE 0)
      /\ sent[i]["succeeded"] = (IF paid THEN 1 ELSE 0)

\* A merchant that acts on webhooks alone is never told two endings: at most one
\* of `succeeded` and `canceled`, a failure never beside a success, none twice
\* (the compare-and-swaps of confirm, cancel and the worker, racing).
OneEnding ==
  \A i \in Intents :
    /\ sent[i]["succeeded"] + sent[i]["canceled"] <= 1
    /\ sent[i]["succeeded"] + sent[i]["payment_failed"] <= 1
    /\ sent[i]["canceled"] = 1 <=> intent[i] = "canceled"
    /\ sent[i]["payment_failed"] = 1 => charge[i] = "failed"

\* No charge is written off while its payer's money is with the rail, and none is
\* recorded as paid that is not (recovery_step and its window; needs ~Stalls).
MoneyIsAccountedFor ==
  \A i \in Intents :
    /\ charge[i] = "failed"    => rail[i] # "paid"
    /\ charge[i] = "succeeded" => rail[i] = "paid"

\* An order whose page the payer may have opened is failed by the rail's word only,
\* never as a dead order (fail_dead_order against persist_submitted).
HandedOverIsNotDead ==
  \A i \in Intents : url[i] /\ charge[i] = "failed" => rail[i] = "declined"

\* The rail can hold nothing that the database has no trace of: the attempt row
\* precedes the call, and the charge and its reference precede the attempt
\* (open_attempt, submit_again; the crash-safety rule).
NothingUnrecorded ==
  \A i \in Intents :
    rail[i] # "none" => attempt[i] # NoAttempt /\ charge[i] # "none"
                        /\ (flow[i] = "two_step" => prepared[i])

\* A poll job is dead-lettered under a live charge, and a resubmit job, whose dedupe key
\* is then held for good, under one that needs it still, only if the intent was canceled
\* beneath it: races between runners never park one (needs ~Misconfigured).
ParkedForCause ==
  \A i \in Intents : intent[i] # "canceled" =>
    /\ charge[i] \in Live => job[i]["poll"] # "parked"
    /\ charge[i] = "submitting" => job[i]["resubmit"] # "parked"

\* Settled states are final, and a live charge never returns to `submitting`, nor
\* leaves `unresolved` for another live state: escalations are not undone.
ChargeOrder ==
  [][\A i \in Intents : charge'[i] # charge[i] =>
       /\ charge[i] \notin Terminal
       /\ charge'[i] = "submitting" => charge[i] = "none"
       /\ charge[i] = "unresolved" => charge'[i] \in Terminal]_vars

\* A withdrawn intent is left withdrawn whatever the rail says later.
CanceledIsFinal ==
  [][\A i \in Intents : intent[i] \in {"canceled", "succeeded"} => intent'[i] = intent[i]]_vars

-----------------------------------------------------------------------------
(* Payment implements PaymentPromise: the outcome is read off the charge     *)
(* unless the intent was canceled, the money off the rail.                   *)

OutcomeOf(i) ==
  CASE intent[i] = "canceled" -> "withdrawn"
    [] intent[i] # "canceled" /\ charge[i] = "succeeded" -> "paid"
    [] intent[i] # "canceled" /\ charge[i] = "failed"    -> "failed"
    [] OTHER -> "open"

Promise == INSTANCE PaymentPromise WITH
  outcome <- [i \in Intents |-> OutcomeOf(i)],
  money   <- [i \in Intents |-> rail[i] = "paid"],
  ledger  <- posted,
  told    <- [i \in Intents |-> {e \in Event : sent[i][e] > 0}]

\* Every step of confirm, cancel and the worker is one step of the promise or none
\* (the compare-and-swaps and transactions of vpay-db; needs ~Stalls).
KeepsThePromise == Promise!Spec

-----------------------------------------------------------------------------
(* Payment keeps to the queue as JobLease has it, with a name of its own for   *)
(* each loop; JobQueue keeps to the same.                                      *)

InHand(w) == IF run[w].pc = "idle" THEN {} ELSE {<<run[w].i, run[w].kind>>}

Lease == INSTANCE JobLease WITH
  Jobs    <- Intents \X Kind,
  Loops   <- Runners,
  Home    <- [w \in Runners |-> w],
  job     <- [p \in Intents \X Kind |-> job[p[1]][p[2]]],
  at      <- [w \in Runners |-> InHand(w)],
  gone    <- {},
  stalled <- IF Stalls THEN Runners ELSE {}

\* A confirm, a scan and the handlers enqueue a row that is absent and never write
\* another; a handler works on the row its loop claimed, to the write that settles it.
KeepsToTheQueue == Lease!Spec

-----------------------------------------------------------------------------
(* Fairness: requests and runners keep taking steps until they die, the      *)
(* oldest claimable job is claimed first, the reaper and the scan are jobs   *)
(* that re-arm for ever, a rail gives every order up in the end, and one     *)
(* that is asked again and again answers at last.                            *)

Fairness ==
  /\ \A r \in Requests, i \in Intents : WF_vars(Onto(Confirm(r, i)))
  /\ \A i \in Intents :
       /\ WF_vars(Onto(ScanLiveCharges(i)))
       /\ WF_vars(Onto(ChargeAges(i)))
       /\ WF_vars(Onto(Rail(i)))
       /\ \A k \in Kind : WF_vars(Onto(ReapLease(i, k)))
  /\ \A w \in Runners, i \in Intents :
       /\ WF_vars(Onto(Poll(w, i))) /\ WF_vars(Onto(Resubmit(w, i)))
       /\ \A k \in Kind : SF_vars(Onto(Claim(w, i, k))) /\ WF_vars(Onto(SettleJob(w, i, k)))
       /\ SF_vars(Onto(QueryRail(w, i)))

FairSpec == Spec /\ Fairness

\* However late, a final answer the rail holds reaches the charge, or stops at a parked
\* poll job: under a canceled intent, or of an adapter that may not run (poll ladder,
\* hourly retry, scan).
AnswersAreRecorded ==
  \A i \in Intents :
    charge[i] \in Live /\ rail[i] \in {"paid", "declined"}
      ~> charge[i] \in Terminal \/ job[i]["poll"] = "parked"

\* No live charge is forgotten: it settles, or an operator is told, by `unresolved`
\* past the horizon or by the dead letter (escalate_to_unresolved, dead_letter).
NoChargeIsForgotten ==
  \A i \in Intents :
    charge[i] \in Live
      ~> charge[i] \in Terminal \cup {"unresolved"} \/ job[i]["poll"] = "parked"
=============================================================================
