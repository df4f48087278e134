------------------------------ MODULE Webhooks ------------------------------
(***************************************************************************)
(* One customer.* event on its way from the outbox to the endpoints of its  *)
(* merchant: the drain job that fans it out, the delivery job of each        *)
(* endpoint, the backstop that looks for deliveries without one, and the     *)
(* erasure of the customer, which rewrites the event under all of them.      *)
(*                                                                          *)
(* Events share no row, and deliveries of one event share only its body.     *)
(* What is signed is a body before the erasure, or one after it; the         *)
(* signature, the excerpt of the answer and the times are left out, so a     *)
(* job that waits for its time is one that is queued.                        *)
(***************************************************************************)
EXTENDS Naturals

CONSTANTS
  Endpoints,    \* the endpoints of the merchant, and with the event, its deliveries
  Runners,      \* claim loops of the workers
  Drain,        \* the dedupe key of the drain job
  Rungs,        \* the rungs of delivery_delay
  FanOutTries,  \* FANOUT_MAX_ATTEMPTS
  MaxTroubles   \* bound on deaths, stalls and failures of the database

ASSUME ConstantsAssumption ==
  /\ Drain \notin Endpoints
  /\ Rungs \in Nat /\ FanOutTries \in Nat \ {0} /\ MaxTroubles \in Nat
  /\ Runners \cap {"absent", "queued", "parked"} = {}

VARIABLES
  fanout,    \* events.fanout_state
  tries,     \* events.fanout_attempts
  data,      \* events.data
  delivery,  \* the rows of webhook_deliveries
  job,       \* the drain job and the delivery jobs
  run,       \* the claim loops
  due,       \* the deliveries the backstop has read as owed
  troubles,  \* deaths, stalls and failures so far
  signed,    \* history: the bodies signed for an endpoint and handed to the HTTP client
  lapsed     \* history: the deliveries whose handler outlasted its lease

rows == <<fanout, tries, data, delivery>>
vars == <<rows, job, run, due, troubles, signed, lapsed>>

Jobs   == Endpoints \cup {Drain}
Body   == {"whole", "redacted"}
Digest == Body \cup {"none"}
State  == {"none", "pending", "succeeded", "exhausted"}
Answer == {"ok", "fail", "unsent", "refused"}
PC     == {"idle", "load", "fan", "count", "render", "post", "record", "settle"}
Will   == {"finish", "again", "park"}

\* `seen` and `digest` are the row as owed_delivery read it; what a loop no longer
\* needs is reset.
Loop == [pc: PC, job: Jobs, seen: Nat, digest: Digest, body: Body, ans: Answer, will: Will]
Idle == [pc |-> "idle", job |-> Drain, seen |-> 0, digest |-> "none",
         body |-> "whole", ans |-> "ok", will |-> "again"]

TypeOK ==
  /\ fanout   \in {"pending", "done", "failed"}
  /\ tries    \in 0..FanOutTries
  /\ data     \in Body
  /\ delivery \in [Endpoints -> [state: State, attempt: Nat, digest: Digest]]
  /\ job      \in [Jobs -> {"absent", "queued", "parked"} \cup Runners]
  /\ run      \in [Runners -> Loop]
  /\ due      \subseteq Endpoints
  /\ troubles \in 0..MaxTroubles
  /\ signed     \in [Endpoints -> SUBSET Body]
  /\ lapsed   \subseteq Endpoints

\* The event was committed with the change it tells of; the drain job is seeded.
Init ==
  /\ fanout   = "pending"
  /\ tries    = 0
  /\ data     = "whole"
  /\ delivery = [e \in Endpoints |-> [state |-> "none", attempt |-> 0, digest |-> "none"]]
  /\ job      = [j \in Jobs |-> IF j = Drain THEN "queued" ELSE "absent"]
  /\ run      = [w \in Runners |-> Idle]
  /\ due      = {}
  /\ troubles = 0
  /\ signed     = [e \in Endpoints |-> {}]
  /\ lapsed   = {}

Owed(e) == delivery[e].state = "pending"
At(w, j, pc) == run[w].job = j /\ run[w].pc = pc
Go(w, pc) == run' = [run EXCEPT ![w].pc = pc]
Trouble == troubles < MaxTroubles /\ troubles' = troubles + 1
Return(w, v) == run' = [run EXCEPT ![w] = [Idle EXCEPT !.pc = "settle", !.job = run[w].job, !.will = v]]

-----------------------------------------------------------------------------
(* The drain.                                                               *)

\* pending_page: the event is on the page, or there is nothing to do.
LoadPage(w) ==
  /\ At(w, Drain, "load")
  /\ IF fanout = "pending" THEN Go(w, "fan") ELSE Return(w, "again")
  /\ UNCHANGED <<rows, job, due, troubles, signed, lapsed>>

\* Variant: the deliveries are created one by one, and a failure leaves some.
FanOutSome(w) ==
  /\ At(w, Drain, "fan")
  /\ \E some \in SUBSET Endpoints :
       /\ delivery' = [e \in Endpoints |-> IF e \in some /\ delivery[e].state = "none"
                                           THEN [delivery[e] EXCEPT !.state = "pending"]
                                           ELSE delivery[e]]
       /\ job' = [j \in Jobs |-> IF j \in some /\ delivery[j].state = "none"
                                 THEN "queued" ELSE job[j]]
  /\ fanout' = "done"
  /\ Return(w, "again")
  /\ UNCHANGED <<tries, data, due, troubles, signed, lapsed>>

\* One transaction: a delivery and its job for each endpoint that has none, and
\* the event is claimed; one that was claimed meanwhile abandons it all.
FanOutOne(w) ==
  /\ At(w, Drain, "fan")
  /\ \/ /\ fanout = "pending"
        /\ LET new == {e \in Endpoints : delivery[e].state = "none"}
           IN  /\ delivery' = [e \in Endpoints |-> IF e \in new
                                 THEN [delivery[e] EXCEPT !.state = "pending"] ELSE delivery[e]]
               /\ job' = [j \in Jobs |-> IF j \in new /\ job[j] = "absent"
                                         THEN "queued" ELSE job[j]]
        /\ fanout' = "done"
     \/ /\ fanout # "pending"
        /\ UNCHANGED <<fanout, delivery, job>>
  /\ Return(w, "again")
  /\ UNCHANGED <<tries, data, due, troubles, signed, lapsed>>

FanOutFails(w) ==
  /\ At(w, Drain, "fan")
  /\ Trouble
  /\ Go(w, "count")
  /\ UNCHANGED <<rows, job, due, signed, lapsed>>

\* record_fanout_failure, or the error it logs and swallows.
CountFailure(w) ==
  /\ At(w, Drain, "count")
  /\ \/ /\ fanout = "pending"
        /\ tries'  = tries + 1
        /\ fanout' = IF tries + 1 >= FanOutTries THEN "failed" ELSE "pending"
        /\ UNCHANGED troubles
     \/ /\ fanout # "pending"
        /\ UNCHANGED <<tries, fanout, troubles>>
     \/ /\ Trouble
        /\ UNCHANGED <<tries, fanout>>
  /\ Return(w, "again")
  /\ UNCHANGED <<data, delivery, job, due, signed, lapsed>>

-----------------------------------------------------------------------------
(* A delivery.                                                              *)

\* Variant: whatever became of the delivery, it is attempted.
LoadAnyDelivery(w, e) ==
  /\ At(w, e, "load")
  /\ run' = [run EXCEPT ![w].pc = "render",
                        ![w].seen = delivery[e].attempt, ![w].digest = delivery[e].digest]
  /\ UNCHANGED <<rows, job, due, troubles, signed, lapsed>>

\* owed_delivery, its first read: nothing is owed, or the row is kept.
LoadDelivery(w, e) ==
  /\ At(w, e, "load")
  /\ IF Owed(e)
     THEN run' = [run EXCEPT ![w].pc = "render",
                             ![w].seen = delivery[e].attempt, ![w].digest = delivery[e].digest]
     ELSE Return(w, "finish")
  /\ UNCHANGED <<rows, job, due, troubles, signed, lapsed>>

\* Its second read, and refuse_a_re_rendered_body: the body differs from the one
\* the digest is of, and the job is poisoned.
Render(w, e) ==
  /\ At(w, e, "render")
  /\ IF run[w].digest \in {"none", data}
     THEN run' = [run EXCEPT ![w].pc = "post", ![w].digest = "none", ![w].body = data]
     ELSE Return(w, "park")
  /\ UNCHANGED <<rows, job, due, troubles, signed, lapsed>>

\* The endpoint has no secret, or the egress guard refuses its address for now
\* or for good.
PostNothing(w, e) ==
  /\ At(w, e, "post")
  /\ \E a \in {"unsent", "refused"} :
       run' = [run EXCEPT ![w].pc = "record", ![w].ans = a]
  /\ UNCHANGED <<rows, job, due, troubles, signed, lapsed>>

\* A 2xx, or anything else: another status, or no answer, be it that the body arrived
\* and nothing came back or that it never left (DNS, connect, TLS, the deadline).
Post(w, e) ==
  /\ At(w, e, "post")
  /\ signed' = [signed EXCEPT ![e] = @ \cup {run[w].body}]
  /\ \E a \in {"ok", "fail"} :
       run' = [run EXCEPT ![w].pc = "record", ![w].ans = a]
  /\ UNCHANGED <<rows, job, due, troubles, lapsed>>

\* COALESCE(payload_sha256, sha): the digest of the first body that was signed.
First(e, sha) == IF delivery[e].digest = "none" THEN sha ELSE delivery[e].digest

\* Variant: a 2xx ends the job and is not written down.
RecordSuccessNowhere(w, e) ==
  /\ At(w, e, "record") /\ run[w].ans = "ok"
  /\ Return(w, "finish")
  /\ UNCHANGED <<rows, job, due, troubles, signed, lapsed>>

\* record_success, WHERE state = 'pending'.
RecordSuccess(w, e) ==
  /\ At(w, e, "record") /\ run[w].ans = "ok"
  /\ delivery' = IF Owed(e)
                 THEN [delivery EXCEPT ![e].state = "succeeded", ![e].digest = First(e, run[w].body)]
                 ELSE delivery
  /\ Return(w, "finish")
  /\ UNCHANGED <<fanout, tries, data, job, due, troubles, signed, lapsed>>

\* Variant: the digest of a body that was rendered and not signed.
ShaRendered(w) == run[w].body

\* The digest of what was signed, if anything was: it is recorded of a failed attempt
\* whether or not the body reached the endpoint (record_no_response).
Sha(w) == IF run[w].ans = "fail" THEN run[w].body ELSE "none"

\* delivery_delay(attempt) is None, for the attempt that was read.
Last(w) == run[w].seen >= Rungs

\* record_attempt, WHERE state = 'pending'; the job follows the ladder whether or
\* not a row matched.
RecordFailure(w, e) ==
  /\ At(w, e, "record") /\ run[w].ans \in {"fail", "unsent"}
  /\ delivery' =
       IF Owed(e)
       THEN [delivery EXCEPT ![e] = [state   |-> IF Last(w) THEN "exhausted" ELSE "pending",
                                     attempt |-> @.attempt + 1,
                                     digest  |-> First(e, Sha(w))]]
       ELSE delivery
  /\ Return(w, IF Last(w) THEN "finish" ELSE "again")
  /\ UNCHANGED <<fanout, tries, data, job, due, troubles, signed, lapsed>>

\* Variant: the attempt is counted and the delivery left pending.
RecordRefusedPending(w, e) ==
  /\ At(w, e, "record") /\ run[w].ans = "refused"
  /\ delivery' = IF Owed(e) THEN [delivery EXCEPT ![e].attempt = @ + 1] ELSE delivery
  /\ Return(w, "finish")
  /\ UNCHANGED <<fanout, tries, data, job, due, troubles, signed, lapsed>>

\* record_refused_target, of a refusal that is for good.
RecordRefused(w, e) ==
  /\ At(w, e, "record") /\ run[w].ans = "refused"
  /\ delivery' = IF Owed(e)
                 THEN [delivery EXCEPT ![e] = [state   |-> "exhausted",
                                               attempt |-> @.attempt + 1,
                                               digest  |-> @.digest]]
                 ELSE delivery
  /\ Return(w, "finish")
  /\ UNCHANGED <<fanout, tries, data, job, due, troubles, signed, lapsed>>

Record(w, e) == RecordSuccess(w, e) \/ RecordFailure(w, e) \/ RecordRefused(w, e)

\* The database does not answer a statement of the handler: the job is retried.
Falter(w) ==
  /\ run[w].pc \in {"load", "render", "record"}
  /\ Trouble
  /\ Return(w, "again")
  /\ UNCHANGED <<rows, job, due, signed, lapsed>>

-----------------------------------------------------------------------------
(* The jobs, as JobQueue has them: claimed by one loop, settled under the    *)
(* fence, reaped when the lease is over.                                     *)

Claim(w, j) ==
  /\ run[w].pc = "idle"
  /\ job[j] = "queued"
  /\ job' = [job EXCEPT ![j] = w]
  /\ run' = [run EXCEPT ![w] = [Idle EXCEPT !.pc = "load", !.job = j]]
  /\ UNCHANGED <<rows, due, troubles, signed, lapsed>>

\* finish, reschedule or dead_letter: WHERE id = $1 AND locked_by = $2.
SettleRow(w, j) ==
  /\ At(w, j, "settle")
  /\ job[j] = w
  /\ job' = [job EXCEPT ![j] = CASE run[w].will = "finish" -> "absent"
                                [] run[w].will = "again"  -> "queued"
                                [] run[w].will = "park"   -> "parked"]
  /\ run' = [run EXCEPT ![w] = Idle]
  /\ UNCHANGED <<rows, due, troubles, signed, lapsed>>

\* The row is no longer the loop's, or the database did not answer and it stays held.
SettleNothing(w, j) ==
  /\ At(w, j, "settle")
  /\ Trouble \/ (job[j] # w /\ UNCHANGED troubles)
  /\ run' = [run EXCEPT ![w] = Idle]
  /\ UNCHANGED <<rows, job, due, signed, lapsed>>

SettleJob(w, j) == SettleRow(w, j) \/ SettleNothing(w, j)

\* The loop that claimed j, if it is still at it.
Works(w, j) == run[w].pc # "idle" /\ run[w].job = j

\* The reaper frees a job whose loop is gone, and one whose loop has stalled.
ReapLease(j) ==
  /\ job[j] \in Runners /\ ~Works(job[j], j)
  /\ job' = [job EXCEPT ![j] = "queued"]
  /\ UNCHANGED <<rows, run, due, troubles, signed, lapsed>>

ReapStalled(j) ==
  /\ job[j] \in Runners /\ Works(job[j], j)
  /\ Trouble
  /\ job' = [job EXCEPT ![j] = "queued"]
  /\ lapsed' = lapsed \cup (Endpoints \cap {j})
  /\ UNCHANGED <<rows, run, due, signed>>

Crash(w) ==
  /\ run[w].pc # "idle"
  /\ Trouble
  /\ run' = [run EXCEPT ![w] = Idle]
  /\ UNCHANGED <<rows, job, due, signed, lapsed>>

\* The backstop reads some of the deliveries that are owed, pending_due's lease and
\* LIMIT leave the others, and later gives those that have no job one: the read is
\* of no transaction, and a delivery may have ended meanwhile.
PendingDue ==
  /\ due = {}
  /\ due' \in (SUBSET {e \in Endpoints : Owed(e)}) \ {{}}
  /\ UNCHANGED <<rows, job, run, troubles, signed, lapsed>>

EnqueueMissing ==
  /\ due # {}
  /\ due' = {}
  /\ job' = [j \in Jobs |-> IF j \in due /\ job[j] = "absent" THEN "queued" ELSE job[j]]
  /\ UNCHANGED <<rows, run, troubles, signed, lapsed>>

ScanDeliveries == PendingDue \/ EnqueueMissing

\* redact_stored_copies, in the transaction of the erasure: the event's body, and
\* the digests of the deliveries that can still be attempted.
Erase ==
  /\ data = "whole"
  /\ data' = "redacted"
  /\ delivery' = [e \in Endpoints |-> IF Owed(e) THEN [delivery[e] EXCEPT !.digest = "none"]
                                      ELSE delivery[e]]
  /\ UNCHANGED <<fanout, tries, job, run, due, troubles, signed, lapsed>>

FanOut(w)     == LoadPage(w) \/ FanOutOne(w) \/ FanOutFails(w) \/ CountFailure(w)
Deliver(w, e) == LoadDelivery(w, e) \/ Render(w, e) \/ PostNothing(w, e) \/ Post(w, e) \/ Record(w, e)

Next ==
  \/ \E w \in Runners : \/ FanOut(w) \/ Falter(w) \/ Crash(w)
                        \/ \E e \in Endpoints : Deliver(w, e)
                        \/ \E j \in Jobs : Claim(w, j) \/ SettleJob(w, j)
  \/ \E j \in Jobs : ReapLease(j) \/ ReapStalled(j)
  \/ ScanDeliveries \/ Erase

Spec == Init /\ [][Next]_vars

\* Handlers go on, every job is claimed in its turn (JobQueue!DueIsClaimed), a
\* dead loop's lease is reaped; and troubles end, for MaxTroubles bounds them.
Fairness ==
  /\ \A w \in Runners : /\ WF_vars(FanOut(w))
                        /\ \A e \in Endpoints : WF_vars(Deliver(w, e))
                        /\ \A j \in Jobs : WF_vars(SettleJob(w, j))
  /\ \A j \in Jobs : WF_vars(ReapLease(j)) /\ SF_vars(\E w \in Runners : Claim(w, j))

FairSpec == Spec /\ Fairness

-----------------------------------------------------------------------------
(* Webhooks keeps to the queue as JobLease has it, with a name of its own for  *)
(* each loop, any of which may have stalled if there are troubles; JobQueue    *)
(* keeps to the same.                                                          *)

InHand(w) == IF run[w].pc = "idle" THEN {} ELSE {run[w].job}

Lease == INSTANCE JobLease WITH
  Loops   <- Runners,
  Home    <- [w \in Runners |-> w],
  at      <- [w \in Runners |-> InHand(w)],
  gone    <- {},
  stalled <- IF MaxTroubles > 0 THEN Runners ELSE {}

\* The fan-out and the backstop enqueue a row that is absent and never write another;
\* a handler works on the row its loop claimed, to the write that settles it.
KeepsToTheQueue == Lease!Spec

-----------------------------------------------------------------------------
(* What the outbox promises.                                                *)

\* An event that was fanned out has a delivery for every endpoint, one that was
\* not, or was abandoned, has none: no endpoint is skipped by a drain that fails
\* half-way or is run twice (fan_out_one's transaction and its claim).
FannedOutWhole ==
  \A e \in Endpoints : fanout = "done" <=> delivery[e].state # "none"

\* A delivery that is owed has its job, which is queued, held or parked: the
\* backstop looks for what no sequence of the code's own steps produces.
OwedHasJob == \A e \in Endpoints : Owed(e) => job[e] # "absent"

\* The digest of a delivery is of a body that was signed for its endpoint and handed to
\* the HTTP client, so that the guard compares with what the merchant may have seen
\* (COALESCE, and the None of record_unsigned and record_refused_target).
DigestWasSigned ==
  \A e \in Endpoints : delivery[e].digest # "none" => delivery[e].digest \in signed[e]

\* A loop that keeps its lease posts only what is owed, on the rung it read: a
\* crash repeats an attempt, and never a delivery that was recorded as ended; the
\* ladder is climbed once, whatever else happens (handle_deliver, record_failure).
OnTheLadder ==
  \A e \in Endpoints \ lapsed :
    /\ \A w \in Runners : At(w, e, "post") => Owed(e) /\ run[w].seen = delivery[e].attempt
    /\ delivery[e].attempt <= Rungs + 1
    /\ delivery[e].attempt = Rungs + 1 => delivery[e].state = "exhausted"

\* An event is abandoned by the drain, or each of its deliveries ends: accepted,
\* exhausted, or parked before an operator.
EveryDeliveryEnds ==
  fanout = "pending"
    ~> \/ fanout = "failed"
       \/ \A e \in Endpoints : delivery[e].state \in {"succeeded", "exhausted"} \/ job[e] = "parked"
=============================================================================
