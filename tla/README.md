# A verification development for vpay

vpay is a payment gateway: merchants create payment intents over an HTTP API
(`vpay-api`), payers pay at a mobile-money rail, and a worker (`vpay-worker`)
asks the rail what became of each charge. Everything the processes share is in
PostgreSQL (`vpay-db`). No process holds state that another one needs, so what
can go wrong is the order in which statements, transactions and rail calls of
several processes reach the rows, and what a death between two of them leaves.

The modules below model that: **an action is one statement, one transaction or
one call to a rail**, a request or a worker loop between two of them is a `pc`
and what it has read, and a death may come at every such point. TLC checks the
modules on small instances; TLAPS proves the most important facts for every
value of the constants.

Three actions take a lock and go on to a statement that is safe under it, or end what
was done under it: `CommitErasure` (the statements on out-of-band references, then the commit;
whoever writes such a reference waits for the customer's row), `LockRotation` (the advisory lock,
then the read of the active key, which nobody changes without it) and `TakeGuard` (the
write guard, then the rows of the GET; everybody else waits at the cache). Statements whose result nothing in a model reads (the audit row of a
prepare, the attempt row of a status query) are left out.

Paths are relative to `src/backends/crates/` unless they start with `docs/`.

## 1. Inventory

| Component | State | Operations | Interacts through |
| --- | --- | --- | --- |
| Payment core (`vpay-api/src/v1/payment_intents.rs`, `vpay-worker/src/{handlers,recovery}.rs`, `vpay-db/src/{payment_intents,charges,provider_requests,settlement}.rs`) | intents, charges, attempt rows, ledger, events | confirm, cancel, poll, resubmit, scan, settle, escalate | rows; poll and resubmit jobs; the rail |
| Job queue and worker loop (`vpay-db/src/jobs.rs`, `vpay-worker/src/run_loop.rs`) | job rows: `run_at`, `locked_by`, `locked_at` | enqueue, pull-forward, claim, finish, reschedule, dead-letter, reap, drain, release | every handler; provider callbacks |
| Idempotency (`vpay-db/src/idempotency.rs`, `PostRequest` of the API) | one row per merchant and key | claim, take over, replay, store, release, sweep | every POST |
| Refunds (`vpay-api/src/v1/refunds.rs`, `vpay-db/src/refunds.rs`) | refunds, two counters of the intent, invoice and ledger amounts | create (resolve, reserve, record, call, answer), cancel, settle | the intent's row; the rail |
| Webhook outbox (`vpay-worker/src/webhooks.rs`, `vpay-db/src/{events,webhook_deliveries}.rs`) | events and their fan-out, deliveries | fan out, deliver, record, back-stop scan | jobs; every transaction that emits an event |
| Customers and erasure (`vpay-db/src/customers.rs`) | customers and the copies of their data | create, update, erase, idle sweep, touch | events, deliveries, stored answers, sessions, intents, charges |
| Checkout sessions (`vpay-api/src/v1/checkout_sessions.rs`, `vpay-db/src/checkout_sessions.rs`) | sessions of an intent | create, admit a confirm, expire, expire due ones | a settlement flips them; they write their customer onto the intent |
| Invoices and items (`vpay-api/src/v1/{invoices,invoice_items}.rs`, `vpay-db/src/invoices.rs`) | drafts, numbers, items, amounts | line edits, finalize, pay, pay out of band, void, write off | a pay request mints an intent and its session; a settlement marks them paid; refunds credit them |
| Ledger (`vpay-ledger`, `vpay-db/src/ledger.rs`) | postings | capture, refund | inside settlements |
| Routing, money, failure vocabulary (`vpay-core`) | none | pure functions | confirm, refunds |
| Provider callbacks (`vpay-api/src/provider_callback.rs`, `vpay-worker/src/callbacks.rs`) | callback subscriptions | verify, pull a poll forward, ensure | the job queue |
| Provider contract and adapters (`vpay-provider`, `vpay-adapter-*`, `vpay-notchpay`) | token caches | prepare, submit, query, refund | the rails |
| Signing keys and the validator of tokens (`vpay-db/src/signing_keys.rs`, `vpay-api/src/{op/keys,op/jwks,jwks_cache,resource_auth}.rs`) | published keys; per replica a key, a cached document, remembered kids | load, announce, retire, sign; look up, refresh, throttle | the rows of the keys, read through `/v1/oauth/jwks.json` |
| Staff sign-in, authorization codes and assertions, envelopes, merchant and console keys | sessions, codes, nonces, counters | sign in, issue, verify, limit | the API's guards |
| Operator and merchant reads (`mcp`, `dash`, `browser`, `svc`), configuration, server binary, wire types, front ends, SDKs, deployment | none of their own | reads, rendering, wiring | the rows of the others |

What is hard in this code, and what the properties are for (each at its line in
`PROJECT.json`, "hazards"):

* **Interleaving.** A confirm, a cancel and two workers move the same charge by
  compare-and-swap. A cancel decides on a snapshot. Two refunds resolve against
  one reading of what is left. Requests race under one key.
* **Death between two steps.** Between the attempt row and the rail's answer,
  between the answer and its record, between two commits of a refund, between a
  post and its record.
* **Assumptions about time.** The recovery window against a slow confirm, the
  lease against a slow handler, 60 s against a slow refund, 24 h against a slow
  request, a rotation's overlap against a slow rollout. Nothing enforces them; the models make each a constant or a history
  variable, and say what holds on which side.
* **Stale reads.** The fence is the id of a process, not of a claim. The rung of
  a delivery and the digest of its body are those that were read. A statement
  that waits for a row compares that row again and keeps the rest of its
  snapshot: the lines it summed, the sessions that led it to an intent.
* **Locks in an order.** An erasure locks the customer and then intents; a
  session create locks the same two rows, and must in the same order.
* **Progress.** Polls re-arm, leases are reaped, a scan revives what has no job.

What makes each component correct, in a sentence: the payment core charges a
payer once, records what the rail holds and tells the merchant one ending; the
queue gives a row to one loop and a due row to some loop; a key answers one
request and repeats that answer; refunds never exceed the capture, and a
refund that ended unpaid stays unpaid; the outbox fans an event out whole and
brings every delivery to an end. An invoice is paid once, by one of its two
ways, for the amount it was issued with, under a number that leaves no gap; a
session ends once. An erasure leaves no copy of the payer's data, no writer adds one
later, and nobody who is in use is erased as idle. A token that verifies names
a key that is published, and a validator finds it.

## 2. Modules

| Module | Models |
| --- | --- |
| `Payment` | one intent and its charge under confirms, cancels, polls, resubmissions, the scan, the rail and deaths |
| `PaymentPromise` | what a merchant may rely on: open, then paid, failed or withdrawn, told once. `Payment` refines it (`Promise == INSTANCE PaymentPromise WITH ...`) |
| `JobQueue` | job rows, processes with several claim loops, leases, the reaper, the drain |
| `JobLease` | the queue without time, leases or processes: a row is claimed by one loop, ended by a write of that loop's process, and given to another only when the first has died or stalled. `JobQueue`, `Payment` and `Webhooks` each refine it (`Lease == INSTANCE JobLease WITH ...`) |
| `Idempotency` | the row of one key and the requests that come under it |
| `Refunds` | the refunds of one captured intent, its counters, the invoice, the ledger, the rail |
| `Webhooks` | one event from the outbox to its endpoints, with the erasure of the customer under it |
| `Checkout` | sessions of several intents, the gate of a confirm, cancels, the flip by a settlement; a module of actions, composed by `Invoices` |
| `Invoices` | one invoice: lines, finalize and its number, pay requests, out-of-band payment, void, write-off, settlement; extends `Checkout` |
| `Erasure` | one customer under updates, out-of-band payments, stored answers, sessions, deletions and the idle sweep, statement by statement under the row locks |
| `SigningKeys` | the key rows and the replicas that load, announce, sign and stop, with the time a token or a retired key has left |
| `TokenValidator` | the JWKS cache, remembered kids and throttle of one replica, and requests that look a key up; extends `SigningKeys` |
| `MC*` | instances for TLC, and the statements of docs and comments that the code does not keep |
| `*Proofs` | theorems and their proofs, one module per component |

`PROJECT.json`, "map", names the lines of each definition.

### Payment

`intent`, `charge`, `attempt`, `prepared`, `url`, `posted` and `sent` are the rows of an
intent; `job` its poll and resubmit rows; `req` and `run` the confirms and claim
loops between two statements; `rail` what the provider holds. The name of a
confirm's step is its function: `LoadConfirmable`, `OpenCharge`, `PrepareOnRail`,
`OpenAttempt`, `SubmitToRail`, `RecordSubmitAnswer`, `PersistSubmitted`,
`PersistDecline`, `NoteDecline`; `RecordPrepared` is the record of a prepare that was
answered. A cancel is two steps, its snapshot and its commit. A poll loads (`PollLoad`), reads the
evidence of a submit and decides by `RecoverySteps` (`PollRecover`, `recovery_step`), and
carries the decision out in statements of their own: the compare-and-swap of `AdvanceAnswered`,
the enqueue of `ScheduleResubmit`, the settlement of `FailDeadOrder`. It asks the rail (`QueryRail`)
and acts on the answer; the payload is written last, by `ResetStreak` or `RememberDenial`,
so that a death may come between a charge's move or an enqueue and the streak. A
resubmission loads, prepares again (`PrepareAgain`, the call, and `RecordPreparedAgain`), opens
an attempt, submits and commits. `flow` is the kind of rail an intent is routed to and never changes: push, two-step (a
prepare before the submit) or redirect (a page); `Flows` are those an instance has. Clocks are abstract: a charge is young, mature or late for
the recovery policy. `Stalls` says whether a confirm may still be at work when
its charge is mature, or a loop when its lease is reaped; `Misconfigured` whether an adapter may
refuse to run.

### JobQueue

A row is absent, later, due or parked; `ahead` is the order of `run_at` among due
rows. A process is an incarnation: a restart is another member of `Processes`.
Its slots share its `worker_id`, as `run_loop.rs` has them share it. `holder` and
`stalled` are history: who claimed last, and in which processes a handler
outlasted its lease (`LeaseExpires`); a stall excuses nobody in another process. The last process of an instance is spared by deaths and
shutdowns (`Spared`), which stands for a deployment that keeps one worker.

### JobLease

What the queue is to a handler. `job` is a row that is absent, queued, parked or held by
a loop, `at` what each loop has in hand, `gone` the loops that died with a settling
write on its way, which may still arrive, and `stalled` the processes in which a handler has
outlasted its lease. A row that a loop is at work on is freed, or ended by another loop of
the same process, only when that process is one of them: a stall loosens the promise about its own
process and no other, so the refinement says as much in a run with stalls. `Payment` and `Webhooks` contain the queue in
small (`Claim`, `SettleJob`, `ReapLease`), and each maps its rows and loops to `JobLease`, as
`JobQueue` does: whatever moves a job row in one of the three moves it in a way the
abstraction allows. The two small queues have fewer behaviours than `JobLease`, and knowingly:
`Home` is the identity (one loop in a process, so that an answer of another loop under
the same id, the finding `job_queue_shared_id`, is not in them), and `gone` is empty (a write
that arrives after its loop's death leaves the row as a settle just before the death does).

### Idempotency

`claim_id` is the request, since every claim mints one. The handler is one step
that commits or not and answers anything. `Vanish` is a death or a dropped
connection at any point. `past` is history: the requests that came before the
row last expired, for a key is only a promise for 24 hours. A finite set of
requests ends, so the runs do not check deadlock.

### Refunds

A create is resolve, reserve and write, attempt row, call, answer. `late` is
history: the create took over 60 s to its attempt row, while a cancel may
take it for dead. `SettleSucceeded` and `SettleFailed` are transactions of
`settlement.rs` that nothing but tests calls yet; they are modelled as what a
caller that knows the rail's answer does. Metadata, rendered events and fees
are left out.

### Webhooks

One `customer.*` event, its drain job, one delivery and one job per endpoint,
claim loops, the backstop (a read, and later an enqueue), and the erasure
(`redact_stored_copies`), which rewrites the body and clears digests.
`owed_delivery` is two reads, `LoadDelivery` and `Render`. A body is "whole" or
"redacted"; a digest is the body it is of. Time is left out: a job that waits
for its rung is one that is queued. `lapsed` is history: the deliveries whose
handler outlasted its lease. `signed` is history too: the bodies that were signed for an
endpoint and handed to the client, whether or not they left, since an attempt that
failed at DNS or at the connection records the digest as well (`record_no_response`). Left out: signatures, the excerpt of an answer,
what makes the egress guard refuse.

### Checkout and Invoices

`Checkout` has the intents of an invoice, with one charge each, and the sessions
that drive them. What a charge goes through until the worker has an answer is
`Payment`; here it is live, and then `SettlePaid` or `SettleFailed`. A session is asked
for by reads that may be stale (`AskForSession`, `prepare_create`) and inserted
later (`CreateSession`), where the unique index decides. `newest` is what the
gate of a confirm reads. A cancel is a snapshot and a commit, as in `Payment`.

`Invoices` extends it with the document. A bill is the amount of each line, so
that a total can be compared with the lines it was summed from; `edit` is the
transaction that writes a line (line, sum, commit), `fin` a finalize between its
statements (read, number, sum, commit). `next` and `holder` are the row of
`invoice_number_sequences` and who has it locked; `TakeElsewhere` stands for the
other invoices of the merchant, and for a finalize of this one when it is no draft any more (a
number is taken and given back; the request has no other effect). `pay` follows a hosted pay request over its three
transactions; one that crashes is one that takes no further step. `writeoff` is the
write-off between its check and its statement. A settlement reads the invoice
(`ReadInvoice`, `invoice_snapshot`) and flips it later (`FlipInvoice`). The `processing` of an
intent stands for `requires_action` too, and time is a session that may pass its
horizon at any moment.

### Erasure

One customer, one intent, and who has which row locked: `exclusive` and `sharing`
are `FOR UPDATE` and `FOR SHARE` of the customer, `held` is the lock of the intent.
Every step of an erasure is one statement of `erase_in_tx`: `Branch`
(`UNREFERENCED`), `FindEvents`, `FindAnswers`, `FindCharges`, `ReachIntent` and `ClearIntent` (the
snapshot of the statement on intents, and the comparison of the row it has waited
for), `CommitErasure`. It writes at its commit what its statements found. `found`
is what each has found so far. The writers are `Update` (row, event, then the
stored answer under `erased_under_share_lock`), `Payment` (the same with a reference) and
a session create, which shares the customer first and claims the intent second
(`claim_intent_customer`). Rivals are sessions for another customer. `late` is
history: a charge written after an erasure had looked, or for a customer erased
before, which nothing in the code redacts and no property claims.

### SigningKeys and TokenValidator

A row is absent, active, or retired with the time `left` until it is no longer
published; `live` is how long the youngest token of a key still verifies. There is
no absolute clock: `Tick` moves every timer. A replica loads its key and
computes when the previous one is to end (`Load`), waits for the lock and reads
the active key (`LockRotation`), and decides (`Activate`). `Boot` bounds an announcement
and `Drain` how long a replica signs with a key another has retired; the code has
neither, the rollout of `docs/runbooks/rotate-signing-key.md` does, and
`TimesAssumption` is what `ROTATION_OVERLAP` is documented to cover. The operator may
replace the Secret at any time, by an old key too: `Load` takes any key. `rotate_signing_key`, which only
tests call, is the second half of `Activate`.

`TokenValidator` is the validator of a replica. `at` says which of the three look-ups a
request is in: `is_published_kid`, the first of `get_key`, or the one after its
forced refresh. `guard` is the write guard, held across the GET (`TakeGuard` reads the rows,
`Store` caches them), and a reader waits for it. The entry's age and the permit's interval are
not compared with the life of a key, so they end at any time. A token is genuine
if it was signed and still verifies; signatures and claims are left out.

## 3. Runs

| Run | Instance | Shows |
| --- | --- | --- |
| `payment` | two-step and hosted-page rails, one confirm, two loops, one death, a streak of 2 denials | the four settled rows agree (`SettledTogether`); money is neither written off nor invented (`MoneyIsAccountedFor`); jobs are parked for cause only, a resubmission after it was spent (`ParkedForCause`); the rail holds nothing without a trace (`NothingUnrecorded`); an order whose page was handed over is never failed as a dead order (`HandedOverIsNotDead`); refinement of `PaymentPromise` (`KeepsThePromise`) |
| `payment_liveness` | push and hosted-page rails, which may be misconfigured, one confirm, one loop, one death | what the rail holds is recorded in the end (`AnswersAreRecorded`); no live charge is forgotten (`NoChargeIsForgotten`) |
| `job_queue` | two rows, two processes of one loop, stalls, fairness | one loop per row outside processes that stalled (`WorkersHoldTheirLease`); the fence (`FenceIsTheHolder`); a row that is due, or held by a process that died, is claimed by a living one, unless a handler stalled (`DueIsClaimed`); refinement of `JobLease` (`KeepsTheLease`) |
| `idempotency` | two retries and a request with another body, stalls | replays are the same request's (`ReplayIsTheSameRequest`); one runs and one is told yes (`OneRuns`, `OneAcknowledged`); no ABA (`ForeignClaimsUntouched`); claims end (`ClaimsEnd`) |
| `refunds` | two refunds of a capture of 3, partial refunds | the counters are the sums (`BooksAgree`); the rail gets at most the capture (`NeverMoreThanCaptured`); an unpaid end is kept (`PromiseKept`); a refund that died early is released (`NeverAskedIsReleased`) |
| `webhooks` | one endpoint, two loops, ladder of one rung, two fan-out tries, three troubles | fan-out is whole (`FannedOutWhole`); what is owed has a job (`OwedHasJob`); digests are of what was signed (`DigestWasSigned`); the ladder (`OnTheLadder`); deliveries end (`EveryDeliveryEnds`) |
| `invoices` | two pay requests and intents, two sessions, one line, one finalize, two numbers | an invoice is paid once (`PaidOnce`); money taken for it closes it (`PaidIntentClosesInvoice`); numbers have neither gap nor duplicate (`NumbersHaveNoGap`); an issued amount stays (`IssuedAmountIsFrozen`); sessions end (`OpenSessionEnds`) |
| `erasure` | one of each: update, out-of-band payment, deletion, sweep, session, session of another customer | nothing the erasure is to find is left or added (`NothingLeft`); nobody in use is erased (`IdleIsSpared`); another customer's decline is spared (`OthersAreSpared`); no intent is given to the erased (`ErasedIsNotClaimed`); no lock cycle, and every erasure ends (`ErasureEnds`) |
| `signing_keys` | two keys, two replicas, two requests; a token lives one tick, and so do `Boot` and `Drain` | what verifies is published (`KeyOutlivesItsTokens`); announcements do not fail on each other (`ReplicasBootTogether`); a retired key stays retired (`RetiredForGood`); a genuine token is not told that its key does not exist after the forced refresh (`GenuineIsKnown`) |

Three runs are expected to be violated. Each checks a sentence of the repository,
quoted in "findings":

| Run | Sentence | What happens |
| --- | --- | --- |
| `job_queue_shared_id` | `docs/reference/vpay-worker.md:113`: a worker whose lease was reaped discards its answer | its `worker_id` is that of its process: if another loop of that process holds the row by then, the late answer settles it |
| `webhooks_erasure` | `docs/flows/webhooks/outbox-transactions.md:101`: after an erasure the next attempt sends the redacted body | an erasure between the two reads of `owed_delivery`, or between a post and the `COALESCE` of its record, leaves a digest of the old body beside the new one: the job is dead-lettered |
| `invoice_lines` | `vpay-db/src/invoices.rs:1517-1518`: no instant at which an open invoice's total does not match its lines | a line whose sum matched nothing, because a finalize committed first, is committed all the same; and a finalize that waits for the row of an edited draft writes the sum of its older snapshot |

### Disagreements without a run

These were met while modelling and are left to the reader; each follows from the
states of a run above.

* `vpay-api/src/v1/payment_intents.rs:2015` calls the abandoned half of
  `persist_submitted` unreachable. A cancel whose snapshot precedes the confirm's
  charge and whose commit follows it withdraws the intent under the confirm, and
  the confirm then takes that half: the second disjunct of `PersistSubmitted`,
  reached in `payment` with the charge still submitting.
* `docs/flows/merchant-auth/resource-contract.md:35` says that a network retry can
  never double-create. An answer of 500 after the handler committed gives the key
  back (`finish`, `payment_intents.rs:3218`), and the retry creates again. `OneAcknowledged`
  is what does hold: one of them is told yes.
* `vpay-db/src/refunds.rs:689-699` says that the age predicate of a cancel closes the window between
  the commit of a refund and its attempt row. It closes it for a create that takes less than
  the 60 s of `CREATE_IN_FLIGHT_WINDOW_SECONDS`: nothing holds a create to them, and a slower one asks the
  rail for a refund that was canceled and whose reservation is free again. `late` is that history,
  and `NeverMoreThanCaptured` and `PromiseKept` are about the other creates.
* `vpay-db/src/customers.rs:1659` says that an intent's customer can only change
  while the intent has no charge, and so leaves the statement on charges without
  the guard that the one on intents has. `claim_intent_customer` does not look at
  charges, and the read of `prepare_create` is of an earlier transaction: an erasure
  that reaches the intent through an old session can redact the charge of an
  intent that has meanwhile been given to another customer.
* `vpay-api/src/v1/invoices.rs:657-664` says that neither ordering of a write-off and a
  pay request leaves an invoice both paid and written off. The check that nobody
  is paying and the statement that writes the invoice off are two statements: an
  intent attached in between is paid on an uncollectible invoice, which
  `PaidIntentClosesInvoice` therefore admits.
* `vpay-api/src/resource_auth.rs:504-507` says that the JWKS is polled once per refresh interval
  plus once per `UNKNOWN_KID_REFRESH_INTERVAL` on a kid that is not recognized. `known_kids`
  is never reduced: a kid that was remembered and whose publication has ended
  passes without the permit, and each look-up for it misses and forces a refresh.
* `vpay-api/src/resource_auth.rs:59-61` says that every key in the cached document is unaffected by the
  throttle. The check of the document and the claim of the permit are two
  steps: a request that missed is refused although another has stored its key
  between the two. `GenuineIsKnown` is therefore about requests that reach the refresh.
* With two Secrets in quick succession, a replica that loaded the older one may
  announce it last and retire the newer. The replicas of the newer key that
  start afterwards are refused, as a rollback is; `RetiredForGood` is what holds.

### Bounds, and why they are enough

* **One intent, one key, one captured intent, one event, one invoice, one
  customer.** Their transactions touch the rows of one such object; the theorems
  hold for any number of requests, loops and rows.
* **Two loops** are the least that race, and a third only repeats a race of two
  on one charge. `job_queue_shared_id` has three, for the fence needs two in one
  process and one in another; `job_queue` has two, and `OneWorkerPerJob` and
  `LateAnswersAreDiscarded` are theorems for any number.
* **Two intents** in `invoices`: a second payment needs two, and a third attaches
  under the same condition. A line and a finalize there; two lines in `invoice_lines`, where the
  sums race. Two numbers: one for another document, one for this.
* **One of each** in `erasure`: a writer, a second writer, two erasers and two
  sessions are every pair that meets at a row.
* **One confirm** in the payment runs: a later one is refused by the same row; the
  theorems on the rows are for any number.
* **One death** in the payment runs: every kill point is a state where it may
  come, and a second death only adds another recovery from the same rows.
* **Two keys, two replicas, two requests** in `signing_keys`: a rotation and its rollback, an
  announcement against another or against a signer, a store against a forced
  refresh. `FewAreBusy` lets three of the four be up at a time: the replicas
  and the requests only meet in the rows. Every property of the run is a theorem without it.
* **A streak of 2** tells a first denial from the one that resubmits.
* **A capture of 3 and two refunds**: parts, the rest, and two that do not fit.
* **One endpoint, three troubles** in `webhooks`: deliveries share nothing but the
  body; two failed tries abandon a fan-out and a third trouble counts one too
  many. That no endpoint is left out is proved for any set of them.

Every property has a mutant, a plausible bug in a mapped definition, that breaks
it under the run's own bounds; the variants stand next to what they vary, under
"Variant:" comments.

### Fairness

* Requests and claim loops go on until they die (WF on their steps): a task that
  is scheduled and a statement that returns.
* Claims are SF: rows are claimed in the order of `run_at`, so one that is
  claimable again and again is claimed. `QueryRail` is SF: a rail that is asked again
  and again answers in the end. The settling write of `JobQueue` is SF: the
  database does not fail it for ever.
* `ReapLease` and `ScanLiveCharges` are WF: both are jobs or tasks that re-arm
  in every worker. The backstop of deliveries needs no fairness at all.
* Time passes (`TimeComes`, `ChargeAges`, `Expire`, `Age`), and the rail gives
  every order up in the end (`Rail`).
* `NeverAskedIsReleased` assumes a merchant that persists in canceling: nothing
  in vpay releases that reservation by itself.
* In `Invoices` the clock advances and the sweep of sessions returns, and the poll
  of a live charge ends in an answer (WF); nothing is assumed of merchants and
  payers. In `Erasure` a transaction that has begun takes its next statement when
  no lock is in its way (WF); nobody need begin one.
* `payment_liveness` assumes ~Stalls, and `DueIsClaimed` is about runs in which no
  handler stalls: one that never ends under its lease can starve a row.

`CHECK_DEADLOCK FALSE` is said where every request ends, every charge settles
or every refund ends, and nothing is left to do; `JobQueue` and `Webhooks` do
check deadlock.

## 4. Theorems

Each is proved from an inductive invariant that says what the programme counters
imply about the rows.

* **`PaymentProofs`.** `TypeCorrect`, `SettlesTogether`, `TellsOneEnding`,
  `ChargesMoveForward`, `EndingsAreFinal`, for any intents, requests and loops,
  any rail, *with stalls and misconfiguration*: the compare-and-swaps alone give
  these. `IInv` is `TypeOK`, the books (`Books`: which pairs of intent and charge states occur, and what
  was posted and told in each), that jobs and loops only exist for charges that do,
  and that what a loop saw was live. Without the pairing of states a settlement
  could be told after a cancel.

  The properties that compare the database with the rail need one invariant per
  question, each a conjunct for every intent, and one fact that keeps the proofs small: *a
  step concerns one intent, and leaves every other one `Still`* (`StepIsLocal`).
  `Traced` says what has been written down at each counter of a confirm or a handler before
  the rail is called; from it `WrittenHolds` and `NothingIsUnrecorded`, with stalls and deaths.
  `Alone` says that one process at a time may call the rail for an intent (one confirm in the
  window and only while the charge is young, no resubmission before it is mature, and every
  handler on a row it holds), and `Knows` what a charge, a page or an answer in hand says truly of the
  rail; from them `MoneyAccounted` and `HandedOverNotDead`. These two assume ~Stalls, which is
  what the 60 s window and the lease assume: with stalls they are false, since a confirm
  that outlasts the window can submit an order that recovery has failed. `ParkedWell` says
  what a dead letter, or a handler about to write one, is about; from it `ParksForCause`,
  which assumes ~Misconfigured since an adapter that refuses to run parks its jobs whatever
  the charge. `PromiseIsKept` is the refinement of `PaymentPromise`, for the same ~Stalls: a step
  at an intent ends it once, with the money, the posting and the event in it, or
  leaves what a merchant may see alone. `PaymentKeepsToTheQueue` is the refinement of
  `JobLease`, with stalls.
* **`JobQueueProofs`.** `QueueInv` says that a held row is due and that a loop at
  work in a process that never stalled is the last claimer of its row, on a
  fresh lease. From it `OneWorkerPerJob`, `LateAnswersAreDiscarded`,
  `HeldRowsStayDue`, `ParkedForGood`, for any rows, loops and processes. `QueueIsLeased` is the
  refinement of `JobLease`, with stalls or without: beyond `QueueInv` it needs to know that
  a loop at work is in a live process (`LeaseInv`).
  `ParkedForGood` (a dead letter stays one) is a theorem only, and in no run.
* **`IdempotencyProofs`.** `IInv` says whose row it is: a request that runs or was
  told yes, and came after the row last expired, is the row's claim. From it
  `KeyTypes`, `ReplaysAreFaithful`, `OneHandlerRuns`, `OneIsAcknowledged`,
  `LateRequestsTouchNothing` and `StoredForADay`, whether or not requests outlast the
  24 hours.
* **`RefundsProofs`.** `RefundInv` ties how far a create has come to its row, its attempt
  and the rail. `RefundTypes`, `NoMoneyForACanceledRefund`, `OneEnd`. `CountersAreSums` and
  `NoMoreThanCaptured` are about sums over any set of refunds. A sum is a fold over a finite
  set: that it grows by a row's amount when the row joins is first proved for the
  set at hand, by taking a least set that fails it in the order of strict inclusion, which is
  well founded on finite sets. That only finitely many refunds are ever written is part of
  the invariant, for `Refunds` may be infinite.
* **`WebhooksProofs`.** `OutboxInv` says of every loop at a delivery that the event
  was fanned out, that what it recorded was signed, that it finishes nothing
  that is owed, and, if no lease lapsed, that it holds the job and the row is as
  it was read. From it the five safety properties, for any endpoints, loops,
  ladder and number of troubles. That `OwedHasJob` is a theorem shows that the
  backstop is redundant while jobs are deleted by the code alone. `OutboxKeepsToTheQueue` is the
  refinement of `JobLease`.

* **`InvoicesProofs`.** `Numbering` says what the lock of the sequence keeps: with
  nobody at it each number below `next` is on one document, and with somebody at
  it the last one is theirs alone. From it `NumbersAreDense`. `Paying` says what
  `NO_LIVE_INTENT` keeps: an intent that can still take money is the one the
  invoice names, an invoice whose intent can take money is open or written off, and
  a settlement that read no open invoice will find none. Without the last, a
  payment could settle beside an open invoice. From it `InvoicesArePaidOnce` and
  `PaymentsCloseInvoices`. `IssuedAmountsAreFrozen` and `SessionsEndOnce` need the types
  only. All are for any intents, sessions, lines and finalizes.
* **`ErasureProofs`.** `ErasureInv` says what each row lock keeps still: an
  erasure that has the customer is alone with a row that is whole (`Guarded`), who
  claims the intent has it locked (`Claimed`), and what an erasure has found is all there is
  to find (`Findings`). From it `NoCopyIsLeft`, `UsedAreSpared`, `OthersKeepTheirs` and
  `TheErasedGetNoIntent`, for any requests, erasures and sessions.

* **`SigningKeysProofs`.** The inductive invariant says that at most one key is
  active and the lock's holder has read it truly; that a retired key has at least
  as much left as its tokens, with what its slowest signer may still add; and that a
  document read under the guard holds every key whose tokens verify. From it
  `TokensAreVerifiable`, `AnnouncementsDoNotClash`, `RetirementIsFinal` and
  `GenuineTokensFindTheirKey`, for any keys, replicas, requests and times that satisfy
  `TimesAssumption` (TTL + Boot + Drain <= Overlap).

The type theorems (`TypeCorrect`, `QueueTypes`, `KeyTypes`, `RefundTypes`, `InvoiceTypes`,
`ErasureTypes`, `SigningTypes` among them) hold for every instance, so the runs do not repeat them.

Assumptions are the named `ConstantsAssumption` of each module,
`InvoiceAssumption`, `NoneAssumption` and `RequestsAssumption`: no name clashes, and the types of
the constants; and `TimesAssumption`.

Only model-checked:

* Every liveness property, for fairness and ENABLED are out of the prover's reach:
  `AnswersAreRecorded`, `NoChargeIsForgotten`, `DueIsClaimed`, `ClaimsEnd`, `NeverAskedIsReleased`,
  `EveryDeliveryEnds`, `OpenSessionEnds` and `ErasureEnds`.
* The three runs that are violated: what they refute is refuted on an instance.

Every invariant, action property and refinement of a passing run is a theorem.

## 5. Not modelled, and the plan

In this order:

1. The other direction of the queue's composition: that the queue in `Payment` and in
   `Webhooks` allows every behaviour of `JobLease` that one loop per process can show. It is argued
   above, and not checked.
2. What the liveness properties rest on, as theorems without ENABLED: that a handler at work
   is always in a state in which the guard of one of its steps holds.
3. Pure operators: routing decisions, money, `poll_delay`, `delivery_delay`, the
   balance of ledger postings, checked against reference definitions.

Left out of modules that are there:

* The excerpt of an endpoint's answer, which a delivery records unredacted after
  an erasure (`webhook_deliveries.rs:541`): bodies are whole or redacted, answers
  are not modelled.
* `pull_forward` of a row that is held: the hold is skipped as in the code, and
  what the holder then writes is not compared with what it was pulled for.
* Two locks taken crosswise by the deletion of a draft and the edit of a line
  (invoice row and item rows): `DeleteDraft` waits for the edits, and PostgreSQL
  resolves the cycle by failing one of the two.
* Redaction of refunds, the descriptions and due dates of a draft, the overdue reads,
  metadata, rendered events, fees, the return trip of the payer.

* Authorization codes, client assertions, signatures and claims of tokens, and the
  validators of federated issuers.

Not planned: sign-in, envelopes, rate limits, merchant and console keys
(authentication of people and clients, single-row statements); the read side and
the renderings; adapters' wire formats and token caches (a rail is what its
caller reads); configuration, boot, the server binary; front ends, SDKs,
examples, deployment. `PROJECT.json` lists each with its reason.
