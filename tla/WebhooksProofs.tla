--------------------------- MODULE WebhooksProofs ---------------------------
(* What the drain, the fence of a delivery job and the WHERE of its records  *)
(* guarantee, for any number of endpoints and loops, any ladder, and any      *)
(* number of troubles.                                                        *)
EXTENDS Webhooks, TLAPS

\* A delivery that is not there has no past.
Unborn ==
  \A e \in Endpoints :
    delivery[e].state = "none" => delivery[e].attempt = 0 /\ delivery[e].digest = "none"

\* The attempts of a delivery whose handlers kept their leases.
OnRung(e) ==
  /\ Owed(e) => delivery[e].attempt <= Rungs
  /\ delivery[e].attempt <= Rungs + 1
  /\ delivery[e].attempt = Rungs + 1 => delivery[e].state = "exhausted"

\* What a loop in the state r may rely on while it is at the delivery e: the
\* event was fanned out; what it recorded or is about to was signed; and if no
\* lease of e lapsed, the loop holds it and the row is as it was read.
Fine(w, r) ==
  \A e \in Endpoints : r.pc # "idle" /\ r.job = e =>
    /\ fanout = "done"
    /\ r.pc = "record" /\ r.ans \in {"ok", "fail"} => r.body \in signed[e]
    /\ r.pc = "settle" /\ r.will = "finish" => ~Owed(e)
    /\ e \notin lapsed => job[e] = w
    /\ e \notin lapsed /\ r.pc \in {"render", "post", "record"}
         => Owed(e) /\ r.seen = delivery[e].attempt

\* An event is abandoned at the last of its tries.
TriesLeft == fanout = "pending" => tries < FanOutTries

OutboxInv ==
  /\ TypeOK
  /\ TriesLeft
  /\ FannedOutWhole
  /\ OwedHasJob
  /\ DigestWasSigned
  /\ Unborn
  /\ \A e \in Endpoints \ lapsed : OnRung(e)
  /\ \A e \in Endpoints : job[e] # "absent" \/ e \in due => fanout = "done"
  /\ \A w \in Runners : Fine(w, run[w])

-----------------------------------------------------------------------------
(* The states of a loop.                                                    *)

LEMMA Returned ==
  ASSUME NEW r \in Loop, NEW v \in Will
  PROVE  LET s == [Idle EXCEPT !.pc = "settle", !.job = r.job, !.will = v]
         IN  s \in Loop /\ s.pc = "settle" /\ s.job = r.job /\ s.will = v
BY DEF Loop, Idle, PC, Digest, Body, Answer, Will, Jobs

LEMMA Moved ==
  ASSUME NEW r \in Loop, NEW c \in PC
  PROVE  LET s == [r EXCEPT !.pc = c]
         IN  s \in Loop /\ s.pc = c /\ s.job = r.job
BY DEF Loop

LEMMA Loaded ==
  ASSUME NEW r \in Loop, NEW d \in [state: State, attempt: Nat, digest: Digest]
  PROVE  LET s == [r EXCEPT !.pc = "render", !.seen = d.attempt, !.digest = d.digest]
         IN  s \in Loop /\ s.pc = "render" /\ s.job = r.job /\ s.seen = d.attempt
BY DEF Loop, PC

LEMMA Rendered ==
  ASSUME NEW r \in Loop, NEW b \in Body
  PROVE  LET s == [r EXCEPT !.pc = "post", !.digest = "none", !.body = b]
         IN  s \in Loop /\ s.pc = "post" /\ s.job = r.job /\ s.seen = r.seen
BY DEF Loop, PC, Digest

LEMMA Posted ==
  ASSUME NEW r \in Loop, NEW a \in Answer
  PROVE  LET s == [r EXCEPT !.pc = "record", !.ans = a]
         IN  /\ s \in Loop /\ s.pc = "record" /\ s.job = r.job /\ s.seen = r.seen
             /\ s.body = r.body /\ s.ans = a
BY DEF Loop, PC

LEMMA Fresh ==
  /\ Idle \in Loop
  /\ \A c \in PC, j \in Jobs :
       LET r == [Idle EXCEPT !.pc = c, !.job = j]
       IN  r \in Loop /\ r.pc = c /\ r.job = j
BY DEF Loop, Idle, PC, Digest, Body, Answer, Will, Jobs

\* A step of a loop that leaves the event, the deliveries and the jobs alone.
LEMMA LoopStep ==
  ASSUME OutboxInv, NEW w \in Runners, NEW r \in Loop,
         run' = [run EXCEPT ![w] = r],
         UNCHANGED <<rows, job, due, lapsed>>,
         troubles' \in 0..MaxTroubles,
         signed' \in [Endpoints -> SUBSET Body],
         \A e \in Endpoints : signed[e] \subseteq signed'[e],
         Fine(w, r)'
  PROVE  OutboxInv'
<1>1. TypeOK'
  BY DEF OutboxInv, TypeOK, rows
<1>2. TriesLeft' /\ FannedOutWhole' /\ OwedHasJob' /\ DigestWasSigned' /\ Unborn'
  BY DEF OutboxInv, TriesLeft, FannedOutWhole, OwedHasJob, DigestWasSigned, Unborn, Owed, rows
<1>3. /\ \A e \in Endpoints \ lapsed' : OnRung(e)'
      /\ \A e \in Endpoints : job'[e] # "absent" \/ e \in due' => fanout' = "done"
  BY DEF OutboxInv, OnRung, Owed, rows
<1>4. ASSUME NEW v \in Runners PROVE Fine(v, run[v])'
  <2>1. CASE v = w
    <3>1. run'[v] = r
      BY <2>1 DEF OutboxInv, TypeOK
    <3> QED BY <2>1, <3>1 DEF Fine, Owed
  <2>2. CASE v # w
    <3>1. run'[v] = run[v] /\ Fine(v, run[v])
      BY <2>2 DEF OutboxInv, TypeOK
    <3> QED BY <3>1 DEF Fine, Owed, rows
  <2> QED BY <2>1, <2>2
<1> QED BY <1>1, <1>2, <1>3, <1>4 DEF OutboxInv

LEMMA Troubled ==
  ASSUME OutboxInv
  PROVE  /\ Trouble => troubles' \in 0..MaxTroubles
         /\ UNCHANGED troubles => troubles' \in 0..MaxTroubles
BY ConstantsAssumption DEF OutboxInv, TypeOK, Trouble

\* What a loop that goes on without touching a row relies on still holds.
LEMMA QuietStep ==
  ASSUME OutboxInv, NEW w \in Runners, NEW r \in Loop,
         run' = [run EXCEPT ![w] = r],
         UNCHANGED <<rows, job, due, lapsed, signed>>,
         Trouble \/ UNCHANGED troubles,
         Fine(w, r)
  PROVE  OutboxInv'
<1>1. troubles' \in 0..MaxTroubles
  BY Troubled
<1>2. signed' \in [Endpoints -> SUBSET Body] /\ \A e \in Endpoints : signed[e] \subseteq signed'[e]
  BY DEF OutboxInv, TypeOK
<1>3. Fine(w, r)'
  BY DEF Fine, Owed, rows
<1> QED BY <1>1, <1>2, <1>3, LoopStep

\* A loop that gives its job back, if it is not to be finished while it is owed.
LEMMA ReturnStep ==
  ASSUME OutboxInv, NEW w \in Runners, NEW v \in Will, run[w].pc # "idle", Return(w, v),
         UNCHANGED <<rows, job, due, lapsed, signed>>,
         Trouble \/ UNCHANGED troubles,
         v = "finish" => \A e \in Endpoints : run[w].job = e => ~Owed(e)
  PROVE  OutboxInv'
<1> DEFINE r == [Idle EXCEPT !.pc = "settle", !.job = run[w].job, !.will = v]
<1>1. run[w] \in Loop
  BY DEF OutboxInv, TypeOK
<1>2. r \in Loop /\ r.pc = "settle" /\ r.job = run[w].job /\ r.will = v
  BY <1>1, Returned
<1>3. Fine(w, r)
  BY <1>2 DEF OutboxInv, Fine
<1> QED BY <1>2, <1>3, QuietStep DEF Return

-----------------------------------------------------------------------------
(* The steps of a loop that touch no row.                                   *)

LEMMA LoadPageKeeps == ASSUME OutboxInv, NEW w \in Runners, LoadPage(w) PROVE OutboxInv'
<1>1. run[w] \in Loop /\ run[w].pc = "load" /\ run[w].job = Drain /\ Drain \notin Endpoints
  BY ConstantsAssumption DEF OutboxInv, TypeOK, LoadPage, At
<1>2. CASE Go(w, "fan")
  <2> DEFINE r == [run[w] EXCEPT !.pc = "fan"]
  <2>1. r \in Loop /\ r.job = Drain
    BY <1>1, Moved DEF PC
  <2>2. run' = [run EXCEPT ![w] = r]
    BY <1>2 DEF Go, OutboxInv, TypeOK
  <2>3. Fine(w, r)
    BY <1>1, <2>1 DEF Fine
  <2> QED BY <2>1, <2>2, <2>3, QuietStep DEF LoadPage
<1>3. CASE Return(w, "again")
  BY <1>1, <1>3, ReturnStep DEF LoadPage, Will
<1> QED BY <1>2, <1>3 DEF LoadPage

LEMMA FanOutFailsKeeps == ASSUME OutboxInv, NEW w \in Runners, FanOutFails(w) PROVE OutboxInv'
<1> DEFINE r == [run[w] EXCEPT !.pc = "count"]
<1>1. run[w] \in Loop /\ run[w].job = Drain /\ Drain \notin Endpoints
  BY ConstantsAssumption DEF OutboxInv, TypeOK, FanOutFails, At
<1>2. r \in Loop /\ r.job = Drain
  BY <1>1, Moved DEF PC
<1>3. run' = [run EXCEPT ![w] = r]
  BY DEF FanOutFails, Go, OutboxInv, TypeOK
<1>4. Fine(w, r)
  BY <1>1, <1>2 DEF Fine
<1> QED BY <1>2, <1>3, <1>4, QuietStep DEF FanOutFails

LEMMA LoadDeliveryKeeps ==
  ASSUME OutboxInv, NEW w \in Runners, NEW e \in Endpoints, LoadDelivery(w, e)
  PROVE  OutboxInv'
<1>1. run[w] \in Loop /\ run[w].pc = "load" /\ run[w].job = e /\ Fine(w, run[w])
  BY DEF OutboxInv, TypeOK, LoadDelivery, At
<1>2. CASE Owed(e)
  <2> DEFINE r == [run[w] EXCEPT !.pc = "render", !.seen = delivery[e].attempt,
                                 !.digest = delivery[e].digest]
  <2>1. delivery[e] \in [state: State, attempt: Nat, digest: Digest]
    BY DEF OutboxInv, TypeOK
  <2>2. r \in Loop /\ r.pc = "render" /\ r.job = e /\ r.seen = delivery[e].attempt
    BY <1>1, <2>1, Loaded
  <2>3. run' = [run EXCEPT ![w] = r]
    BY <1>2 DEF LoadDelivery, OutboxInv, TypeOK
  <2> HIDE DEF r
  <2>4. Fine(w, r)
    BY <1>1, <1>2, <2>2 DEF Fine
  <2> QED BY <2>2, <2>3, <2>4, QuietStep DEF LoadDelivery
<1>3. CASE ~Owed(e)
  BY <1>1, <1>3, ReturnStep DEF LoadDelivery, Will
<1> QED BY <1>2, <1>3

LEMMA RenderKeeps ==
  ASSUME OutboxInv, NEW w \in Runners, NEW e \in Endpoints, Render(w, e)
  PROVE  OutboxInv'
<1>1. run[w] \in Loop /\ run[w].pc = "render" /\ run[w].job = e /\ Fine(w, run[w])
  BY DEF OutboxInv, TypeOK, Render, At
<1>2. CASE run[w].digest \in {"none", data}
  <2> DEFINE r == [run[w] EXCEPT !.pc = "post", !.digest = "none", !.body = data]
  <2>1. r \in Loop /\ r.pc = "post" /\ r.job = e /\ r.seen = run[w].seen
    BY <1>1, Rendered DEF OutboxInv, TypeOK
  <2>2. run' = [run EXCEPT ![w] = r]
    BY <1>2 DEF Render, OutboxInv, TypeOK
  <2>3. Fine(w, r)
    BY <1>1, <2>1 DEF Fine
  <2> QED BY <2>1, <2>2, <2>3, QuietStep DEF Render
<1>3. CASE Return(w, "park")
  BY <1>1, <1>3, ReturnStep DEF Render, Will
<1> QED BY <1>2, <1>3 DEF Render

LEMMA PostKeeps ==
  ASSUME OutboxInv, NEW w \in Runners, NEW e \in Endpoints, PostNothing(w, e) \/ Post(w, e)
  PROVE  OutboxInv'
<1>1. run[w] \in Loop /\ run[w].pc = "post" /\ run[w].job = e /\ Fine(w, run[w])
  BY DEF OutboxInv, TypeOK, PostNothing, Post, At
<1>2. PICK a \in Answer : /\ run' = [run EXCEPT ![w].pc = "record", ![w].ans = a]
                          /\ a \in {"ok", "fail"} => run[w].body \in signed'[e]
  BY DEF PostNothing, Post, Answer, OutboxInv, TypeOK
<1>4. PICK r \in Loop : /\ run' = [run EXCEPT ![w] = r]
                        /\ r.pc = "record" /\ r.job = e /\ r.seen = run[w].seen
                        /\ r.body = run[w].body /\ r.ans = a
  <2> DEFINE s == [run[w] EXCEPT !.pc = "record", !.ans = a]
  <2>1. /\ s \in Loop /\ s.pc = "record" /\ s.job = e /\ s.seen = run[w].seen
        /\ s.body = run[w].body /\ s.ans = a
    BY <1>1, Posted
  <2>2. run' = [run EXCEPT ![w] = s]
    BY <1>2 DEF OutboxInv, TypeOK
  <2> QED BY <2>1, <2>2
<1>5. signed' \in [Endpoints -> SUBSET Body] /\ \A f \in Endpoints : signed[f] \subseteq signed'[f]
  <2>1. CASE PostNothing(w, e)
    BY <2>1 DEF PostNothing, OutboxInv, TypeOK
  <2>2. CASE Post(w, e)
    <3>1. run[w].body \in Body
      BY <1>1 DEF Loop
    <3> QED BY <2>2, <3>1 DEF Post, OutboxInv, TypeOK
  <2> QED BY <2>1, <2>2
<1>6. UNCHANGED <<rows, job, due, lapsed, troubles>>
  BY DEF PostNothing, Post
<1>7. Fine(w, r)'
  BY <1>1, <1>2, <1>4, <1>6 DEF Fine, Owed, rows
<1>8. troubles' \in 0..MaxTroubles
  BY <1>6 DEF OutboxInv, TypeOK
<1> QED BY <1>4, <1>5, <1>6, <1>7, <1>8, LoopStep

LEMMA FalterKeeps == ASSUME OutboxInv, NEW w \in Runners, Falter(w) PROVE OutboxInv'
<1>1. run[w].pc # "idle"
  BY DEF Falter
<1> QED BY <1>1, ReturnStep DEF Falter, Will

LEMMA SetDownKeeps ==
  ASSUME OutboxInv, NEW w \in Runners, Crash(w) \/ \E j \in Jobs : SettleNothing(w, j)
  PROVE  OutboxInv'
<1>1. Fine(w, Idle)
  BY DEF Fine, Idle
<1> QED BY <1>1, Fresh, QuietStep DEF Crash, SettleNothing

-----------------------------------------------------------------------------
(* The drain's writes.                                                      *)

\* What a loop at the drain job is in, and comes back with, concerns no delivery.
LEMMA DrainLoop ==
  ASSUME OutboxInv, NEW w \in Runners, NEW c, At(w, Drain, c), c # "idle", Return(w, "again")
  PROVE  \E r \in Loop : run' = [run EXCEPT ![w] = r] /\ r.job = Drain
<1> DEFINE r == [Idle EXCEPT !.pc = "settle", !.job = run[w].job, !.will = "again"]
<1>1. run[w] \in Loop /\ run[w].job = Drain
  BY DEF OutboxInv, TypeOK, At
<1>2. r \in Loop /\ r.job = Drain
  BY <1>1, Returned DEF Will
<1> QED BY <1>2 DEF Return

LEMMA CountFailureKeeps == ASSUME OutboxInv, NEW w \in Runners, CountFailure(w) PROVE OutboxInv'
<1>1. PICK r \in Loop : run' = [run EXCEPT ![w] = r] /\ r.job = Drain
  BY DrainLoop DEF CountFailure
<1>2. /\ fanout' \in {"pending", "done", "failed"}
      /\ tries' \in 0..FanOutTries
      /\ (fanout' = "done") <=> (fanout = "done")
      /\ TriesLeft'
  <2>1. /\ tries \in 0..FanOutTries /\ FanOutTries \in Nat
        /\ fanout = "pending" => tries < FanOutTries
    BY ConstantsAssumption DEF OutboxInv, TypeOK, TriesLeft
  <2> QED BY <2>1 DEF CountFailure, OutboxInv, TypeOK, TriesLeft
<1>3. troubles' \in 0..MaxTroubles /\ UNCHANGED <<data, delivery, job, due, signed, lapsed>>
  BY Troubled DEF CountFailure
<1>4. TypeOK'
  BY <1>1, <1>2, <1>3 DEF OutboxInv, TypeOK
<1>5. FannedOutWhole' /\ OwedHasJob' /\ DigestWasSigned' /\ Unborn'
  BY <1>2, <1>3 DEF OutboxInv, FannedOutWhole, OwedHasJob, DigestWasSigned, Unborn, Owed
<1>6. /\ \A e \in Endpoints \ lapsed' : OnRung(e)'
      /\ \A e \in Endpoints : job'[e] # "absent" \/ e \in due' => fanout' = "done"
  BY <1>2, <1>3 DEF OutboxInv, OnRung, Owed
<1>7. ASSUME NEW v \in Runners PROVE Fine(v, run[v])'
  <2>1. CASE v = w
    BY <1>1, <2>1, ConstantsAssumption DEF Fine, OutboxInv, TypeOK
  <2>2. CASE v # w
    <3>1. run'[v] = run[v] /\ Fine(v, run[v])
      BY <1>1, <2>2 DEF OutboxInv, TypeOK
    <3> QED BY <1>2, <1>3, <3>1 DEF Fine, Owed
  <2> QED BY <2>1, <2>2
<1> QED BY <1>2, <1>4, <1>5, <1>6, <1>7 DEF OutboxInv

LEMMA FanOutOneKeeps == ASSUME OutboxInv, NEW w \in Runners, FanOutOne(w) PROVE OutboxInv'
<1>1. PICK r \in Loop : run' = [run EXCEPT ![w] = r] /\ r.job = Drain
  BY DrainLoop DEF FanOutOne
<1>2. UNCHANGED <<tries, data, due, troubles, signed, lapsed>>
  BY DEF FanOutOne
<1>3. CASE fanout # "pending"
  <2>1. UNCHANGED <<rows, job, due, lapsed>> /\ troubles' \in 0..MaxTroubles
    BY <1>2, <1>3 DEF FanOutOne, rows, OutboxInv, TypeOK
  <2>2. Fine(w, r)'
    BY <1>1, ConstantsAssumption DEF Fine
  <2>3. signed' \in [Endpoints -> SUBSET Body] /\ \A e \in Endpoints : signed[e] \subseteq signed'[e]
    BY <1>2 DEF OutboxInv, TypeOK
  <2> QED BY <1>1, <2>1, <2>2, <2>3, LoopStep
<1>4. CASE fanout = "pending"
  <2>1. \A e \in Endpoints : /\ delivery[e].state = "none" /\ job[e] = "absent"
                             /\ delivery[e].attempt = 0 /\ delivery[e].digest = "none"
    BY <1>4 DEF OutboxInv, FannedOutWhole, Unborn
  <2>2. fanout' = "done"
    BY <1>4 DEF FanOutOne
  <2>3. delivery' = [e \in Endpoints |-> [delivery[e] EXCEPT !.state = "pending"]]
    BY <1>4, <2>1 DEF FanOutOne
  <2>4. ASSUME NEW e \in Endpoints
        PROVE  /\ delivery'[e] \in [state: State, attempt: Nat, digest: Digest]
               /\ delivery'[e].state = "pending" /\ delivery'[e].attempt = 0
               /\ delivery'[e].digest = "none"
    <3>1. delivery[e] \in [state: State, attempt: Nat, digest: Digest]
      BY DEF OutboxInv, TypeOK
    <3>2. delivery'[e] = [delivery[e] EXCEPT !.state = "pending"]
      BY <2>3
    <3> QED BY <2>1, <3>1, <3>2 DEF State
  <2>5. /\ job' \in [Jobs -> {"absent", "queued", "parked"} \cup Runners]
        /\ \A e \in Endpoints : job'[e] = "queued"
    BY <1>4, <2>1 DEF FanOutOne, OutboxInv, TypeOK, Jobs
  <2>6. TypeOK'
    <3>1. delivery' \in [Endpoints -> [state: State, attempt: Nat, digest: Digest]]
      BY <2>3, <2>4
    <3>2. run' \in [Runners -> Loop]
      BY <1>1 DEF OutboxInv, TypeOK
    <3> QED BY <1>2, <2>2, <2>5, <3>1, <3>2 DEF OutboxInv, TypeOK
  <2>7. TriesLeft' /\ FannedOutWhole' /\ OwedHasJob' /\ DigestWasSigned' /\ Unborn'
    BY <2>2, <2>4, <2>5 DEF TriesLeft, FannedOutWhole, OwedHasJob, DigestWasSigned, Unborn, Owed
  <2>8. /\ \A e \in Endpoints \ lapsed' : OnRung(e)'
        /\ \A e \in Endpoints : job'[e] # "absent" \/ e \in due' => fanout' = "done"
    BY <2>2, <2>4, ConstantsAssumption DEF OnRung, Owed
  <2>9. ASSUME NEW v \in Runners PROVE Fine(v, run[v])'
    <3>1. CASE v = w
      BY <1>1, <3>1, ConstantsAssumption DEF Fine, OutboxInv, TypeOK
    <3>2. CASE v # w
      <4>1. run'[v] = run[v] /\ Fine(v, run[v])
        BY <1>1, <3>2 DEF OutboxInv, TypeOK
      <4> QED BY <1>4, <4>1 DEF Fine
    <3> QED BY <3>1, <3>2
  <2> QED BY <2>6, <2>7, <2>8, <2>9 DEF OutboxInv
<1> QED BY <1>3, <1>4

-----------------------------------------------------------------------------
(* The record of an attempt.                                                *)

\* What a loop writes of an attempt at e: a row that is owed, and a digest of
\* something that was signed.
Written(e, d) ==
  /\ d \in [state: State \ {"none"}, attempt: Nat, digest: Digest]
  /\ d.digest # "none" => d.digest \in signed[e]
  /\ e \notin lapsed =>
       /\ d.state = "pending" => d.attempt <= Rungs
       /\ d.attempt <= Rungs + 1
       /\ d.attempt = Rungs + 1 => d.state = "exhausted"

LEMMA RecordStep ==
  ASSUME OutboxInv, NEW w \in Runners, NEW e \in Endpoints, At(w, e, "record"),
         NEW v \in Will, Return(w, v),
         UNCHANGED <<fanout, tries, data, job, due, troubles, signed, lapsed>>,
         \/ /\ Owed(e)
            /\ \E d : /\ Written(e, d)
                      /\ v = "finish" => d.state # "pending"
                      /\ delivery' = [delivery EXCEPT ![e] = d]
         \/ /\ ~Owed(e)
            /\ UNCHANGED delivery
  PROVE  OutboxInv'
<1>1. run[w] \in Loop /\ run[w].pc = "record" /\ run[w].job = e /\ Fine(w, run[w])
  BY DEF OutboxInv, TypeOK, At
<1>2. CASE ~Owed(e) /\ UNCHANGED delivery
  BY <1>1, <1>2, ReturnStep DEF rows
<1>3. ASSUME Owed(e), NEW d, Written(e, d), v = "finish" => d.state # "pending",
             delivery' = [delivery EXCEPT ![e] = d]
      PROVE  OutboxInv'
  <2>1. /\ delivery'[e] = d
        /\ \A f \in Endpoints \ {e} : delivery'[f] = delivery[f]
        /\ delivery' \in [Endpoints -> [state: State, attempt: Nat, digest: Digest]]
    BY <1>3 DEF Written, OutboxInv, TypeOK
  <2>2. PICK r \in Loop : /\ run' = [run EXCEPT ![w] = r]
                          /\ r.pc = "settle" /\ r.job = e /\ r.will = v
    <3> DEFINE s == [Idle EXCEPT !.pc = "settle", !.job = run[w].job, !.will = v]
    <3>1. s \in Loop /\ s.pc = "settle" /\ s.job = e /\ s.will = v
      BY <1>1, Returned
    <3> QED BY <3>1 DEF Return
  <2>3. TypeOK'
    BY <2>1, <2>2 DEF OutboxInv, TypeOK
  <2>4. TriesLeft' /\ FannedOutWhole' /\ OwedHasJob' /\ DigestWasSigned' /\ Unborn'
    <3>1. d.state # "none" /\ delivery[e].state = "pending"
      BY <1>3 DEF Written, Owed
    <3> QED BY <1>3, <2>1, <3>1
            DEF OutboxInv, TriesLeft, FannedOutWhole, OwedHasJob, DigestWasSigned, Unborn, Owed,
                Written
  <2>5. /\ \A f \in Endpoints \ lapsed' : OnRung(f)'
        /\ \A f \in Endpoints : job'[f] # "absent" \/ f \in due' => fanout' = "done"
    BY <1>3, <2>1 DEF OutboxInv, OnRung, Owed, Written
  <2>6. ASSUME NEW u \in Runners PROVE Fine(u, run[u])'
    <3>1. CASE u = w
      <4>1. run'[u] = r
        BY <2>2, <3>1 DEF OutboxInv, TypeOK
      <4> QED BY <1>1, <1>3, <2>1, <2>2, <3>1, <4>1 DEF Fine, Owed
    <3>2. CASE u # w
      <4>1. run'[u] = run[u] /\ Fine(u, run[u])
        BY <2>2, <3>2 DEF OutboxInv, TypeOK
      <4>2. run[u].pc # "idle" /\ run[u].job = e => e \in lapsed
        BY <1>1, <3>2, <4>1 DEF Fine
      <4>3. d.state # "pending" => ~Owed(e)'
        BY <2>1 DEF Owed
      <4> QED BY <1>3, <2>1, <4>1, <4>2, <4>3 DEF Fine, Owed
    <3> QED BY <3>1, <3>2
  <2> QED BY <2>3, <2>4, <2>5, <2>6 DEF OutboxInv
<1> QED BY <1>2, <1>3

LEMMA RecordKeeps ==
  ASSUME OutboxInv, NEW w \in Runners, NEW e \in Endpoints, Record(w, e)
  PROVE  OutboxInv'
<1>1. run[w] \in Loop /\ run[w].pc = "record" /\ run[w].job = e /\ Fine(w, run[w])
  BY DEF OutboxInv, TypeOK, Record, RecordSuccess, RecordFailure, RecordRefused, At
<1>2. delivery[e] \in [state: State, attempt: Nat, digest: Digest]
  BY DEF OutboxInv, TypeOK
<1>3. delivery[e].digest # "none" => delivery[e].digest \in signed[e]
  BY DEF OutboxInv, DigestWasSigned
<1>4. e \notin lapsed => /\ Owed(e) /\ run[w].seen = delivery[e].attempt
                         /\ delivery[e].attempt <= Rungs /\ Rungs \in Nat
  BY <1>1, ConstantsAssumption DEF Fine, OutboxInv, OnRung
<1>5. run[w].body \in Body /\ run[w].body # "none" /\ run[w].seen \in Nat
  BY <1>1 DEF Loop, Body
<1>6. CASE RecordSuccess(w, e)
  <2> DEFINE d == [delivery[e] EXCEPT !.state = "succeeded", !.digest = First(e, run[w].body)]
  <2>1. First(e, run[w].body) \in Digest /\ First(e, run[w].body) \in signed[e]
    BY <1>1, <1>2, <1>3, <1>5, <1>6 DEF First, Fine, Digest, RecordSuccess
  <2>2. Written(e, d) /\ d.state # "pending"
    <3>1. /\ d.state = "succeeded" /\ d.attempt = delivery[e].attempt
          /\ d.digest = First(e, run[w].body)
      BY <1>2
    <3>2. d \in [state: State \ {"none"}, attempt: Nat, digest: Digest]
      BY <1>2, <2>1 DEF State
    <3> QED BY <1>2, <1>4, <2>1, <3>1, <3>2 DEF Written
  <2>3. Owed(e) => delivery' = [delivery EXCEPT ![e] = d]
    BY <1>6 DEF RecordSuccess, OutboxInv, TypeOK
  <2> HIDE DEF d
  <2> QED BY <1>6, <2>2, <2>3, RecordStep DEF RecordSuccess, Will
<1>7. CASE RecordFailure(w, e)
  <2> DEFINE d == [state   |-> IF Last(w) THEN "exhausted" ELSE "pending",
                   attempt |-> delivery[e].attempt + 1,
                   digest  |-> First(e, Sha(w))]
  <2>1. /\ First(e, Sha(w)) \in Digest
        /\ First(e, Sha(w)) # "none" => First(e, Sha(w)) \in signed[e]
    BY <1>1, <1>2, <1>3, <1>5 DEF First, Sha, Fine, Digest
  <2>2. Written(e, d)
    BY <1>2, <1>4, <1>5, <2>1 DEF Written, State, Last
  <2>3. Last(w) => d.state # "pending"
    OBVIOUS
  <2>4. Owed(e) => delivery' = [delivery EXCEPT ![e] = d]
    BY <1>7 DEF RecordFailure, OutboxInv, TypeOK
  <2> HIDE DEF d
  <2> QED BY <1>7, <2>2, <2>3, <2>4, RecordStep DEF RecordFailure, Will
<1>8. CASE RecordRefused(w, e)
  <2> DEFINE d == [state   |-> "exhausted",
                   attempt |-> delivery[e].attempt + 1,
                   digest  |-> delivery[e].digest]
  <2>1. Written(e, d) /\ d.state # "pending"
    BY <1>2, <1>3, <1>4 DEF Written, State
  <2>2. Owed(e) => delivery' = [delivery EXCEPT ![e] = d]
    BY <1>8 DEF RecordRefused, OutboxInv, TypeOK
  <2> HIDE DEF d
  <2> QED BY <1>8, <2>1, <2>2, RecordStep DEF RecordRefused, Will
<1> QED BY <1>6, <1>7, <1>8 DEF Record

-----------------------------------------------------------------------------
(* The jobs.                                                                *)

LEMMA JobStep ==
  ASSUME OutboxInv, UNCHANGED <<rows, signed>>,
         job' \in [Jobs -> {"absent", "queued", "parked"} \cup Runners],
         run' \in [Runners -> Loop],
         troubles' \in 0..MaxTroubles,
         due' \subseteq Endpoints,
         lapsed \subseteq lapsed', lapsed' \subseteq Endpoints,
         \A e \in Endpoints : /\ Owed(e) => job'[e] # "absent"
                              /\ job'[e] # "absent" \/ e \in due' => fanout = "done",
         \A u \in Runners : Fine(u, run[u])'
  PROVE  OutboxInv'
<1>1. TypeOK'
  BY DEF OutboxInv, TypeOK, rows
<1>2. TriesLeft' /\ FannedOutWhole' /\ OwedHasJob' /\ DigestWasSigned' /\ Unborn'
  BY DEF OutboxInv, TriesLeft, FannedOutWhole, OwedHasJob, DigestWasSigned, Unborn, Owed, rows
<1>3. /\ \A e \in Endpoints \ lapsed' : OnRung(e)'
      /\ \A e \in Endpoints : job'[e] # "absent" \/ e \in due' => fanout' = "done"
  BY DEF OutboxInv, OnRung, Owed, rows
<1> QED BY <1>1, <1>2, <1>3 DEF OutboxInv

LEMMA ClaimKeeps ==
  ASSUME OutboxInv, NEW w \in Runners, NEW j \in Jobs, Claim(w, j)
  PROVE  OutboxInv'
<1> DEFINE r == [Idle EXCEPT !.pc = "load", !.job = j]
<1>1. r \in Loop /\ r.pc = "load" /\ r.job = j
  BY Fresh DEF PC
<1>2. run' = [run EXCEPT ![w] = r] /\ job' = [job EXCEPT ![j] = w] /\ job[j] = "queued"
  BY DEF Claim
<1>3. UNCHANGED <<rows, due, troubles, signed, lapsed>>
  BY DEF Claim
<1> HIDE DEF r
<1>4. /\ job' \in [Jobs -> {"absent", "queued", "parked"} \cup Runners]
      /\ \A i \in Jobs : job'[i] = IF i = j THEN w ELSE job[i]
      /\ w \notin {"absent", "queued", "parked"}
  BY <1>2, ConstantsAssumption DEF OutboxInv, TypeOK
<1>5. /\ run' \in [Runners -> Loop] /\ run'[w] = r
      /\ \A u \in Runners \ {w} : run'[u] = run[u]
  BY <1>1, <1>2 DEF OutboxInv, TypeOK
<1>6. \A e \in Endpoints : /\ Owed(e) => job'[e] # "absent"
                           /\ job'[e] # "absent" \/ e \in due' => fanout = "done"
  BY <1>2, <1>3, <1>4 DEF OutboxInv, OwedHasJob, Jobs
<1>7. ASSUME NEW u \in Runners PROVE Fine(u, run[u])'
  <2>1. CASE u = w
    BY <1>1, <1>2, <1>3, <1>4, <1>5, <2>1 DEF Fine, OutboxInv, Jobs, rows
  <2>2. CASE u # w
    <3>1. run'[u] = run[u] /\ Fine(u, run[u])
      BY <1>5, <2>2 DEF OutboxInv
    <3>2. u # "queued"
      BY ConstantsAssumption
    <3> QED BY <1>2, <1>3, <1>4, <3>1, <3>2 DEF Fine, Owed, Jobs, rows
  <2> QED BY <2>1, <2>2
<1>8. /\ troubles' \in 0..MaxTroubles /\ lapsed' = lapsed /\ lapsed' \subseteq Endpoints
      /\ due' \subseteq Endpoints
  BY <1>3 DEF OutboxInv, TypeOK
<1> QED BY <1>3, <1>4, <1>5, <1>6, <1>7, <1>8, JobStep

LEMMA SettleRowKeeps ==
  ASSUME OutboxInv, NEW w \in Runners, NEW j \in Jobs, SettleRow(w, j)
  PROVE  OutboxInv'
<1>1. run[w] \in Loop /\ run[w].pc = "settle" /\ run[w].job = j /\ Fine(w, run[w]) /\ job[j] = w
  BY DEF OutboxInv, TypeOK, SettleRow, At
<1>2. run' = [run EXCEPT ![w] = Idle] /\ UNCHANGED <<rows, due, troubles, signed, lapsed>>
  BY DEF SettleRow
<1>3. PICK q \in {"absent", "queued", "parked"} :
        job' = [job EXCEPT ![j] = q] /\ (q = "absent" => run[w].will = "finish")
  BY <1>1 DEF SettleRow, Loop, Will
<1>4. /\ job' \in [Jobs -> {"absent", "queued", "parked"} \cup Runners]
      /\ \A i \in Jobs : job'[i] = IF i = j THEN q ELSE job[i]
  BY <1>3 DEF OutboxInv, TypeOK
<1>5. /\ run' \in [Runners -> Loop] /\ run'[w] = Idle
      /\ \A u \in Runners \ {w} : run'[u] = run[u]
  <2>1. Idle \in Loop
    BY Fresh
  <2> QED BY <1>2, <2>1 DEF OutboxInv, TypeOK
<1>6. w # "absent"
  BY ConstantsAssumption
<1>7. \A e \in Endpoints : /\ Owed(e) => job'[e] # "absent"
                           /\ job'[e] # "absent" \/ e \in due' => fanout = "done"
  BY <1>1, <1>2, <1>3, <1>4, <1>6 DEF OutboxInv, OwedHasJob, Jobs, Fine
<1>8. ASSUME NEW u \in Runners PROVE Fine(u, run[u])'
  <2>1. CASE u = w
    BY <1>5, <2>1 DEF Fine, Idle
  <2>2. CASE u # w
    <3>1. run'[u] = run[u] /\ Fine(u, run[u])
      BY <1>5, <2>2 DEF OutboxInv
    <3> QED BY <1>1, <1>2, <1>4, <2>2, <3>1 DEF Fine, Owed, Jobs, rows
  <2> QED BY <2>1, <2>2
<1>9. /\ troubles' \in 0..MaxTroubles /\ lapsed' = lapsed /\ lapsed' \subseteq Endpoints
      /\ due' \subseteq Endpoints
  BY <1>2 DEF OutboxInv, TypeOK
<1> QED BY <1>2, <1>4, <1>5, <1>7, <1>8, <1>9, JobStep

LEMMA ReapKeeps ==
  ASSUME OutboxInv, NEW j \in Jobs, ReapLease(j) \/ ReapStalled(j)
  PROVE  OutboxInv'
<1>1. /\ job[j] \in Runners /\ job' = [job EXCEPT ![j] = "queued"]
      /\ UNCHANGED <<rows, run, due, signed>>
      /\ \/ ~Works(job[j], j)
         \/ lapsed' = lapsed \cup (Endpoints \cap {j})
      /\ lapsed' \in {lapsed, lapsed \cup (Endpoints \cap {j})}
  BY DEF ReapLease, ReapStalled
<1>2. troubles' \in 0..MaxTroubles
  BY Troubled DEF ReapLease, ReapStalled
<1>3. /\ job' \in [Jobs -> {"absent", "queued", "parked"} \cup Runners]
      /\ \A i \in Jobs : job'[i] = IF i = j THEN "queued" ELSE job[i]
  BY <1>1 DEF OutboxInv, TypeOK
<1>4. job[j] # "absent"
  BY <1>1, ConstantsAssumption
<1>5. \A e \in Endpoints : /\ Owed(e) => job'[e] # "absent"
                           /\ job'[e] # "absent" \/ e \in due' => fanout = "done"
  BY <1>1, <1>3, <1>4 DEF OutboxInv, OwedHasJob, Jobs
<1>6. ASSUME NEW u \in Runners PROVE Fine(u, run[u])'
  <2>1. Fine(u, run[u])
    BY DEF OutboxInv
  <2>2. ASSUME NEW e \in Endpoints, run[u].pc # "idle", run[u].job = e, e \notin lapsed', e = j
        PROVE  FALSE
    BY <1>1, <2>1, <2>2 DEF Fine, Works
  <2> QED BY <1>1, <1>3, <2>1, <2>2 DEF Fine, Owed, Jobs, rows
<1>7. /\ run' \in [Runners -> Loop] /\ due' \subseteq Endpoints
      /\ lapsed \subseteq lapsed' /\ lapsed' \subseteq Endpoints
  BY <1>1 DEF OutboxInv, TypeOK
<1> QED BY <1>1, <1>2, <1>3, <1>5, <1>6, <1>7, JobStep

\* What the scan adds is of an event that was fanned out, and no loop is at it.
LEMMA ScanKeeps == ASSUME OutboxInv, ScanDeliveries PROVE OutboxInv'
<1>1. UNCHANGED <<rows, run, troubles, signed, lapsed>>
  BY DEF ScanDeliveries, PendingDue, EnqueueMissing
<1>2. /\ due' \subseteq Endpoints
      /\ \A e \in due' : e \in due \/ Owed(e)
  BY DEF ScanDeliveries, PendingDue, EnqueueMissing, OutboxInv, TypeOK
<1>3. /\ job' \in [Jobs -> {"absent", "queued", "parked"} \cup Runners]
      /\ \A i \in Jobs : \/ job'[i] = job[i]
                         \/ job[i] = "absent" /\ job'[i] = "queued" /\ i \in due
  BY DEF ScanDeliveries, PendingDue, EnqueueMissing, OutboxInv, TypeOK
<1>4. \A e \in Endpoints : Owed(e) => fanout = "done"
  BY DEF OutboxInv, FannedOutWhole, Owed
<1>5. \A e \in Endpoints : /\ Owed(e) => job'[e] # "absent"
                           /\ job'[e] # "absent" \/ e \in due' => fanout = "done"
  BY <1>2, <1>3, <1>4 DEF OutboxInv, OwedHasJob, Jobs
<1>6. ASSUME NEW u \in Runners PROVE Fine(u, run[u])'
  <2>1. Fine(u, run[u]) /\ u # "absent"
    BY ConstantsAssumption DEF OutboxInv
  <2> QED BY <1>1, <1>3, <2>1 DEF Fine, Owed, Jobs, rows
<1> QED BY <1>1, <1>2, <1>3, <1>5, <1>6, JobStep DEF OutboxInv, TypeOK

LEMMA EraseKeeps == ASSUME OutboxInv, Erase PROVE OutboxInv'
<1>1. UNCHANGED <<fanout, tries, job, run, due, troubles, signed, lapsed>> /\ data' \in Body
  BY DEF Erase, Body
<1>2. delivery' \in [Endpoints -> [state: State, attempt: Nat, digest: Digest]]
  <2>1. ASSUME NEW e \in Endpoints
        PROVE  [delivery[e] EXCEPT !.digest = "none"] \in [state: State, attempt: Nat, digest: Digest]
    BY DEF OutboxInv, TypeOK, Digest
  <2> QED BY <2>1 DEF Erase, OutboxInv, TypeOK
<1>3. ASSUME NEW e \in Endpoints
      PROVE  /\ delivery'[e].state = delivery[e].state
             /\ delivery'[e].attempt = delivery[e].attempt
             /\ delivery'[e].digest \in {"none", delivery[e].digest}
  <2>1. delivery[e] \in [state: State, attempt: Nat, digest: Digest]
    BY DEF OutboxInv, TypeOK
  <2> QED BY <2>1 DEF Erase
<1>4. TypeOK'
  BY <1>1, <1>2 DEF OutboxInv, TypeOK
<1>5. TriesLeft' /\ FannedOutWhole' /\ OwedHasJob' /\ DigestWasSigned' /\ Unborn'
  BY <1>1, <1>3 DEF OutboxInv, TriesLeft, FannedOutWhole, OwedHasJob, DigestWasSigned, Unborn, Owed
<1>6. /\ \A e \in Endpoints \ lapsed' : OnRung(e)'
      /\ \A e \in Endpoints : job'[e] # "absent" \/ e \in due' => fanout' = "done"
  BY <1>1, <1>3 DEF OutboxInv, OnRung, Owed
<1>7. ASSUME NEW u \in Runners PROVE Fine(u, run[u])'
  BY <1>1, <1>3 DEF OutboxInv, Fine, Owed
<1> QED BY <1>4, <1>5, <1>6, <1>7 DEF OutboxInv

-----------------------------------------------------------------------------
(* The invariant, and what follows from it.                                 *)

\* OutboxInv holds when the event is committed.
LEMMA OutboxStarts == Init => OutboxInv
<1> SUFFICES ASSUME Init PROVE OutboxInv
  OBVIOUS
<1>1. FanOutTries \in Nat \ {0} /\ MaxTroubles \in Nat /\ Rungs \in Nat
  BY ConstantsAssumption
<1>2. TypeOK
  <2>1. delivery \in [Endpoints -> [state: State, attempt: Nat, digest: Digest]]
    BY DEF Init, State, Digest
  <2>2. run \in [Runners -> Loop]
    BY Fresh DEF Init
  <2>3. job \in [Jobs -> {"absent", "queued", "parked"} \cup Runners]
    BY DEF Init
  <2> QED BY <1>1, <2>1, <2>2, <2>3 DEF TypeOK, Init, Body
<1>3. TriesLeft /\ FannedOutWhole /\ OwedHasJob /\ DigestWasSigned /\ Unborn
  BY <1>1 DEF Init, TriesLeft, FannedOutWhole, OwedHasJob, DigestWasSigned, Unborn, Owed
<1>4. /\ \A e \in Endpoints \ lapsed : OnRung(e)
      /\ \A e \in Endpoints : job[e] # "absent" \/ e \in due => fanout = "done"
  BY <1>1, ConstantsAssumption DEF Init, OnRung, Owed, Jobs
<1>5. \A w \in Runners : Fine(w, run[w])
  BY DEF Init, Fine, Idle
<1> QED BY <1>2, <1>3, <1>4, <1>5 DEF OutboxInv

LEMMA OutboxStutters == OutboxInv /\ UNCHANGED vars => OutboxInv'
BY DEF OutboxInv, TypeOK, TriesLeft, FannedOutWhole, OwedHasJob, DigestWasSigned, Unborn, OnRung,
       Fine, Owed, vars, rows

\* Every step keeps it: one case per action.
LEMMA OutboxKeeps == OutboxInv /\ [Next]_vars => OutboxInv'
<1> SUFFICES ASSUME OutboxInv, [Next]_vars PROVE OutboxInv'
  OBVIOUS
<1>1. ASSUME NEW w \in Runners, FanOut(w) \/ Falter(w) \/ Crash(w) PROVE OutboxInv'
  BY <1>1, LoadPageKeeps, FanOutOneKeeps, FanOutFailsKeeps, CountFailureKeeps, FalterKeeps,
     SetDownKeeps DEF FanOut
<1>2. ASSUME NEW w \in Runners, NEW e \in Endpoints, Deliver(w, e) PROVE OutboxInv'
  BY <1>2, LoadDeliveryKeeps, RenderKeeps, PostKeeps, RecordKeeps DEF Deliver
<1>3. ASSUME NEW w \in Runners, NEW j \in Jobs, Claim(w, j) \/ SettleJob(w, j) PROVE OutboxInv'
  BY <1>3, ClaimKeeps, SettleRowKeeps, SetDownKeeps DEF SettleJob
<1> QED BY <1>1, <1>2, <1>3, ReapKeeps, ScanKeeps, EraseKeeps, OutboxStutters DEF Next

\* What is at stake while a loop posts: it holds its job, on the rung it read.
LEMMA OutboxPromises == OutboxInv => FannedOutWhole /\ OwedHasJob /\ DigestWasSigned /\ OnTheLadder
BY DEF OutboxInv, OnTheLadder, OnRung, Fine, At

\* The rows, the jobs and the loops stay in their types.
THEOREM OutboxTypes == Spec => []TypeOK
<1>1. OutboxInv => TypeOK
  BY DEF OutboxInv
<1> QED BY <1>1, OutboxStarts, OutboxKeeps, PTL DEF Spec

\* No endpoint is skipped by a drain that fails half-way or is run twice, whatever
\* the endpoints, the loops and the troubles (fan_out_one).
THEOREM FanOutIsWhole == Spec => []FannedOutWhole
BY OutboxStarts, OutboxKeeps, OutboxPromises, PTL DEF Spec

\* A delivery that is owed has a job: the steps of the code keep what
\* scan_deliveries_pass is there to restore.
THEOREM OwedDeliveriesHaveJobs == Spec => []OwedHasJob
BY OutboxStarts, OutboxKeeps, OutboxPromises, PTL DEF Spec

\* The digest that the next body is compared with is of a body that was signed, an
\* erasure between the two or not (record_attempt, redact_stored_copies).
THEOREM DigestsWereSigned == Spec => []DigestWasSigned
BY OutboxStarts, OutboxKeeps, OutboxPromises, PTL DEF Spec

\* A loop that keeps its lease posts what is owed on the rung it read, and the
\* ladder is climbed once, whoever dies on the way (handle_deliver).
THEOREM LadderIsClimbedOnce == Spec => []OnTheLadder
BY OutboxStarts, OutboxKeeps, OutboxPromises, PTL DEF Spec

-----------------------------------------------------------------------------
(* Webhooks keeps to the queue: each step is one of JobLease, or none.       *)

\* A loop that stays at its job, and jobs that nobody moves.
LEMMA HandStays ==
  ASSUME TypeOK, NEW w \in Runners, NEW r, run' = [run EXCEPT ![w] = r],
         run[w].pc # "idle", r.pc # "idle", r.job = run[w].job
  PROVE  \A u \in Runners : InHand(u)' = InHand(u)
BY DEF TypeOK, InHand

LEMMA QueueStutter ==
  ASSUME job' = job, \A u \in Runners : InHand(u)' = InHand(u)
  PROVE  UNCHANGED Lease!leased
BY DEF Lease!leased

\* Jobs that are absent are enqueued.
LEMMA QueueGrows ==
  ASSUME TypeOK, NEW S \in SUBSET Jobs, \A u \in Runners : InHand(u)' = InHand(u),
         job' = [j \in Jobs |-> IF j \in S /\ job[j] = "absent" THEN "queued" ELSE job[j]]
  PROVE  Lease!Next
<1> DEFINE T == {j \in S : job[j] = "absent"}
<1>1. job' = [j \in Jobs |-> IF j \in T THEN "queued" ELSE job[j]]
  OBVIOUS
<1>2. Lease!Enqueue(T)
  BY <1>1 DEF Lease!Enqueue
<1> QED
  BY <1>2 DEF Lease!Next

\* A loop that lets go of its job without a write.
LEMMA QueueLeft ==
  ASSUME TypeOK, NEW w \in Runners, run' = [run EXCEPT ![w] = Idle], job' = job
  PROVE  Lease!Next
<1>1. \A u \in Runners : InHand(u)' = IF u \in {w} THEN {} ELSE InHand(u)
  BY DEF TypeOK, InHand, Idle
<1>2. Lease!Leave({w}, {})
  BY <1>1 DEF Lease!Leave
<1> QED
  BY <1>2 DEF Lease!Next

LEMMA ReturnStays ==
  ASSUME TypeOK, NEW w \in Runners, NEW v \in Will, run[w].pc # "idle", Return(w, v)
  PROVE  \A u \in Runners : InHand(u)' = InHand(u)
<1>1. run[w] \in Loop
  BY DEF TypeOK
<1> QED
  BY <1>1, Returned, HandStays DEF Return

LEMMA GoStays ==
  ASSUME TypeOK, NEW w \in Runners, NEW c \in PC \ {"idle"}, run[w].pc # "idle", Go(w, c)
  PROVE  \A u \in Runners : InHand(u)' = InHand(u)
<1>1. run[w] \in Loop
  BY DEF TypeOK
<1>2. run' = [run EXCEPT ![w] = [run[w] EXCEPT !.pc = c]]
  BY DEF Go
<1>3. [run[w] EXCEPT !.pc = c].pc = c /\ [run[w] EXCEPT !.pc = c].job = run[w].job
  BY <1>1, Moved
<1> QED
  BY <1>2, <1>3, HandStays

\* A handler at work enqueues at most, and stays at its job.
LEMMA HandlerQueues ==
  ASSUME TypeOK, NEW w \in Runners,
         \/ FanOut(w) \/ Falter(w)
         \/ \E e \in Endpoints : Deliver(w, e)
  PROVE  [Lease!Next]_(Lease!leased)
<1>0. /\ run[w] \in Loop /\ {"finish", "again", "park"} \subseteq Will
      /\ {"fan", "count"} \subseteq PC \ {"idle"}
      /\ {"unsent", "refused", "ok", "fail"} \subseteq Answer
  BY DEF TypeOK, Will, PC, Answer
<1>1. CASE LoadPage(w)
  <2>1. \A u \in Runners : InHand(u)' = InHand(u)
    BY <1>0, <1>1, ReturnStays, GoStays DEF LoadPage, At
  <2> QED
    BY <1>1, <2>1, QueueStutter DEF LoadPage
<1>2. CASE FanOutOne(w)
  <2>1. \A u \in Runners : InHand(u)' = InHand(u)
    BY <1>0, <1>2, ReturnStays DEF FanOutOne, At
  <2>2. CASE UNCHANGED job
    BY <2>1, <2>2, QueueStutter
  <2>3. CASE job' = [j \in Jobs |-> IF j \in {e \in Endpoints : delivery[e].state = "none"}
                                      /\ job[j] = "absent" THEN "queued" ELSE job[j]]
    BY <2>1, <2>3, QueueGrows DEF Jobs
  <2> QED
    BY <1>2, <2>2, <2>3 DEF FanOutOne
<1>3. CASE FanOutFails(w)
  <2>1. \A u \in Runners : InHand(u)' = InHand(u)
    BY <1>0, <1>3, GoStays DEF FanOutFails, At
  <2> QED
    BY <1>3, <2>1, QueueStutter DEF FanOutFails
<1>4. CASE CountFailure(w)
  <2>1. \A u \in Runners : InHand(u)' = InHand(u)
    BY <1>0, <1>4, ReturnStays DEF CountFailure, At
  <2> QED
    BY <1>4, <2>1, QueueStutter DEF CountFailure
<1>5. CASE Falter(w)
  <2>1. \A u \in Runners : InHand(u)' = InHand(u)
    BY <1>0, <1>5, ReturnStays DEF Falter
  <2> QED
    BY <1>5, <2>1, QueueStutter DEF Falter
<1>6. ASSUME NEW e \in Endpoints, Deliver(w, e) PROVE [Lease!Next]_(Lease!leased)
  <2>1. CASE LoadDelivery(w, e)
    <3>1. CASE Return(w, "finish")
      BY <1>0, <2>1, <3>1, ReturnStays, QueueStutter DEF LoadDelivery, At
    <3>2. CASE run' = [run EXCEPT ![w].pc = "render", ![w].seen = delivery[e].attempt,
                                  ![w].digest = delivery[e].digest]
      <4>1. delivery[e] \in [state: State, attempt: Nat, digest: Digest]
        BY DEF TypeOK
      <4>2. run' = [run EXCEPT ![w] = [run[w] EXCEPT !.pc = "render", !.seen = delivery[e].attempt,
                                                     !.digest = delivery[e].digest]]
        BY <3>2
      <4> QED
        BY <1>0, <2>1, <4>1, <4>2, Loaded, HandStays, QueueStutter DEF LoadDelivery, At
    <3> QED
      BY <2>1, <3>1, <3>2 DEF LoadDelivery
  <2>2. CASE Render(w, e)
    <3>1. CASE Return(w, "park")
      BY <1>0, <2>2, <3>1, ReturnStays, QueueStutter DEF Render, At
    <3>2. CASE run' = [run EXCEPT ![w].pc = "post", ![w].digest = "none", ![w].body = data]
      <4>1. run' = [run EXCEPT ![w] = [run[w] EXCEPT !.pc = "post", !.digest = "none", !.body = data]]
        BY <3>2
      <4> QED
        BY <1>0, <2>2, <4>1, Rendered, HandStays, QueueStutter DEF Render, At, TypeOK
    <3> QED
      BY <2>2, <3>1, <3>2 DEF Render
  <2>3. CASE PostNothing(w, e) \/ Post(w, e)
    <3>1. PICK a \in Answer : run' = [run EXCEPT ![w] = [run[w] EXCEPT !.pc = "record", !.ans = a]]
      BY <1>0, <2>3 DEF PostNothing, Post
    <3>2. run[w].pc = "post" /\ job' = job
      BY <2>3 DEF PostNothing, Post, At
    <3> QED
      BY <1>0, <3>1, <3>2, Posted, HandStays, QueueStutter
  <2>4. CASE Record(w, e)
    <3>1. run[w].pc = "record" /\ job' = job /\ \E v \in Will : Return(w, v)
      BY <1>0, <2>4 DEF Record, RecordSuccess, RecordFailure, RecordRefused, At
    <3> QED
      BY <3>1, ReturnStays, QueueStutter
  <2> QED
    BY <1>6, <2>1, <2>2, <2>3, <2>4 DEF Deliver
<1> QED
  BY <1>1, <1>2, <1>3, <1>4, <1>5, <1>6 DEF FanOut

\* A claim, and the answer under the fence.
LEMMA JobQueues ==
  ASSUME TypeOK, NEW w \in Runners, NEW j \in Jobs, Claim(w, j) \/ SettleJob(w, j)
  PROVE  Lease!Next
<1>0. {"load"} \subseteq PC /\ Idle.pc = "idle"
  BY DEF PC, Idle
<1>1. CASE Claim(w, j)
  <2>1. run'[w].pc = "load" /\ run'[w].job = j /\ \A u \in Runners : u # w => run'[u] = run[u]
    <3>1. run' = [run EXCEPT ![w] = [Idle EXCEPT !.pc = "load", !.job = j]]
      BY <1>1 DEF Claim
    <3>2. /\ [Idle EXCEPT !.pc = "load", !.job = j].pc = "load"
          /\ [Idle EXCEPT !.pc = "load", !.job = j].job = j
      BY <1>0, Fresh
    <3> QED
      BY <3>1, <3>2 DEF TypeOK
  <2>2. [u \in Runners |-> InHand(u)]' = [[u \in Runners |-> InHand(u)] EXCEPT ![w] = {j}]
    BY <2>1 DEF InHand
  <2>3. Lease!Claim(w, j)
    BY <1>1, <2>2 DEF Claim, Lease!Claim, InHand
  <2> QED
    BY <2>3 DEF Lease!Next
<1>2. CASE SettleRow(w, j)
  <2>1. [u \in Runners |-> InHand(u)]' = [[u \in Runners |-> InHand(u)] EXCEPT ![w] = {}]
    BY <1>0, <1>2 DEF SettleRow, InHand, TypeOK
  <2>2. InHand(w) = {j} /\ job[j] = w
    BY <1>2 DEF SettleRow, At, InHand
  <2>3. \E v \in {"absent", "queued", "parked"} : job' = [job EXCEPT ![j] = v]
    <3>1. run[w].will \in Will
      BY DEF TypeOK, Loop
    <3> QED
      BY <1>2, <3>1 DEF SettleRow, Will
  <2>4. Lease!Settle(w, j)
    BY <2>1, <2>2, <2>3 DEF Lease!Settle, Lease!Held
  <2> QED
    BY <2>4 DEF Lease!Next
<1>3. CASE SettleNothing(w, j)
  BY <1>3, QueueLeft DEF SettleNothing
<1> QED
  BY <1>1, <1>2, <1>3 DEF SettleJob

\* The reaper.
LEMMA ReapQueues ==
  ASSUME TypeOK, NEW j \in Jobs, ReapLease(j) \/ ReapStalled(j)
  PROVE  Lease!Next
<1>1. \A u \in Runners : InHand(u)' = InHand(u)
  BY DEF ReapLease, ReapStalled, InHand
<1>2. job' = [i \in Jobs |-> IF i \in {j} THEN "queued" ELSE job[i]]
  BY DEF ReapLease, ReapStalled, TypeOK
<1>3. job[j] \in Runners /\ (MaxTroubles > 0 \/ j \notin InHand(job[j]))
  <2>1. CASE ReapLease(j)
    BY <2>1 DEF ReapLease, Works, InHand
  <2>2. CASE ReapStalled(j)
    BY <2>2, ConstantsAssumption DEF ReapStalled, Trouble, TypeOK
  <2> QED
    BY <2>1, <2>2
<1>4. Lease!Free({j})
  BY <1>1, <1>2, <1>3 DEF Lease!Free, Lease!Held, Lease!Worked
<1> QED
  BY <1>4 DEF Lease!Next

\* The drain, the deliveries and the backstop use the queue as JobLease has it: they
\* enqueue what is absent, and a handler works on the row its loop claimed until it
\* writes to it, dies or has stalled.
THEOREM OutboxKeepsToTheQueue == Spec => KeepsToTheQueue
<1>1. Init => Lease!Init
  BY DEF Init, Lease!Init, InHand, Idle
<1>2. TypeOK /\ [Next]_vars => [Lease!Next]_(Lease!leased)
  <2> SUFFICES ASSUME TypeOK, [Next]_vars PROVE [Lease!Next]_(Lease!leased)
    OBVIOUS
  <2>1. CASE UNCHANGED <<job, run>>
    BY <2>1, QueueStutter DEF InHand
  <2>2. ASSUME NEW w \in Runners, Crash(w) PROVE Lease!Next
    BY <2>2, QueueLeft DEF Crash
  <2>3. CASE ScanDeliveries
    <3>1. CASE PendingDue
      BY <2>1, <3>1 DEF PendingDue
    <3>2. CASE EnqueueMissing
      <4>1. due \in SUBSET Jobs /\ \A u \in Runners : InHand(u)' = InHand(u)
        BY <3>2 DEF EnqueueMissing, TypeOK, Jobs, InHand
      <4> QED
        BY <3>2, <4>1, QueueGrows DEF EnqueueMissing
    <3> QED
      BY <2>3, <3>1, <3>2 DEF ScanDeliveries
  <2>4. CASE Erase
    BY <2>1, <2>4 DEF Erase
  <2>5. CASE UNCHANGED vars
    BY <2>1, <2>5 DEF vars
  <2> QED
    BY <2>2, <2>3, <2>4, <2>5, HandlerQueues, JobQueues, ReapQueues DEF Next
<1> QED
  BY <1>1, <1>2, OutboxTypes, PTL DEF Spec, KeepsToTheQueue, Lease!Spec
=============================================================================
