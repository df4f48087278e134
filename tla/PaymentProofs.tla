--------------------------- MODULE PaymentProofs ---------------------------
(* Theorems about Payment, for every set of intents, requests and runners   *)
(* and every rail, whatever crashes.  Only the theorems that say so assume  *)
(* that no process stalls, or that no adapter is misconfigured.             *)
(*                                                                          *)
(*  1. What the operators that write one variable keep of its type.         *)
(*  2. Type correctness, one lemma per action.                              *)
(*  3. The inductive invariant behind SettledTogether and OneEnding.        *)
(*  4. The theorems that follow from it.                                    *)
(*  5. The action properties.                                               *)
(*  6. A step concerns one intent: it leaves every other one Still.         *)
(*  7. Traced: what the rail may hold has been written down.                *)
(*  8. Alone: one process at a time may call the rail (no stalls).          *)
(*  9. Knows: what a charge says of the rail is true (no stalls).           *)
(* 10. ParkedWell: what a dead letter is about (no misconfiguration).       *)
(* 11. The theorems of sections 7 to 10.                                    *)
(* 12. Payment implements PaymentPromise (no stalls).                       *)
(* 13. Payment uses the queue as JobLease has it.                           *)
EXTENDS Payment, TLAPS

-----------------------------------------------------------------------------
(* 1. Operators.                                                            *)

LEMMA Names ==
  /\ \A pc \in {"idle", "loaded", "ok", "declined", "error", "prepare", "prepared",
                 "attempt", "submit", "answered", "persist", "decline", "note"} : pc \in RequestPC
  /\ \A pc \in {"idle", "load", "evidence", "schedule", "advance", "query", "act", "reset",
                 "deny", "fail_dead", "escalate", "prepare", "prepared", "refused", "open",
                 "submit", "answered", "commit", "note", "requeue", "finish", "park"} :
       pc \in RunnerPC
  /\ \A a \in {"none", "ok", "rejected", "pending", "succeeded", "failed", "not_found",
                "transport", "reconcile", "refused", "config"} : a \in Answer
  /\ \A k \in {"poll", "resubmit"} : k \in Kind
  /\ \A e \in {"succeeded", "payment_failed", "canceled"} : e \in Event
  /\ \A c \in {"none", "submitting", "submitted", "pending", "unresolved", "succeeded",
                "failed"} : c \in ChargeState
  /\ \A s \in {"requires_payment_method", "requires_action", "processing", "succeeded",
                "canceled"} : s \in IntentStatus
  /\ \A s \in {"absent", "queued", "parked"} \cup Runners : s \in JobState
  BY DEF RequestPC, RunnerPC, Answer, Kind, Event, ChargeState, Live, Terminal,
         IntentStatus, JobState, InRailWindow

LEMMA GoReqType ==
  ASSUME TypeOK, NEW r \in Requests, NEW pc \in RequestPC, GoReq(r, pc)
  PROVE req' \in [Requests -> RequestState]
  BY DEF TypeOK, GoReq, RequestState

LEMMA Put ==
  ASSUME NEW s \in RunnerState, NEW pc \in RunnerPC, NEW c \in ChargeState, NEW a \in Answer,
         NEW o \in {"young", "mature", "late"}
  PROVE  /\ [s EXCEPT !.pc = pc] \in RunnerState
         /\ [s EXCEPT !.pc = pc, !.seen = c] \in RunnerState
         /\ [s EXCEPT !.pc = pc, !.ans = a] \in RunnerState
         /\ [s EXCEPT !.pc = pc, !.seen = c, !.old = o] \in RunnerState
  BY DEF RunnerState

\* A runner's moves: it goes on, having seen a charge, or having heard an answer.
LEMMA GoType ==
  ASSUME TypeOK, NEW w \in Runners, NEW pc \in RunnerPC, NEW c \in ChargeState,
         NEW a \in Answer, Go(w, pc) \/ See(w, pc, c) \/ Hear(w, pc, a)
  PROVE run' \in [Runners -> RunnerState]
<1>1. run[w] \in RunnerState
  BY DEF TypeOK
<1>2. /\ [run[w] EXCEPT !.pc = pc] \in RunnerState
      /\ [run[w] EXCEPT !.pc = pc, !.seen = c] \in RunnerState
      /\ [run[w] EXCEPT !.pc = pc, !.ans = a] \in RunnerState
  BY <1>1, Put
<1>3. \E s \in RunnerState : run' = [run EXCEPT ![w] = s]
  BY <1>2 DEF Go, See, Hear
<1> QED
  BY <1>3 DEF TypeOK

LEMMA RunnerFields ==
  ASSUME TypeOK, NEW w \in Runners
  PROVE  /\ run[w].pc \in RunnerPC /\ run[w].seen \in ChargeState
         /\ run[w].ans \in Answer  /\ run[w].n \in 0..NotFoundStreak
         /\ run[w].old \in {"young", "mature", "late"}
  BY DEF TypeOK, RunnerState

LEMMA SetJobType ==
  ASSUME TypeOK, NEW i \in Intents, NEW k \in Kind, NEW v \in JobState,
         job' = [job EXCEPT ![i][k] = v]
  PROVE job' \in [Intents -> [Kind -> JobState]]
  BY DEF TypeOK

LEMMA EmitType ==
  ASSUME TypeOK, NEW i \in Intents, NEW e \in Event, Emit(i, e)
  PROVE sent' \in [Intents -> [Event -> Nat]]
  BY DEF TypeOK, Emit

LEMMA PostType ==
  ASSUME posted \in [Intents -> Nat], NEW i \in Intents, posted' = [posted EXCEPT ![i] = @ + 1]
  PROVE posted' \in [Intents -> Nat]
  OBVIOUS

LEMMA SetLiveStateType ==
  ASSUME TypeOK, NEW i \in Intents, NEW c, NEW d \in ChargeState, SetLiveState(i, c, d)
  PROVE charge' \in [Intents -> ChargeState]
  BY DEF TypeOK, SetLiveState

LEMMA OpenedType ==
  ASSUME TypeOK, NEW i \in Intents, NEW p \in Requests \cup Runners,
         attempt' = [attempt EXCEPT ![i] = [by |-> p, answered |-> FALSE]]
  PROVE attempt' \in [Intents -> Attempt]
<1>1. [by |-> p, answered |-> FALSE] \in Attempt
  BY DEF Attempt
<1> QED
  BY <1>1 DEF TypeOK

LEMMA RecordAnsweredType ==
  ASSUME TypeOK, NEW i \in Intents, NEW p, RecordAnswered(i, p)
  PROVE attempt' \in [Intents -> Attempt]
  BY DEF TypeOK, RecordAnswered, Attempt

LEMMA RailTakesType ==
  ASSUME TypeOK, NEW i \in Intents, NEW a, RailTakes(i, a)
  PROVE  /\ rail' \in [Intents -> {"none", "open", "paid", "declined"}]
         /\ a \in {"ok", "rejected", "transport", "reconcile", "config"}
  BY DEF TypeOK, RailTakes

LEMMA RailSaysType ==
  ASSUME TypeOK, NEW i \in Intents
  PROVE RailSays(i) \subseteq {"not_found", "pending", "succeeded", "failed"}
  BY DEF TypeOK, RailSays

LEMMA RememberType ==
  ASSUME TypeOK, NEW i \in Intents, NEW w \in Runners, NEW n \in 0..NotFoundStreak,
         Remember(w, i, n)
  PROVE payload' \in [Intents -> 0..NotFoundStreak]
  BY DEF TypeOK, Remember

LEMMA DenialsType ==
  ASSUME TypeOK, NEW w \in Runners
  PROVE Denials(w) \in 0..NotFoundStreak
  BY ConstantsAssumption DEF TypeOK, Denials, RunnerState

\* What recovery_step may decide, on what evidence, and where it leads.
LEMMA RecoveryGoes ==
  ASSUME NEW i \in Intents, NEW old, NEW n, NEW step \in RecoverySteps(i, old, n)
  PROVE  /\ step \in {"wait", "fail_dead_order", "resubmit", "advance", "poll"}
         /\ AfterStep[step] = CASE step = "wait"            -> "requeue"
                                [] step = "fail_dead_order" -> "fail_dead"
                                [] step = "resubmit"        -> "schedule"
                                [] step = "advance"         -> "advance"
                                [] step = "poll"            -> "query"
         /\ step # "wait" => old # "young"
         /\ step = "fail_dead_order" => flow[i] = "redirect"
         /\ step \in {"resubmit", "advance", "poll"} => flow[i] # "redirect"
         /\ step = "advance" => attempt[i].answered
<1>1. step \in {"wait", "fail_dead_order", "resubmit", "advance", "poll"}
  BY DEF RecoverySteps, StepsOnEvidence
<1>2. step # "wait" => old # "young" /\ step \in StepsOnEvidence(i, n)
  BY DEF RecoverySteps, StepsOnEvidence
<1>3. /\ step = "fail_dead_order" => flow[i] = "redirect"
      /\ step \in {"resubmit", "advance", "poll"} => flow[i] # "redirect"
      /\ step = "advance" => attempt[i].answered
  BY <1>2 DEF StepsOnEvidence
<1>4. /\ AfterStep["wait"] = "requeue" /\ AfterStep["fail_dead_order"] = "fail_dead"
      /\ AfterStep["resubmit"] = "schedule" /\ AfterStep["advance"] = "advance"
      /\ AfterStep["poll"] = "query"
  BY DEF AfterStep
<1> QED
  BY <1>1, <1>2, <1>3, <1>4

LEMMA SettleSucceededType ==
  ASSUME TypeOK, NEW i \in Intents, NEW w \in Runners, SettleSucceeded(w, i)
  PROVE  /\ charge' \in [Intents -> ChargeState]
         /\ intent' \in [Intents -> IntentStatus]
         /\ posted' \in [Intents -> Nat]
         /\ sent' \in [Intents -> [Event -> Nat]]
         /\ run' \in [Runners -> RunnerState]
<1>1. charge' \in [Intents -> ChargeState]
  BY DEF SettleSucceeded, TypeOK, ChargeState, Terminal
<1>2. intent' \in [Intents -> IntentStatus]
  BY DEF SettleSucceeded, TypeOK, IntentStatus
<1>3. posted' \in [Intents -> Nat]
  <2>1. posted \in [Intents -> Nat]
    BY DEF TypeOK
  <2>2. posted' = posted \/ posted' = [posted EXCEPT ![i] = @ + 1]
    BY DEF SettleSucceeded
  <2> QED
    BY <2>1, <2>2, PostType
<1>4. sent' \in [Intents -> [Event -> Nat]]
  BY EmitType DEF SettleSucceeded, Event, TypeOK
<1>5. run' \in [Runners -> RunnerState]
  <2>1. Go(w, "finish") \/ Go(w, "park")
    BY DEF SettleSucceeded
  <2> QED
    BY <2>1, Names, GoType
<1> QED
  BY <1>1, <1>2, <1>3, <1>4, <1>5

LEMMA SettleFailedType ==
  ASSUME TypeOK, NEW i \in Intents, NEW w \in Runners, NEW pc \in RunnerPC, SettleFailed(w, i, pc)
  PROVE  /\ charge' \in [Intents -> ChargeState]
         /\ intent' \in [Intents -> IntentStatus]
         /\ sent' \in [Intents -> [Event -> Nat]]
         /\ run' \in [Runners -> RunnerState]
<1>1. charge' \in [Intents -> ChargeState]
  BY DEF SettleFailed, TypeOK, ChargeState, Terminal
<1>2. intent' \in [Intents -> IntentStatus]
  BY DEF SettleFailed, TypeOK, IntentStatus
<1>3. sent' \in [Intents -> [Event -> Nat]]
  BY EmitType DEF SettleFailed, Event, TypeOK
<1>4. run' \in [Runners -> RunnerState]
  <2>1. Go(w, pc) \/ Go(w, "park")
    BY DEF SettleFailed
  <2> QED
    BY <2>1, Names, GoType
<1> QED
  BY <1>1, <1>2, <1>3, <1>4

-----------------------------------------------------------------------------
(* 2. Type correctness.                                                     *)

LEMMA TypeInit == Init => TypeOK
<1> SUFFICES ASSUME Init PROVE TypeOK
  OBVIOUS
<1>1. NoAttempt \in Attempt /\ IdleRequest \in RequestState
  BY Names DEF NoAttempt, Attempt, IdleRequest, RequestState
<1>2. IdleRunner \in RunnerState
  BY Names, ConstantsAssumption DEF IdleRunner, RunnerState
<1>3. sent \in [Intents -> [Event -> Nat]] /\ posted \in [Intents -> Nat]
  BY DEF Init
<1>4. crashes \in 0..MaxCrashes /\ payload \in [Intents -> 0..NotFoundStreak]
  BY ConstantsAssumption DEF Init
<1> QED
  BY <1>1, <1>2, <1>3, <1>4, Names DEF Init, TypeOK

LEMMA LoadConfirmableType ==
  ASSUME TypeOK, NEW r \in Requests, NEW i \in Intents, LoadConfirmable(r, i)
  PROVE TypeOK'
<1>1. req' \in [Requests -> RequestState]
  <2>1. [pc |-> "loaded", i |-> i] \in RequestState
    BY Names DEF RequestState
  <2> QED
    BY <2>1 DEF LoadConfirmable, TypeOK
<1> QED
  BY <1>1 DEF LoadConfirmable, TypeOK, rows

LEMMA OpenChargeType ==
  ASSUME TypeOK, NEW r \in Requests, NEW i \in Intents, OpenCharge(r, i)
  PROVE TypeOK'
<1>1. charge' \in [Intents -> ChargeState]
  BY Names DEF OpenCharge, TypeOK
<1>2. job' \in [Intents -> [Kind -> JobState]]
  BY Names, SetJobType DEF OpenCharge, TypeOK
<1>3. req' \in [Requests -> RequestState]
  BY Names, GoReqType DEF OpenCharge, TypeOK
<1> QED
  BY <1>1, <1>2, <1>3 DEF OpenCharge, TypeOK, rows

LEMMA PrepareOnRailType ==
  ASSUME TypeOK, NEW r \in Requests, NEW i \in Intents, PrepareOnRail(r, i)
  PROVE TypeOK'
<1>1. req' \in [Requests -> RequestState]
  BY Names, GoReqType DEF PrepareOnRail, TypeOK
<1> QED
  BY <1>1 DEF PrepareOnRail, TypeOK, rows

LEMMA RecordPreparedType ==
  ASSUME TypeOK, NEW r \in Requests, NEW i \in Intents, RecordPrepared(r, i)
  PROVE TypeOK'
<1>1. prepared' \in [Intents -> BOOLEAN]
  BY DEF RecordPrepared, TypeOK
<1>2. req' \in [Requests -> RequestState]
  BY Names, GoReqType DEF RecordPrepared, TypeOK
<1> QED
  BY <1>1, <1>2 DEF RecordPrepared, TypeOK, rows

LEMMA OpenAttemptType ==
  ASSUME TypeOK, NEW r \in Requests, NEW i \in Intents, OpenAttempt(r, i)
  PROVE TypeOK'
<1>1. attempt' \in [Intents -> Attempt]
  BY OpenedType DEF OpenAttempt, TypeOK
<1>2. req' \in [Requests -> RequestState]
  BY Names, GoReqType DEF OpenAttempt, TypeOK
<1> QED
  BY <1>1, <1>2 DEF OpenAttempt, TypeOK, rows

LEMMA SubmitToRailType ==
  ASSUME TypeOK, NEW r \in Requests, NEW i \in Intents, SubmitToRail(r, i)
  PROVE TypeOK'
<1>1. rail' \in [Intents -> {"none", "open", "paid", "declined"}]
  BY RailTakesType DEF SubmitToRail, TypeOK
<1>2. req' \in [Requests -> RequestState]
  BY Names, GoReqType DEF SubmitToRail, TypeOK
<1> QED
  BY <1>1, <1>2 DEF SubmitToRail, TypeOK, rows

LEMMA RecordSubmitAnswerType ==
  ASSUME TypeOK, NEW r \in Requests, NEW i \in Intents, RecordSubmitAnswer(r, i)
  PROVE TypeOK'
<1>1. attempt' \in [Intents -> Attempt]
  BY RecordAnsweredType DEF RecordSubmitAnswer, TypeOK
<1>2. req' \in [Requests -> RequestState]
  BY Names, GoReqType DEF RecordSubmitAnswer, TypeOK
<1> QED
  BY <1>1, <1>2 DEF RecordSubmitAnswer, TypeOK, rows

LEMMA PersistSubmittedType ==
  ASSUME TypeOK, NEW r \in Requests, NEW i \in Intents, PersistSubmitted(r, i)
  PROVE TypeOK'
<1>1. charge' \in [Intents -> ChargeState]
  BY Names DEF PersistSubmitted, TypeOK
<1>2. url' \in [Intents -> BOOLEAN]
  BY DEF PersistSubmitted, TypeOK
<1>3. prepared' \in [Intents -> BOOLEAN]
  BY DEF PersistSubmitted, TypeOK
<1>4. intent' \in [Intents -> IntentStatus]
  <2>1. StatusAfterConfirm(i) \in IntentStatus
    BY Names DEF StatusAfterConfirm
  <2>2. intent' = intent \/ intent' = [intent EXCEPT ![i] = StatusAfterConfirm(i)]
    BY DEF PersistSubmitted
  <2> QED
    BY <2>1, <2>2 DEF TypeOK
<1>5. req' \in [Requests -> RequestState]
  BY Names, GoReqType DEF PersistSubmitted, TypeOK
<1> QED
  BY <1>1, <1>2, <1>3, <1>4, <1>5 DEF PersistSubmitted, TypeOK, rows

LEMMA PersistDeclineType ==
  ASSUME TypeOK, NEW r \in Requests, NEW i \in Intents, PersistDecline(r, i)
  PROVE TypeOK'
<1>1. charge' \in [Intents -> ChargeState]
  BY Names DEF PersistDecline, TypeOK
<1>2. sent' \in [Intents -> [Event -> Nat]]
  BY Names, EmitType DEF PersistDecline, TypeOK
<1>3. req' \in [Requests -> RequestState]
  BY Names, GoReqType DEF PersistDecline, TypeOK
<1> QED
  BY <1>1, <1>2, <1>3 DEF PersistDecline, TypeOK, rows

LEMMA NoteDeclineType ==
  ASSUME TypeOK, NEW r \in Requests, NEW i \in Intents, NoteDecline(r, i)
  PROVE TypeOK'
<1>1. attempt' \in [Intents -> Attempt]
  BY RecordAnsweredType DEF NoteDecline, TypeOK
<1>2. req' \in [Requests -> RequestState]
  BY Names, GoReqType DEF NoteDecline, TypeOK
<1> QED
  BY <1>1, <1>2 DEF NoteDecline, TypeOK, rows

LEMMA CrashRequestType ==
  ASSUME TypeOK, NEW r \in Requests, CrashRequest(r)
  PROVE TypeOK'
<1>1. crashes' \in 0..MaxCrashes
  BY ConstantsAssumption DEF CrashRequest, TypeOK
<1>2. req' \in [Requests -> RequestState]
  BY Names, GoReqType DEF CrashRequest, TypeOK
<1> QED
  BY <1>1, <1>2 DEF CrashRequest, TypeOK, rows

LEMMA CancelSnapshotType ==
  ASSUME TypeOK, NEW i \in Intents, CancelSnapshot(i)
  PROVE TypeOK'
<1>1. cancel' \in [Intents -> BOOLEAN]
  BY DEF CancelSnapshot, TypeOK
<1> QED
  BY <1>1 DEF CancelSnapshot, TypeOK, rows

LEMMA CancelCommitType ==
  ASSUME TypeOK, NEW i \in Intents, CancelCommit(i)
  PROVE TypeOK'
<1>1. cancel' \in [Intents -> BOOLEAN]
  BY DEF CancelCommit, TypeOK
<1>2. intent' \in [Intents -> IntentStatus]
  BY Names DEF CancelCommit, TypeOK
<1>3. sent' \in [Intents -> [Event -> Nat]]
  BY Names, EmitType DEF CancelCommit, TypeOK
<1> QED
  BY <1>1, <1>2, <1>3 DEF CancelCommit, TypeOK, rows

LEMMA ClaimType ==
  ASSUME TypeOK, NEW w \in Runners, NEW i \in Intents, NEW k \in Kind, Claim(w, i, k)
  PROVE TypeOK'
<1>1. job' \in [Intents -> [Kind -> JobState]]
  BY Names, SetJobType DEF Claim, TypeOK
<1>2. run' \in [Runners -> RunnerState]
  <2>1. [IdleRunner EXCEPT !.pc = "load", !.i = i, !.kind = k, !.n = payload[i]]
          \in RunnerState
    BY Names, ConstantsAssumption DEF IdleRunner, RunnerState, TypeOK
  <2> QED
    BY <2>1 DEF Claim, TypeOK
<1> QED
  BY <1>1, <1>2 DEF Claim, TypeOK, rows

LEMMA SettleJobType ==
  ASSUME TypeOK, NEW w \in Runners, NEW i \in Intents, NEW k \in Kind, SettleJob(w, i, k)
  PROVE TypeOK'
<1>1. job' \in [Intents -> [Kind -> JobState]]
  BY Names, SetJobType DEF SettleJob, TypeOK
<1>2. run' \in [Runners -> RunnerState]
  <2>1. IdleRunner \in RunnerState
    BY Names, ConstantsAssumption DEF IdleRunner, RunnerState
  <2> QED
    BY <2>1 DEF SettleJob, TypeOK
<1> QED
  BY <1>1, <1>2 DEF SettleJob, TypeOK, rows

LEMMA ReapLeaseType ==
  ASSUME TypeOK, NEW i \in Intents, NEW k \in Kind, ReapLease(i, k)
  PROVE TypeOK'
<1>1. job' \in [Intents -> [Kind -> JobState]]
  BY Names, SetJobType DEF ReapLease, TypeOK
<1> QED
  BY <1>1 DEF ReapLease, TypeOK, rows

LEMMA CrashRunnerType ==
  ASSUME TypeOK, NEW w \in Runners, CrashRunner(w)
  PROVE TypeOK'
<1>1. crashes' \in 0..MaxCrashes
  BY ConstantsAssumption DEF CrashRunner, TypeOK
<1>2. run' \in [Runners -> RunnerState]
  <2>1. IdleRunner \in RunnerState
    BY Names, ConstantsAssumption DEF IdleRunner, RunnerState
  <2> QED
    BY <2>1 DEF CrashRunner, TypeOK
<1> QED
  BY <1>1, <1>2 DEF CrashRunner, TypeOK, rows

LEMMA EscalateType ==
  ASSUME TypeOK, NEW w \in Runners, NEW i \in Intents, NEW k \in Kind, Escalate(w, i, k)
  PROVE TypeOK'
<1>1. charge' \in [Intents -> ChargeState]
  BY RunnerFields, SetLiveStateType, Names DEF Escalate, TypeOK
<1>2. run' \in [Runners -> RunnerState]
  BY Names, GoType DEF Escalate, TypeOK
<1> QED
  BY <1>1, <1>2 DEF Escalate, TypeOK, rows

LEMMA PollLoadType ==
  ASSUME TypeOK, NEW w \in Runners, NEW i \in Intents, PollLoad(w, i)
  PROVE TypeOK'
<1>1. run' \in [Runners -> RunnerState]
  <2>1. /\ run[w] \in RunnerState /\ charge[i] \in ChargeState
        /\ age[i] \in {"young", "mature", "late"}
    BY DEF TypeOK
  <2>2. PICK pc \in {"finish", "evidence", "query"} : Look(w, pc, charge[i], age[i])
    BY DEF PollLoad
  <2>3. [run[w] EXCEPT !.pc = pc, !.seen = charge[i], !.old = age[i]] \in RunnerState
    BY <2>1, Put, Names
  <2> QED
    BY <2>2, <2>3 DEF Look, TypeOK
<1> QED
  BY <1>1 DEF PollLoad, TypeOK, rows

LEMMA PollRecoverType ==
  ASSUME TypeOK, NEW w \in Runners, NEW i \in Intents, PollRecover(w, i)
  PROVE TypeOK'
<1>1. run' \in [Runners -> RunnerState]
  <2>1. \E pc \in {"requeue", "fail_dead", "schedule", "advance", "query"} : Go(w, pc)
    BY RecoveryGoes DEF PollRecover
  <2> QED
    BY <2>1, Names, GoType
<1> QED
  BY <1>1 DEF PollRecover, TypeOK, rows

LEMMA AdvanceAnsweredType ==
  ASSUME TypeOK, NEW w \in Runners, NEW i \in Intents, AdvanceAnswered(w, i)
  PROVE TypeOK'
<1>1. charge' \in [Intents -> ChargeState]
  BY Names, SetLiveStateType DEF AdvanceAnswered
<1>2. run' \in [Runners -> RunnerState]
  BY Names, RunnerFields, GoType DEF AdvanceAnswered
<1> QED
  BY <1>1, <1>2 DEF AdvanceAnswered, TypeOK, rows

LEMMA ScheduleResubmitType ==
  ASSUME TypeOK, NEW w \in Runners, NEW i \in Intents, ScheduleResubmit(w, i)
  PROVE TypeOK'
<1>1. job' \in [Intents -> [Kind -> JobState]]
  <2>1. job' = job \/ job' = [job EXCEPT ![i]["resubmit"] = "queued"]
    BY DEF ScheduleResubmit
  <2> QED
    BY <2>1, Names, SetJobType DEF TypeOK
<1>2. run' \in [Runners -> RunnerState]
  BY Names, GoType DEF ScheduleResubmit
<1> QED
  BY <1>1, <1>2 DEF ScheduleResubmit, TypeOK, rows

LEMMA ResetStreakType ==
  ASSUME TypeOK, NEW w \in Runners, NEW i \in Intents, ResetStreak(w, i)
  PROVE TypeOK'
<1>1. payload' \in [Intents -> 0..NotFoundStreak]
  BY RememberType, ConstantsAssumption DEF ResetStreak
<1>2. run' \in [Runners -> RunnerState]
  BY Names, GoType DEF ResetStreak, KeepPolling
<1> QED
  BY <1>1, <1>2 DEF ResetStreak, TypeOK, rows

LEMMA RememberDenialType ==
  ASSUME TypeOK, NEW w \in Runners, NEW i \in Intents, RememberDenial(w, i)
  PROVE TypeOK'
<1>1. payload' \in [Intents -> 0..NotFoundStreak]
  BY RememberType, DenialsType DEF RememberDenial
<1>2. run' \in [Runners -> RunnerState]
  BY Names, GoType DEF RememberDenial, KeepPolling
<1> QED
  BY <1>1, <1>2 DEF RememberDenial, TypeOK, rows

LEMMA FailDeadOrderType ==
  ASSUME TypeOK, NEW w \in Runners, NEW i \in Intents, FailDeadOrder(w, i)
  PROVE TypeOK'
<1>1. charge' \in [Intents -> ChargeState]
  BY SettleFailedType, Names DEF FailDeadOrder, TypeOK
<1>2. intent' \in [Intents -> IntentStatus]
  BY SettleFailedType, Names DEF FailDeadOrder, TypeOK
<1>3. sent' \in [Intents -> [Event -> Nat]]
  BY SettleFailedType, Names DEF FailDeadOrder, TypeOK
<1>4. run' \in [Runners -> RunnerState]
  BY SettleFailedType, Names DEF FailDeadOrder, TypeOK
<1> QED
  BY <1>1, <1>2, <1>3, <1>4 DEF FailDeadOrder, TypeOK, rows

LEMMA QueryRailType ==
  ASSUME TypeOK, NEW w \in Runners, NEW i \in Intents, QueryRail(w, i)
  PROVE TypeOK'
<1>1. run' \in [Runners -> RunnerState]
  <2>1. PICK a \in RailSays(i) : Hear(w, "act", a)
    BY DEF QueryRail
  <2> QED
    BY <2>1, Names, RailSaysType, GoType
<1> QED
  BY <1>1 DEF QueryRail, TypeOK, rows

LEMMA QueryFailsType ==
  ASSUME TypeOK, NEW w \in Runners, NEW i \in Intents, QueryFails(w, i)
  PROVE TypeOK'
<1>1. run' \in [Runners -> RunnerState]
  BY Names, GoType DEF QueryFails, TypeOK
<1> QED
  BY <1>1 DEF QueryFails, TypeOK, rows

LEMMA ActSucceededType ==
  ASSUME TypeOK, NEW w \in Runners, NEW i \in Intents, ActSucceeded(w, i)
  PROVE TypeOK'
<1>1. charge' \in [Intents -> ChargeState]
  BY SettleSucceededType DEF ActSucceeded, TypeOK
<1>2. intent' \in [Intents -> IntentStatus]
  BY SettleSucceededType DEF ActSucceeded, TypeOK
<1>3. posted' \in [Intents -> Nat]
  BY SettleSucceededType DEF ActSucceeded, TypeOK
<1>4. sent' \in [Intents -> [Event -> Nat]]
  BY SettleSucceededType DEF ActSucceeded, TypeOK
<1>5. run' \in [Runners -> RunnerState]
  BY SettleSucceededType DEF ActSucceeded, TypeOK
<1> QED
  BY <1>1, <1>2, <1>3, <1>4, <1>5 DEF ActSucceeded, TypeOK, rows

LEMMA ActFailedType ==
  ASSUME TypeOK, NEW w \in Runners, NEW i \in Intents, ActFailed(w, i)
  PROVE TypeOK'
<1>1. charge' \in [Intents -> ChargeState]
  BY SettleFailedType, Names DEF ActFailed, TypeOK
<1>2. intent' \in [Intents -> IntentStatus]
  BY SettleFailedType, Names DEF ActFailed, TypeOK
<1>3. sent' \in [Intents -> [Event -> Nat]]
  BY SettleFailedType, Names DEF ActFailed, TypeOK
<1>4. run' \in [Runners -> RunnerState]
  BY SettleFailedType, Names DEF ActFailed, TypeOK
<1> QED
  BY <1>1, <1>2, <1>3, <1>4 DEF ActFailed, TypeOK, rows

LEMMA ActPendingType ==
  ASSUME TypeOK, NEW w \in Runners, NEW i \in Intents, ActPending(w, i)
  PROVE TypeOK'
<1>1. charge' \in [Intents -> ChargeState]
  BY Names, SetLiveStateType DEF ActPending, TypeOK
<1>2. run' \in [Runners -> RunnerState]
  BY Names, GoType DEF ActPending
<1> QED
  BY <1>1, <1>2 DEF ActPending, TypeOK, rows

LEMMA PollRecoverGoes ==
  ASSUME NEW w \in Runners, NEW i \in Intents, PollRecover(w, i)
  PROVE  \/ Go(w, "requeue")
         \/ /\ run[w].old # "young"
            /\ \/ Go(w, "fail_dead") /\ flow[i] = "redirect"
               \/ Go(w, "schedule") /\ flow[i] # "redirect"
               \/ Go(w, "advance") /\ flow[i] # "redirect" /\ attempt[i].answered
               \/ Go(w, "query") /\ flow[i] # "redirect"
<1>1. PICK step \in RecoverySteps(i, run[w].old, run[w].n) : Go(w, AfterStep[step])
  BY DEF PollRecover
<1> QED
  BY <1>1, RecoveryGoes

LEMMA ActNotFoundGoes ==
  ASSUME NEW w \in Runners, NEW i \in Intents, ActNotFound(w, i)
  PROVE  \/ Go(w, "deny")
         \/ /\ run[w].seen = "submitting" /\ run[w].old # "young"
            /\ \/ Go(w, "fail_dead") /\ flow[i] = "redirect"
               \/ Go(w, "schedule") /\ flow[i] # "redirect"
BY RecoveryGoes DEF ActNotFound

LEMMA ActNotFoundType ==
  ASSUME TypeOK, NEW w \in Runners, NEW i \in Intents, ActNotFound(w, i)
  PROVE TypeOK'
<1>1. run' \in [Runners -> RunnerState]
  BY ActNotFoundGoes, Names, GoType
<1> QED
  BY <1>1 DEF ActNotFound, TypeOK, rows

LEMMA ResubmitLoadType ==
  ASSUME TypeOK, NEW w \in Runners, NEW i \in Intents, ResubmitLoad(w, i)
  PROVE TypeOK'
<1>1. run' \in [Runners -> RunnerState]
  BY Names, GoType DEF ResubmitLoad, TypeOK
<1> QED
  BY <1>1 DEF ResubmitLoad, TypeOK, rows

LEMMA PrepareAgainType ==
  ASSUME TypeOK, NEW w \in Runners, NEW i \in Intents, PrepareAgain(w, i)
  PROVE TypeOK'
<1>1. run' \in [Runners -> RunnerState]
  BY GoType, Names DEF PrepareAgain
<1> QED
  BY <1>1 DEF PrepareAgain, TypeOK, rows

LEMMA RecordPreparedAgainType ==
  ASSUME TypeOK, NEW w \in Runners, NEW i \in Intents, RecordPreparedAgain(w, i)
  PROVE TypeOK'
<1>1. prepared' \in [Intents -> BOOLEAN]
  BY DEF RecordPreparedAgain, TypeOK
<1>2. run' \in [Runners -> RunnerState]
  BY GoType, Names DEF RecordPreparedAgain
<1> QED
  BY <1>1, <1>2 DEF RecordPreparedAgain, TypeOK, rows

LEMMA SettleRefusedType ==
  ASSUME TypeOK, NEW w \in Runners, NEW i \in Intents, SettleRefused(w, i)
  PROVE TypeOK'
<1>1. charge' \in [Intents -> ChargeState]
  BY SettleFailedType, Names DEF SettleRefused, TypeOK
<1>2. intent' \in [Intents -> IntentStatus]
  BY SettleFailedType, Names DEF SettleRefused, TypeOK
<1>3. sent' \in [Intents -> [Event -> Nat]]
  BY SettleFailedType, Names DEF SettleRefused, TypeOK
<1>4. run' \in [Runners -> RunnerState]
  BY SettleFailedType, Names DEF SettleRefused, TypeOK
<1> QED
  BY <1>1, <1>2, <1>3, <1>4 DEF SettleRefused, TypeOK, rows

LEMMA OpenResubmitType ==
  ASSUME TypeOK, NEW w \in Runners, NEW i \in Intents, OpenResubmit(w, i)
  PROVE TypeOK'
<1>1. attempt' \in [Intents -> Attempt]
  BY OpenedType DEF OpenResubmit, TypeOK
<1>2. run' \in [Runners -> RunnerState]
  BY Names, GoType DEF OpenResubmit, TypeOK
<1> QED
  BY <1>1, <1>2 DEF OpenResubmit, TypeOK, rows

LEMMA SubmitAgainType ==
  ASSUME TypeOK, NEW w \in Runners, NEW i \in Intents, SubmitAgain(w, i)
  PROVE TypeOK'
<1>1. rail' \in [Intents -> {"none", "open", "paid", "declined"}]
  BY RailTakesType DEF SubmitAgain, TypeOK
<1>2. run' \in [Runners -> RunnerState]
  <2>1. PICK a \in Answer : RailTakes(i, a) /\ Hear(w,
               CASE a \in {"ok", "rejected"} -> "answered"
                 [] a = "transport"         -> "requeue"
                 [] a = "reconcile"         -> "escalate"
                 [] a = "config"            -> "park", a)
    BY DEF SubmitAgain
  <2>2. PICK pc \in {"answered", "requeue", "escalate", "park"} : Hear(w, pc, a)
    BY <2>1, RailTakesType
  <2> QED
    BY <2>2, Names, GoType
<1> QED
  BY <1>1, <1>2 DEF SubmitAgain, TypeOK, rows

LEMMA RecordResubmitAnswerType ==
  ASSUME TypeOK, NEW w \in Runners, NEW i \in Intents, RecordResubmitAnswer(w, i)
  PROVE TypeOK'
<1>1. attempt' \in [Intents -> Attempt]
  BY RecordAnsweredType DEF RecordResubmitAnswer, TypeOK
<1>2. run' \in [Runners -> RunnerState]
  BY Names, GoType DEF RecordResubmitAnswer, TypeOK
<1> QED
  BY <1>1, <1>2 DEF RecordResubmitAnswer, TypeOK, rows

LEMMA SettleRejectedType ==
  ASSUME TypeOK, NEW w \in Runners, NEW i \in Intents, SettleRejected(w, i)
  PROVE TypeOK'
<1>1. charge' \in [Intents -> ChargeState]
  BY SettleFailedType, Names DEF SettleRejected, TypeOK
<1>2. intent' \in [Intents -> IntentStatus]
  BY SettleFailedType, Names DEF SettleRejected, TypeOK
<1>3. sent' \in [Intents -> [Event -> Nat]]
  BY SettleFailedType, Names DEF SettleRejected, TypeOK
<1>4. run' \in [Runners -> RunnerState]
  BY SettleFailedType, Names DEF SettleRejected, TypeOK
<1> QED
  BY <1>1, <1>2, <1>3, <1>4 DEF SettleRejected, TypeOK, rows

LEMMA NoteRejectedType ==
  ASSUME TypeOK, NEW w \in Runners, NEW i \in Intents, NoteRejected(w, i)
  PROVE TypeOK'
<1>1. attempt' \in [Intents -> Attempt]
  BY RecordAnsweredType DEF NoteRejected, TypeOK
<1>2. run' \in [Runners -> RunnerState]
  BY Names, GoType DEF NoteRejected, TypeOK
<1> QED
  BY <1>1, <1>2 DEF NoteRejected, TypeOK, rows

LEMMA CommitResubmissionType ==
  ASSUME TypeOK, NEW w \in Runners, NEW i \in Intents, CommitResubmission(w, i)
  PROVE TypeOK'
<1>1. charge' \in [Intents -> ChargeState]
  BY Names DEF CommitResubmission, TypeOK
<1>2. prepared' \in [Intents -> BOOLEAN]
  BY DEF CommitResubmission, TypeOK
<1>3. job' \in [Intents -> [Kind -> JobState]]
  <2>1. job' = job \/ job' = [job EXCEPT ![i]["poll"] = "queued"]
    BY DEF CommitResubmission
  <2> QED
    BY <2>1, Names, SetJobType DEF TypeOK
<1>4. run' \in [Runners -> RunnerState]
  BY Names, GoType DEF CommitResubmission, TypeOK
<1> QED
  BY <1>1, <1>2, <1>3, <1>4 DEF CommitResubmission, TypeOK, rows

LEMMA ScanLiveChargesType ==
  ASSUME TypeOK, NEW i \in Intents, ScanLiveCharges(i)
  PROVE TypeOK'
<1>1. job' \in [Intents -> [Kind -> JobState]]
  BY Names, SetJobType DEF ScanLiveCharges, TypeOK
<1> QED
  BY <1>1 DEF ScanLiveCharges, TypeOK, rows

LEMMA ChargeAgesType ==
  ASSUME TypeOK, NEW i \in Intents, ChargeAges(i)
  PROVE TypeOK'
<1>1. age' \in [Intents -> {"young", "mature", "late"}]
  BY DEF ChargeAges, TypeOK
<1> QED
  BY <1>1 DEF ChargeAges, TypeOK, rows

LEMMA PayerPaysType ==
  ASSUME TypeOK, NEW i \in Intents, PayerPays(i)
  PROVE TypeOK'
<1>1. rail' \in [Intents -> {"none", "open", "paid", "declined"}]
  BY DEF PayerPays, TypeOK
<1> QED
  BY <1>1 DEF PayerPays, TypeOK, rows

LEMMA RailDeclinesType ==
  ASSUME TypeOK, NEW i \in Intents, RailDeclines(i)
  PROVE TypeOK'
<1>1. rail' \in [Intents -> {"none", "open", "paid", "declined"}]
  BY DEF RailDeclines, TypeOK
<1> QED
  BY <1>1 DEF RailDeclines, TypeOK, rows

LEMMA TypeNext ==
  ASSUME TypeOK, [Next]_vars
  PROVE TypeOK'
<1>1. ASSUME NEW r \in Requests, NEW i \in Intents, Confirm(r, i) PROVE TypeOK'
  BY <1>1, LoadConfirmableType, OpenChargeType, PrepareOnRailType, RecordPreparedType,
     OpenAttemptType, SubmitToRailType, RecordSubmitAnswerType, PersistSubmittedType,
     PersistDeclineType, NoteDeclineType DEF Confirm
<1>2. ASSUME NEW w \in Runners, NEW i \in Intents, Poll(w, i) PROVE TypeOK'
  BY <1>2, Names, PollLoadType, PollRecoverType, FailDeadOrderType, QueryRailType,
     QueryFailsType, ActSucceededType, ActFailedType, ActPendingType, ActNotFoundType,
     AdvanceAnsweredType, ScheduleResubmitType, ResetStreakType, RememberDenialType,
     EscalateType DEF Poll
<1>3. ASSUME NEW w \in Runners, NEW i \in Intents, Resubmit(w, i) PROVE TypeOK'
  BY <1>3, Names, ResubmitLoadType, PrepareAgainType, RecordPreparedAgainType,
     SettleRefusedType, OpenResubmitType, SubmitAgainType, RecordResubmitAnswerType,
     SettleRejectedType, NoteRejectedType, CommitResubmissionType, EscalateType DEF Resubmit
<1>4. ASSUME NEW i \in Intents, Rail(i) PROVE TypeOK'
  BY <1>4, PayerPaysType, RailDeclinesType DEF Rail
<1>5. CASE UNCHANGED vars
  BY <1>5 DEF vars, rows, TypeOK
<1> QED
  BY <1>1, <1>2, <1>3, <1>4, <1>5, CrashRequestType, CancelSnapshotType, CancelCommitType,
     ScanLiveChargesType, ChargeAgesType, ReapLeaseType, CrashRunnerType, ClaimType,
     SettleJobType DEF Next, Onto, Step

-----------------------------------------------------------------------------
(* 3. The inductive invariant.  A settlement is one transaction over four    *)
(* rows, so Books relates them; a runner writes a live state only over the   *)
(* live state it saw, and works only for an intent that has a charge.        *)

\* What the four rows of a settlement say of each other.
Books ==
  \A i \in Intents :
    /\ intent[i] = "succeeded" <=> charge[i] = "succeeded"
    /\ posted[i] = (IF charge[i] = "succeeded" THEN 1 ELSE 0)
    /\ sent[i]["succeeded"] = (IF charge[i] = "succeeded" THEN 1 ELSE 0)
    /\ sent[i]["canceled"] = (IF intent[i] = "canceled" THEN 1 ELSE 0)
    /\ \/ sent[i]["payment_failed"] = 0
       \/ sent[i]["payment_failed"] = 1 /\ charge[i] = "failed"

\* The steps at which a runner may still write the state it saw.
Holding == {"evidence", "schedule", "advance", "query", "act", "reset", "deny", "fail_dead",
            "escalate", "prepare", "prepared", "refused", "open", "submit", "answered",
            "commit", "note"}

\* No job, and no runner, without a charge.
JobsHaveCharges ==
  \A i \in Intents, k \in Kind : job[i][k] # "absent" => charge[i] # "none"

RunnersHaveCharges ==
  \A w \in Runners, i \in Intents : run[w].pc # "idle" /\ run[w].i = i => charge[i] # "none"

\* What a runner may still write from is a live state.
SeenIsLive == \A w \in Runners : run[w].pc \in Holding => run[w].seen \in Live

IInv == TypeOK /\ Books /\ JobsHaveCharges /\ RunnersHaveCharges /\ SeenIsLive

\* A charge is never deleted.
ChargesStay == \A j \in Intents : charge[j] # "none" => charge'[j] # "none"

-----------------------------------------------------------------------------
LEMMA StatusAfterConfirmIs ==
  ASSUME NEW i \in Intents
  PROVE StatusAfterConfirm(i) \in {"processing", "requires_action"}
  BY DEF StatusAfterConfirm

LEMMA RunTyped == TypeOK => run \in [Runners -> RunnerState]
  BY DEF TypeOK

\* The request or runner that moves, seen one field at a time.
LEMMA GoReqMoves ==
  ASSUME TypeOK, NEW r \in Requests, NEW pc, GoReq(r, pc)
  PROVE  /\ \A q \in Requests : q # r => req'[q] = req[q]
         /\ \A q \in Requests : req'[q].i = req[q].i
         /\ req'[r].pc = pc
<1>1. req \in [Requests -> RequestState]
  BY DEF TypeOK
<1> QED
  BY <1>1 DEF GoReq, RequestState

LEMMA GoMoves ==
  ASSUME TypeOK, NEW w \in Runners, NEW pc, Go(w, pc)
  PROVE  /\ \A v \in Runners : v # w => run'[v] = run[v]
         /\ \A v \in Runners : run'[v].i = run[v].i /\ run'[v].kind = run[v].kind
         /\ run'[w].pc = pc /\ run'[w].seen = run[w].seen /\ run'[w].old = run[w].old
         /\ run'[w].ans = run[w].ans
  BY RunTyped DEF Go, RunnerState

LEMMA HearMoves ==
  ASSUME TypeOK, NEW w \in Runners, NEW pc, NEW a, Hear(w, pc, a)
  PROVE  /\ \A v \in Runners : v # w => run'[v] = run[v]
         /\ \A v \in Runners : run'[v].i = run[v].i /\ run'[v].kind = run[v].kind
         /\ run'[w].pc = pc /\ run'[w].seen = run[w].seen /\ run'[w].old = run[w].old
         /\ run'[w].ans = a
  BY RunTyped DEF Hear, RunnerState

LEMMA SeeMoves ==
  ASSUME TypeOK, NEW w \in Runners, NEW pc, NEW c, See(w, pc, c)
  PROVE  /\ \A v \in Runners : v # w => run'[v] = run[v]
         /\ \A v \in Runners : run'[v].i = run[v].i /\ run'[v].kind = run[v].kind
         /\ run'[w].pc = pc /\ run'[w].seen = c /\ run'[w].old = run[w].old
         /\ run'[w].ans = run[w].ans
  BY RunTyped DEF See, RunnerState

LEMMA LookMoves ==
  ASSUME TypeOK, NEW w \in Runners, NEW pc, NEW c, NEW o, Look(w, pc, c, o)
  PROVE  /\ \A v \in Runners : v # w => run'[v] = run[v]
         /\ \A v \in Runners : run'[v].i = run[v].i /\ run'[v].kind = run[v].kind
         /\ run'[w].pc = pc /\ run'[w].seen = c /\ run'[w].old = o
         /\ run'[w].ans = run[w].ans
  BY RunTyped DEF Look, RunnerState

LEMMA GoLinked ==
  ASSUME TypeOK, RunnersHaveCharges, SeenIsLive, ChargesStay, NEW w \in Runners, NEW pc, NEW a,
         run[w].pc # "idle", pc \in Holding => run[w].pc \in Holding,
         Go(w, pc) \/ Hear(w, pc, a)
  PROVE RunnersHaveCharges' /\ SeenIsLive'
<1>1. /\ \A v \in Runners : v # w => run'[v] = run[v]
      /\ run'[w].pc = pc /\ run'[w].i = run[w].i /\ run'[w].seen = run[w].seen
  BY GoMoves, HearMoves
<1> QED
  BY <1>1 DEF RunnersHaveCharges, SeenIsLive, ChargesStay

LEMMA SeeLinked ==
  ASSUME TypeOK, RunnersHaveCharges, SeenIsLive, ChargesStay, NEW w \in Runners, NEW pc, NEW c,
         run[w].pc # "idle", pc \in Holding => c \in Live, See(w, pc, c)
  PROVE RunnersHaveCharges' /\ SeenIsLive'
<1>1. /\ \A v \in Runners : v # w => run'[v] = run[v]
      /\ run'[w].pc = pc /\ run'[w].i = run[w].i /\ run'[w].seen = c
  BY SeeMoves
<1> QED
  BY <1>1 DEF RunnersHaveCharges, SeenIsLive, ChargesStay

LEMMA RestLinked ==
  ASSUME TypeOK, RunnersHaveCharges, SeenIsLive, ChargesStay, NEW w \in Runners,
         run' = [run EXCEPT ![w] = IdleRunner]
  PROVE RunnersHaveCharges' /\ SeenIsLive'
<1>1. /\ \A v \in Runners : v # w => run'[v] = run[v]
      /\ run'[w] = IdleRunner
  BY RunTyped
<1> QED
  BY <1>1 DEF RunnersHaveCharges, SeenIsLive, ChargesStay, IdleRunner, Holding

LEMMA SetJobLinked ==
  ASSUME TypeOK, JobsHaveCharges, ChargesStay, NEW i \in Intents, NEW k \in Kind, NEW v,
         charge'[i] # "none", job' = [job EXCEPT ![i][k] = v]
  PROVE JobsHaveCharges'
  BY DEF TypeOK, JobsHaveCharges, ChargesStay

LEMMA BooksSettleSucceeded ==
  ASSUME TypeOK, Books, NEW w \in Runners, NEW i \in Intents, SettleSucceeded(w, i)
  PROVE Books'
<1>1. CASE UNCHANGED <<charge, intent, posted, sent>>
  BY <1>1 DEF Books
<1>2. CASE ~ UNCHANGED <<charge, intent, posted, sent>>
  <2>1. /\ charge[i] \in Live /\ intent[i] \in Settleable
        /\ charge' = [charge EXCEPT ![i] = "succeeded"]
        /\ intent' = [intent EXCEPT ![i] = "succeeded"]
        /\ posted' = [posted EXCEPT ![i] = @ + 1]
        /\ Emit(i, "succeeded")
    BY <1>2 DEF SettleSucceeded
  <2>2. /\ posted \in [Intents -> Nat] /\ sent \in [Intents -> [Event -> Nat]]
        /\ charge \in [Intents -> ChargeState] /\ intent \in [Intents -> IntentStatus]
    BY DEF TypeOK
  <2> QED
    BY <2>1, <2>2 DEF Books, Live, Settleable, Emit, Event
<1> QED
  BY <1>1, <1>2

LEMMA BooksSettleFailed ==
  ASSUME TypeOK, Books, NEW w \in Runners, NEW i \in Intents, NEW pc,
         SettleFailed(w, i, pc), UNCHANGED posted
  PROVE Books'
<1>1. CASE UNCHANGED <<charge, intent, posted, sent>>
  BY <1>1 DEF Books
<1>2. CASE ~ UNCHANGED <<charge, intent, posted, sent>>
  <2>1. /\ charge[i] \in Live /\ intent[i] \in Settleable
        /\ charge' = [charge EXCEPT ![i] = "failed"]
        /\ intent' = [intent EXCEPT ![i] = "requires_payment_method"]
        /\ Emit(i, "payment_failed")
    BY <1>2 DEF SettleFailed
  <2>2. /\ posted \in [Intents -> Nat] /\ sent \in [Intents -> [Event -> Nat]]
        /\ charge \in [Intents -> ChargeState] /\ intent \in [Intents -> IntentStatus]
    BY DEF TypeOK
  <2> QED
    BY <2>1, <2>2 DEF Books, Live, Settleable, Emit, Event
<1> QED
  BY <1>1, <1>2

LEMMA BooksSetLiveState ==
  ASSUME TypeOK, Books, NEW i \in Intents, NEW c \in Live, NEW d \in Live,
         SetLiveState(i, c, d), UNCHANGED <<intent, posted, sent>>
  PROVE Books' /\ ChargesStay
<1>1. charge \in [Intents -> ChargeState]
  BY DEF TypeOK
<1>2. charge' = charge \/ (charge[i] \in Live /\ charge' = [charge EXCEPT ![i] = d])
  BY DEF SetLiveState
<1> QED
  BY <1>1, <1>2 DEF Books, ChargesStay, Live

LEMMA BooksSame ==
  ASSUME Books, UNCHANGED <<intent, charge, posted, sent>>
  PROVE Books' /\ ChargesStay
  BY DEF Books, ChargesStay

LEMMA SettledStays ==
  ASSUME TypeOK, NEW w \in Runners, NEW i \in Intents, NEW pc,
         SettleSucceeded(w, i) \/ SettleFailed(w, i, pc)
  PROVE  /\ ChargesStay
         /\ \/ Go(w, pc) \/ Go(w, "park")
            \/ SettleSucceeded(w, i) /\ Go(w, "finish")
<1>1. charge \in [Intents -> ChargeState]
  BY DEF TypeOK
<1> QED
  BY <1>1 DEF SettleSucceeded, SettleFailed, ChargesStay

LEMMA LoadConfirmableInv ==
  ASSUME IInv, NEW r \in Requests, NEW i \in Intents, LoadConfirmable(r, i)
  PROVE IInv'
<1>1. /\ TypeOK /\ TypeOK' /\ Books
      /\ JobsHaveCharges /\ RunnersHaveCharges /\ SeenIsLive
  BY LoadConfirmableType DEF IInv
<1>2. Books' /\ ChargesStay
  BY <1>1, BooksSame DEF LoadConfirmable, rows
<1>3. JobsHaveCharges'
  BY <1>1, <1>2 DEF LoadConfirmable, rows, JobsHaveCharges, ChargesStay
<1>4. RunnersHaveCharges' /\ SeenIsLive'
  BY <1>1, <1>2 DEF LoadConfirmable, RunnersHaveCharges, SeenIsLive, ChargesStay
<1> QED
  BY <1>1, <1>2, <1>3, <1>4 DEF IInv

LEMMA OpenChargeInv ==
  ASSUME IInv, NEW r \in Requests, NEW i \in Intents, OpenCharge(r, i)
  PROVE IInv'
<1>1. /\ TypeOK /\ TypeOK' /\ Books
      /\ JobsHaveCharges /\ RunnersHaveCharges /\ SeenIsLive
  BY OpenChargeType DEF IInv
<1>2. Books' /\ ChargesStay
  <2>1. /\ posted \in [Intents -> Nat] /\ sent \in [Intents -> [Event -> Nat]]
        /\ charge \in [Intents -> ChargeState] /\ intent \in [Intents -> IntentStatus]
    BY <1>1 DEF TypeOK
  <2> QED
    BY <1>1, <2>1, StatusAfterConfirmIs DEF OpenCharge, Books, ChargesStay, Emit, Event
<1>3. JobsHaveCharges'
  <2>1. PICK k \in Kind, v \in JobState : job' = job \/ job' = [job EXCEPT ![i][k] = v]
    BY Names DEF OpenCharge
  <2>2. charge'[i] # "none"
    BY <1>1, <1>2 DEF OpenCharge, At, RunnersHaveCharges, ChargesStay, TypeOK, Live
  <2> QED
    BY <1>1, <1>2, <2>1, <2>2, SetJobLinked DEF JobsHaveCharges, ChargesStay
<1>4. RunnersHaveCharges' /\ SeenIsLive'
  BY <1>1, <1>2 DEF OpenCharge, RunnersHaveCharges, SeenIsLive, ChargesStay
<1> QED
  BY <1>1, <1>2, <1>3, <1>4 DEF IInv

LEMMA PrepareOnRailInv ==
  ASSUME IInv, NEW r \in Requests, NEW i \in Intents, PrepareOnRail(r, i)
  PROVE IInv'
<1>1. /\ TypeOK /\ TypeOK' /\ Books
      /\ JobsHaveCharges /\ RunnersHaveCharges /\ SeenIsLive
  BY PrepareOnRailType DEF IInv
<1>2. Books' /\ ChargesStay
  BY <1>1, BooksSame DEF PrepareOnRail, rows
<1>3. JobsHaveCharges'
  BY <1>1, <1>2 DEF PrepareOnRail, rows, JobsHaveCharges, ChargesStay
<1>4. RunnersHaveCharges' /\ SeenIsLive'
  BY <1>1, <1>2 DEF PrepareOnRail, RunnersHaveCharges, SeenIsLive, ChargesStay
<1> QED
  BY <1>1, <1>2, <1>3, <1>4 DEF IInv

LEMMA RecordPreparedInv ==
  ASSUME IInv, NEW r \in Requests, NEW i \in Intents, RecordPrepared(r, i)
  PROVE IInv'
<1>1. /\ TypeOK /\ TypeOK' /\ Books
      /\ JobsHaveCharges /\ RunnersHaveCharges /\ SeenIsLive
  BY RecordPreparedType DEF IInv
<1>2. Books' /\ ChargesStay
  BY <1>1, BooksSame DEF RecordPrepared, rows
<1>3. JobsHaveCharges'
  BY <1>1, <1>2 DEF RecordPrepared, rows, JobsHaveCharges, ChargesStay
<1>4. RunnersHaveCharges' /\ SeenIsLive'
  BY <1>1, <1>2 DEF RecordPrepared, RunnersHaveCharges, SeenIsLive, ChargesStay
<1> QED
  BY <1>1, <1>2, <1>3, <1>4 DEF IInv

LEMMA OpenAttemptInv ==
  ASSUME IInv, NEW r \in Requests, NEW i \in Intents, OpenAttempt(r, i)
  PROVE IInv'
<1>1. /\ TypeOK /\ TypeOK' /\ Books
      /\ JobsHaveCharges /\ RunnersHaveCharges /\ SeenIsLive
  BY OpenAttemptType DEF IInv
<1>2. Books' /\ ChargesStay
  BY <1>1, BooksSame DEF OpenAttempt, rows
<1>3. JobsHaveCharges'
  BY <1>1, <1>2 DEF OpenAttempt, rows, JobsHaveCharges, ChargesStay
<1>4. RunnersHaveCharges' /\ SeenIsLive'
  BY <1>1, <1>2 DEF OpenAttempt, RunnersHaveCharges, SeenIsLive, ChargesStay
<1> QED
  BY <1>1, <1>2, <1>3, <1>4 DEF IInv

LEMMA SubmitToRailInv ==
  ASSUME IInv, NEW r \in Requests, NEW i \in Intents, SubmitToRail(r, i)
  PROVE IInv'
<1>1. /\ TypeOK /\ TypeOK' /\ Books
      /\ JobsHaveCharges /\ RunnersHaveCharges /\ SeenIsLive
  BY SubmitToRailType DEF IInv
<1>2. Books' /\ ChargesStay
  BY <1>1, BooksSame DEF SubmitToRail, rows
<1>3. JobsHaveCharges'
  BY <1>1, <1>2 DEF SubmitToRail, rows, JobsHaveCharges, ChargesStay
<1>4. RunnersHaveCharges' /\ SeenIsLive'
  BY <1>1, <1>2 DEF SubmitToRail, RunnersHaveCharges, SeenIsLive, ChargesStay
<1> QED
  BY <1>1, <1>2, <1>3, <1>4 DEF IInv

LEMMA RecordSubmitAnswerInv ==
  ASSUME IInv, NEW r \in Requests, NEW i \in Intents, RecordSubmitAnswer(r, i)
  PROVE IInv'
<1>1. /\ TypeOK /\ TypeOK' /\ Books
      /\ JobsHaveCharges /\ RunnersHaveCharges /\ SeenIsLive
  BY RecordSubmitAnswerType DEF IInv
<1>2. Books' /\ ChargesStay
  BY <1>1, BooksSame DEF RecordSubmitAnswer, rows
<1>3. JobsHaveCharges'
  BY <1>1, <1>2 DEF RecordSubmitAnswer, rows, JobsHaveCharges, ChargesStay
<1>4. RunnersHaveCharges' /\ SeenIsLive'
  BY <1>1, <1>2 DEF RecordSubmitAnswer, RunnersHaveCharges, SeenIsLive, ChargesStay
<1> QED
  BY <1>1, <1>2, <1>3, <1>4 DEF IInv

LEMMA PersistSubmittedInv ==
  ASSUME IInv, NEW r \in Requests, NEW i \in Intents, PersistSubmitted(r, i)
  PROVE IInv'
<1>1. /\ TypeOK /\ TypeOK' /\ Books
      /\ JobsHaveCharges /\ RunnersHaveCharges /\ SeenIsLive
  BY PersistSubmittedType DEF IInv
<1>2. Books' /\ ChargesStay
  <2>1. /\ posted \in [Intents -> Nat] /\ sent \in [Intents -> [Event -> Nat]]
        /\ charge \in [Intents -> ChargeState] /\ intent \in [Intents -> IntentStatus]
    BY <1>1 DEF TypeOK
  <2> QED
    BY <1>1, <2>1, StatusAfterConfirmIs DEF PersistSubmitted, Books, ChargesStay, Emit, Event
<1>3. JobsHaveCharges'
  BY <1>1, <1>2 DEF PersistSubmitted, rows, JobsHaveCharges, ChargesStay
<1>4. RunnersHaveCharges' /\ SeenIsLive'
  BY <1>1, <1>2 DEF PersistSubmitted, RunnersHaveCharges, SeenIsLive, ChargesStay
<1> QED
  BY <1>1, <1>2, <1>3, <1>4 DEF IInv

LEMMA PersistDeclineInv ==
  ASSUME IInv, NEW r \in Requests, NEW i \in Intents, PersistDecline(r, i)
  PROVE IInv'
<1>1. /\ TypeOK /\ TypeOK' /\ Books
      /\ JobsHaveCharges /\ RunnersHaveCharges /\ SeenIsLive
  BY PersistDeclineType DEF IInv
<1>2. Books' /\ ChargesStay
  <2>1. /\ posted \in [Intents -> Nat] /\ sent \in [Intents -> [Event -> Nat]]
        /\ charge \in [Intents -> ChargeState] /\ intent \in [Intents -> IntentStatus]
    BY <1>1 DEF TypeOK
  <2> QED
    BY <1>1, <2>1, StatusAfterConfirmIs DEF PersistDecline, Books, ChargesStay, Emit, Event
<1>3. JobsHaveCharges'
  BY <1>1, <1>2 DEF PersistDecline, rows, JobsHaveCharges, ChargesStay
<1>4. RunnersHaveCharges' /\ SeenIsLive'
  BY <1>1, <1>2 DEF PersistDecline, RunnersHaveCharges, SeenIsLive, ChargesStay
<1> QED
  BY <1>1, <1>2, <1>3, <1>4 DEF IInv

LEMMA NoteDeclineInv ==
  ASSUME IInv, NEW r \in Requests, NEW i \in Intents, NoteDecline(r, i)
  PROVE IInv'
<1>1. /\ TypeOK /\ TypeOK' /\ Books
      /\ JobsHaveCharges /\ RunnersHaveCharges /\ SeenIsLive
  BY NoteDeclineType DEF IInv
<1>2. Books' /\ ChargesStay
  BY <1>1, BooksSame DEF NoteDecline, rows
<1>3. JobsHaveCharges'
  BY <1>1, <1>2 DEF NoteDecline, rows, JobsHaveCharges, ChargesStay
<1>4. RunnersHaveCharges' /\ SeenIsLive'
  BY <1>1, <1>2 DEF NoteDecline, RunnersHaveCharges, SeenIsLive, ChargesStay
<1> QED
  BY <1>1, <1>2, <1>3, <1>4 DEF IInv

LEMMA CrashRequestInv ==
  ASSUME IInv, NEW r \in Requests, CrashRequest(r)
  PROVE IInv'
<1>1. /\ TypeOK /\ TypeOK' /\ Books
      /\ JobsHaveCharges /\ RunnersHaveCharges /\ SeenIsLive
  BY CrashRequestType DEF IInv
<1>2. Books' /\ ChargesStay
  BY <1>1, BooksSame DEF CrashRequest, rows
<1>3. JobsHaveCharges'
  BY <1>1, <1>2 DEF CrashRequest, rows, JobsHaveCharges, ChargesStay
<1>4. RunnersHaveCharges' /\ SeenIsLive'
  BY <1>1, <1>2 DEF CrashRequest, RunnersHaveCharges, SeenIsLive, ChargesStay
<1> QED
  BY <1>1, <1>2, <1>3, <1>4 DEF IInv

LEMMA CancelSnapshotInv ==
  ASSUME IInv, NEW i \in Intents, CancelSnapshot(i)
  PROVE IInv'
<1>1. /\ TypeOK /\ TypeOK' /\ Books
      /\ JobsHaveCharges /\ RunnersHaveCharges /\ SeenIsLive
  BY CancelSnapshotType DEF IInv
<1>2. Books' /\ ChargesStay
  BY <1>1, BooksSame DEF CancelSnapshot, rows
<1>3. JobsHaveCharges'
  BY <1>1, <1>2 DEF CancelSnapshot, rows, JobsHaveCharges, ChargesStay
<1>4. RunnersHaveCharges' /\ SeenIsLive'
  BY <1>1, <1>2 DEF CancelSnapshot, RunnersHaveCharges, SeenIsLive, ChargesStay
<1> QED
  BY <1>1, <1>2, <1>3, <1>4 DEF IInv

LEMMA CancelCommitInv ==
  ASSUME IInv, NEW i \in Intents, CancelCommit(i)
  PROVE IInv'
<1>1. /\ TypeOK /\ TypeOK' /\ Books
      /\ JobsHaveCharges /\ RunnersHaveCharges /\ SeenIsLive
  BY CancelCommitType DEF IInv
<1>2. Books' /\ ChargesStay
  <2>1. /\ posted \in [Intents -> Nat] /\ sent \in [Intents -> [Event -> Nat]]
        /\ charge \in [Intents -> ChargeState] /\ intent \in [Intents -> IntentStatus]
    BY <1>1 DEF TypeOK
  <2> QED
    BY <1>1, <2>1, StatusAfterConfirmIs DEF CancelCommit, Books, ChargesStay, Emit, Event
<1>3. JobsHaveCharges'
  BY <1>1, <1>2 DEF CancelCommit, rows, JobsHaveCharges, ChargesStay
<1>4. RunnersHaveCharges' /\ SeenIsLive'
  BY <1>1, <1>2 DEF CancelCommit, RunnersHaveCharges, SeenIsLive, ChargesStay
<1> QED
  BY <1>1, <1>2, <1>3, <1>4 DEF IInv

LEMMA ClaimInv ==
  ASSUME IInv, NEW w \in Runners, NEW i \in Intents, NEW k \in Kind, Claim(w, i, k)
  PROVE IInv'
<1>1. /\ TypeOK /\ TypeOK' /\ Books
      /\ JobsHaveCharges /\ RunnersHaveCharges /\ SeenIsLive
  BY ClaimType DEF IInv
<1>2. Books' /\ ChargesStay
  BY <1>1, BooksSame DEF Claim, rows
<1>3. JobsHaveCharges'
  BY <1>1, <1>2, SetJobLinked, ConstantsAssumption
     DEF Claim, JobsHaveCharges, RunnersHaveCharges, ChargesStay
<1>4. RunnersHaveCharges' /\ SeenIsLive'
  <2>1. /\ \A v \in Runners : v # w => run'[v] = run[v]
        /\ run'[w].pc = "load" /\ run'[w].i = i
    BY <1>1, RunTyped DEF Claim, IdleRunner
  <2>2. charge[i] # "none"
    BY <1>1 DEF Claim, JobsHaveCharges
  <2> QED
    BY <1>1, <1>2, <2>1, <2>2 DEF RunnersHaveCharges, SeenIsLive, ChargesStay, Holding
<1> QED
  BY <1>1, <1>2, <1>3, <1>4 DEF IInv

LEMMA SettleJobInv ==
  ASSUME IInv, NEW w \in Runners, NEW i \in Intents, NEW k \in Kind, SettleJob(w, i, k)
  PROVE IInv'
<1>1. /\ TypeOK /\ TypeOK' /\ Books
      /\ JobsHaveCharges /\ RunnersHaveCharges /\ SeenIsLive
  BY SettleJobType DEF IInv
<1>2. Books' /\ ChargesStay
  BY <1>1, BooksSame DEF SettleJob, rows
<1>3. JobsHaveCharges'
  BY <1>1, <1>2, SetJobLinked, ConstantsAssumption
     DEF SettleJob, JobsHaveCharges, RunnersHaveCharges, ChargesStay
<1>4. RunnersHaveCharges' /\ SeenIsLive'
  BY <1>1, <1>2, RestLinked DEF SettleJob
<1> QED
  BY <1>1, <1>2, <1>3, <1>4 DEF IInv

LEMMA ReapLeaseInv ==
  ASSUME IInv, NEW i \in Intents, NEW k \in Kind, ReapLease(i, k)
  PROVE IInv'
<1>1. /\ TypeOK /\ TypeOK' /\ Books
      /\ JobsHaveCharges /\ RunnersHaveCharges /\ SeenIsLive
  BY ReapLeaseType DEF IInv
<1>2. Books' /\ ChargesStay
  BY <1>1, BooksSame DEF ReapLease, rows
<1>3. JobsHaveCharges'
  BY <1>1, <1>2, SetJobLinked, ConstantsAssumption
     DEF ReapLease, JobsHaveCharges, RunnersHaveCharges, ChargesStay
<1>4. RunnersHaveCharges' /\ SeenIsLive'
  BY <1>1, <1>2 DEF ReapLease, RunnersHaveCharges, SeenIsLive, ChargesStay
<1> QED
  BY <1>1, <1>2, <1>3, <1>4 DEF IInv

LEMMA CrashRunnerInv ==
  ASSUME IInv, NEW w \in Runners, CrashRunner(w)
  PROVE IInv'
<1>1. /\ TypeOK /\ TypeOK' /\ Books
      /\ JobsHaveCharges /\ RunnersHaveCharges /\ SeenIsLive
  BY CrashRunnerType DEF IInv
<1>2. Books' /\ ChargesStay
  BY <1>1, BooksSame DEF CrashRunner, rows
<1>3. JobsHaveCharges'
  BY <1>1, <1>2 DEF CrashRunner, rows, JobsHaveCharges, ChargesStay
<1>4. RunnersHaveCharges' /\ SeenIsLive'
  BY <1>1, <1>2, RestLinked DEF CrashRunner
<1> QED
  BY <1>1, <1>2, <1>3, <1>4 DEF IInv

LEMMA EscalateInv ==
  ASSUME IInv, NEW w \in Runners, NEW i \in Intents, NEW k \in Kind, Escalate(w, i, k)
  PROVE IInv'
<1>1. /\ TypeOK /\ TypeOK' /\ Books
      /\ JobsHaveCharges /\ RunnersHaveCharges /\ SeenIsLive
  BY EscalateType DEF IInv
<1>2. Books' /\ ChargesStay
  BY <1>1, BooksSetLiveState DEF Escalate, At, SeenIsLive, Holding, Live
<1>3. JobsHaveCharges'
  BY <1>1, <1>2 DEF Escalate, rows, JobsHaveCharges, ChargesStay
<1>4. RunnersHaveCharges' /\ SeenIsLive'
  <2>1. run[w].pc # "idle" /\ run[w].pc \in Holding
    BY DEF Escalate, At, Holding
  <2> QED
    BY <1>1, <1>2, <2>1, GoLinked DEF Escalate
<1> QED
  BY <1>1, <1>2, <1>3, <1>4 DEF IInv

LEMMA PollLoadInv ==
  ASSUME IInv, NEW w \in Runners, NEW i \in Intents, PollLoad(w, i)
  PROVE IInv'
<1>1. /\ TypeOK /\ TypeOK' /\ Books
      /\ JobsHaveCharges /\ RunnersHaveCharges /\ SeenIsLive
  BY PollLoadType DEF IInv
<1>2. Books' /\ ChargesStay
  BY <1>1, BooksSame DEF PollLoad, rows
<1>3. JobsHaveCharges'
  BY <1>1, <1>2 DEF PollLoad, rows, JobsHaveCharges, ChargesStay
<1>4. RunnersHaveCharges' /\ SeenIsLive'
  <2>1. run \in [Runners -> RunnerState] /\ charge[i] \in ChargeState
    BY <1>1 DEF TypeOK
  <2>2. /\ run[w].i = i /\ run[w].pc = "load"
        /\ charge[i] # "none"
    BY <1>1 DEF PollLoad, At, RunnersHaveCharges
  <2>3. PICK pc \in RunnerPC : /\ Look(w, pc, charge[i], age[i])
                               /\ charge[i] \in Terminal => pc = "finish"
    BY Names DEF PollLoad, Terminal
  <2>4. /\ \A v \in Runners : v # w => run'[v] = run[v]
        /\ run'[w].pc = pc /\ run'[w].i = i /\ run'[w].seen = charge[i]
    BY <1>1, <2>2, <2>3, LookMoves
  <2>5. pc \in Holding => charge[i] \in Live
    BY <2>1, <2>2, <2>3 DEF Holding, ChargeState
  <2> QED
    BY <1>1, <1>2, <2>2, <2>4, <2>5 DEF RunnersHaveCharges, SeenIsLive, ChargesStay
<1> QED
  BY <1>1, <1>2, <1>3, <1>4 DEF IInv

LEMMA PollRecoverInv ==
  ASSUME IInv, NEW w \in Runners, NEW i \in Intents, PollRecover(w, i)
  PROVE IInv'
<1>1. /\ TypeOK /\ TypeOK' /\ Books
      /\ JobsHaveCharges /\ RunnersHaveCharges /\ SeenIsLive
  BY PollRecoverType DEF IInv
<1>2. Books' /\ ChargesStay
  BY <1>1, BooksSame DEF PollRecover, rows
<1>3. JobsHaveCharges'
  BY <1>1, <1>2 DEF PollRecover, rows, JobsHaveCharges, ChargesStay
<1>4. RunnersHaveCharges' /\ SeenIsLive'
  <2>1. run[w].pc # "idle" /\ run[w].pc \in Holding
    BY DEF PollRecover, At, Holding
  <2> QED
    BY <1>1, <1>2, <2>1, GoLinked, PollRecoverGoes
<1> QED
  BY <1>1, <1>2, <1>3, <1>4 DEF IInv

LEMMA AdvanceAnsweredInv ==
  ASSUME IInv, NEW w \in Runners, NEW i \in Intents, AdvanceAnswered(w, i)
  PROVE IInv'
<1>1. /\ TypeOK /\ TypeOK' /\ Books
      /\ JobsHaveCharges /\ RunnersHaveCharges /\ SeenIsLive
  BY AdvanceAnsweredType DEF IInv
<1>2. Books' /\ ChargesStay
  BY <1>1, BooksSetLiveState DEF AdvanceAnswered, Live
<1>3. JobsHaveCharges'
  BY <1>1, <1>2 DEF AdvanceAnswered, rows, JobsHaveCharges, ChargesStay
<1>4. RunnersHaveCharges' /\ SeenIsLive'
  <2>1. run[w].pc # "idle" /\ run[w].pc \in Holding
    BY DEF AdvanceAnswered, At, Holding
  <2> QED
    BY <1>1, <1>2, <2>1, SeeLinked DEF AdvanceAnswered, Live, SeenIsLive
<1> QED
  BY <1>1, <1>2, <1>3, <1>4 DEF IInv

LEMMA ScheduleResubmitInv ==
  ASSUME IInv, NEW w \in Runners, NEW i \in Intents, ScheduleResubmit(w, i)
  PROVE IInv'
<1>1. /\ TypeOK /\ TypeOK' /\ Books
      /\ JobsHaveCharges /\ RunnersHaveCharges /\ SeenIsLive
  BY ScheduleResubmitType DEF IInv
<1>2. Books' /\ ChargesStay
  BY <1>1, BooksSame DEF ScheduleResubmit, rows
<1>3. JobsHaveCharges'
  <2>1. charge'[i] # "none"
    BY <1>1, <1>2 DEF ScheduleResubmit, At, RunnersHaveCharges, ChargesStay
  <2>2. job' = job \/ job' = [job EXCEPT ![i]["resubmit"] = "queued"]
    BY DEF ScheduleResubmit
  <2> QED
    BY <1>1, <1>2, <2>1, <2>2, Names, SetJobLinked DEF JobsHaveCharges, ChargesStay
<1>4. RunnersHaveCharges' /\ SeenIsLive'
  <2>1. run[w].pc # "idle" /\ run[w].pc \in Holding
    BY DEF ScheduleResubmit, At, Holding
  <2> QED
    BY <1>1, <1>2, <2>1, GoLinked DEF ScheduleResubmit
<1> QED
  BY <1>1, <1>2, <1>3, <1>4 DEF IInv

LEMMA ResetStreakInv ==
  ASSUME IInv, NEW w \in Runners, NEW i \in Intents, ResetStreak(w, i)
  PROVE IInv'
<1>1. /\ TypeOK /\ TypeOK' /\ Books
      /\ JobsHaveCharges /\ RunnersHaveCharges /\ SeenIsLive
  BY ResetStreakType DEF IInv
<1>2. Books' /\ ChargesStay
  BY <1>1, BooksSame DEF ResetStreak, rows
<1>3. JobsHaveCharges'
  BY <1>1, <1>2 DEF ResetStreak, rows, JobsHaveCharges, ChargesStay
<1>4. RunnersHaveCharges' /\ SeenIsLive'
  <2>1. run[w].pc # "idle" /\ run[w].pc \in Holding
    BY DEF ResetStreak, At, Holding
  <2> QED
    BY <1>1, <1>2, <2>1, GoLinked DEF ResetStreak
<1> QED
  BY <1>1, <1>2, <1>3, <1>4 DEF IInv

LEMMA RememberDenialInv ==
  ASSUME IInv, NEW w \in Runners, NEW i \in Intents, RememberDenial(w, i)
  PROVE IInv'
<1>1. /\ TypeOK /\ TypeOK' /\ Books
      /\ JobsHaveCharges /\ RunnersHaveCharges /\ SeenIsLive
  BY RememberDenialType DEF IInv
<1>2. Books' /\ ChargesStay
  BY <1>1, BooksSame DEF RememberDenial, rows
<1>3. JobsHaveCharges'
  BY <1>1, <1>2 DEF RememberDenial, rows, JobsHaveCharges, ChargesStay
<1>4. RunnersHaveCharges' /\ SeenIsLive'
  <2>1. run[w].pc # "idle" /\ run[w].pc \in Holding
    BY DEF RememberDenial, At, Holding
  <2> QED
    BY <1>1, <1>2, <2>1, GoLinked DEF RememberDenial
<1> QED
  BY <1>1, <1>2, <1>3, <1>4 DEF IInv

LEMMA FailDeadOrderInv ==
  ASSUME IInv, NEW w \in Runners, NEW i \in Intents, FailDeadOrder(w, i)
  PROVE IInv'
<1>1. /\ TypeOK /\ TypeOK' /\ Books
      /\ JobsHaveCharges /\ RunnersHaveCharges /\ SeenIsLive
  BY FailDeadOrderType DEF IInv
<1>2. Books' /\ ChargesStay
  BY <1>1, BooksSettleFailed, SettledStays DEF FailDeadOrder
<1>3. JobsHaveCharges'
  BY <1>1, <1>2 DEF FailDeadOrder, rows, JobsHaveCharges, ChargesStay
<1>4. RunnersHaveCharges' /\ SeenIsLive'
  <2>1. run[w].pc # "idle" /\ run[w].pc \in Holding
    BY DEF FailDeadOrder, At, Holding
  <2> QED
    BY <1>1, <1>2, <2>1, GoLinked, SettledStays DEF FailDeadOrder
<1> QED
  BY <1>1, <1>2, <1>3, <1>4 DEF IInv

LEMMA QueryRailInv ==
  ASSUME IInv, NEW w \in Runners, NEW i \in Intents, QueryRail(w, i)
  PROVE IInv'
<1>1. /\ TypeOK /\ TypeOK' /\ Books
      /\ JobsHaveCharges /\ RunnersHaveCharges /\ SeenIsLive
  BY QueryRailType DEF IInv
<1>2. Books' /\ ChargesStay
  BY <1>1, BooksSame DEF QueryRail, rows
<1>3. JobsHaveCharges'
  BY <1>1, <1>2 DEF QueryRail, rows, JobsHaveCharges, ChargesStay
<1>4. RunnersHaveCharges' /\ SeenIsLive'
  <2>1. run[w].pc # "idle" /\ run[w].pc \in Holding
    BY DEF QueryRail, At, Holding
  <2> QED
    BY <1>1, <1>2, <2>1, GoLinked DEF QueryRail
<1> QED
  BY <1>1, <1>2, <1>3, <1>4 DEF IInv

LEMMA QueryFailsInv ==
  ASSUME IInv, NEW w \in Runners, NEW i \in Intents, QueryFails(w, i)
  PROVE IInv'
<1>1. /\ TypeOK /\ TypeOK' /\ Books
      /\ JobsHaveCharges /\ RunnersHaveCharges /\ SeenIsLive
  BY QueryFailsType DEF IInv
<1>2. Books' /\ ChargesStay
  BY <1>1, BooksSame DEF QueryFails, rows
<1>3. JobsHaveCharges'
  BY <1>1, <1>2 DEF QueryFails, rows, JobsHaveCharges, ChargesStay
<1>4. RunnersHaveCharges' /\ SeenIsLive'
  <2>1. run[w].pc # "idle" /\ run[w].pc \in Holding
    BY DEF QueryFails, At, Holding
  <2> QED
    BY <1>1, <1>2, <2>1, GoLinked DEF QueryFails
<1> QED
  BY <1>1, <1>2, <1>3, <1>4 DEF IInv

LEMMA ActSucceededInv ==
  ASSUME IInv, NEW w \in Runners, NEW i \in Intents, ActSucceeded(w, i)
  PROVE IInv'
<1>1. /\ TypeOK /\ TypeOK' /\ Books
      /\ JobsHaveCharges /\ RunnersHaveCharges /\ SeenIsLive
  BY ActSucceededType DEF IInv
<1>2. Books' /\ ChargesStay
  BY <1>1, BooksSettleSucceeded, SettledStays DEF ActSucceeded
<1>3. JobsHaveCharges'
  BY <1>1, <1>2 DEF ActSucceeded, rows, JobsHaveCharges, ChargesStay
<1>4. RunnersHaveCharges' /\ SeenIsLive'
  <2>1. run[w].pc # "idle" /\ run[w].pc \in Holding
    BY DEF ActSucceeded, At, Holding
  <2> QED
    BY <1>1, <1>2, <2>1, GoLinked, SettledStays DEF ActSucceeded
<1> QED
  BY <1>1, <1>2, <1>3, <1>4 DEF IInv

LEMMA ActFailedInv ==
  ASSUME IInv, NEW w \in Runners, NEW i \in Intents, ActFailed(w, i)
  PROVE IInv'
<1>1. /\ TypeOK /\ TypeOK' /\ Books
      /\ JobsHaveCharges /\ RunnersHaveCharges /\ SeenIsLive
  BY ActFailedType DEF IInv
<1>2. Books' /\ ChargesStay
  BY <1>1, BooksSettleFailed, SettledStays DEF ActFailed
<1>3. JobsHaveCharges'
  BY <1>1, <1>2 DEF ActFailed, rows, JobsHaveCharges, ChargesStay
<1>4. RunnersHaveCharges' /\ SeenIsLive'
  <2>1. run[w].pc # "idle" /\ run[w].pc \in Holding
    BY DEF ActFailed, At, Holding
  <2> QED
    BY <1>1, <1>2, <2>1, GoLinked, SettledStays DEF ActFailed
<1> QED
  BY <1>1, <1>2, <1>3, <1>4 DEF IInv

LEMMA ActPendingInv ==
  ASSUME IInv, NEW w \in Runners, NEW i \in Intents, ActPending(w, i)
  PROVE IInv'
<1>1. /\ TypeOK /\ TypeOK' /\ Books
      /\ JobsHaveCharges /\ RunnersHaveCharges /\ SeenIsLive
  BY ActPendingType DEF IInv
<1>2. Books' /\ ChargesStay
  BY <1>1, BooksSetLiveState, BooksSame DEF ActPending, Live
<1>3. JobsHaveCharges'
  BY <1>1, <1>2 DEF ActPending, rows, JobsHaveCharges, ChargesStay
<1>4. RunnersHaveCharges' /\ SeenIsLive'
  <2>1. run[w].pc # "idle" /\ run[w].pc \in Holding
    BY DEF ActPending, At, Holding
  <2> QED
    BY <1>1, <1>2, <2>1, GoLinked, SeeLinked DEF ActPending, Live, SeenIsLive
<1> QED
  BY <1>1, <1>2, <1>3, <1>4 DEF IInv

LEMMA ActNotFoundInv ==
  ASSUME IInv, NEW w \in Runners, NEW i \in Intents, ActNotFound(w, i)
  PROVE IInv'
<1>1. /\ TypeOK /\ TypeOK' /\ Books
      /\ JobsHaveCharges /\ RunnersHaveCharges /\ SeenIsLive
  BY ActNotFoundType DEF IInv
<1>2. Books' /\ ChargesStay
  BY <1>1, BooksSame DEF ActNotFound, rows
<1>3. JobsHaveCharges'
  BY <1>1, <1>2 DEF ActNotFound, rows, JobsHaveCharges, ChargesStay
<1>4. RunnersHaveCharges' /\ SeenIsLive'
  <2>1. run[w].pc # "idle" /\ run[w].pc \in Holding
    BY DEF ActNotFound, At, Holding
  <2> QED
    BY <1>1, <1>2, <2>1, GoLinked, ActNotFoundGoes
<1> QED
  BY <1>1, <1>2, <1>3, <1>4 DEF IInv

LEMMA ResubmitLoadInv ==
  ASSUME IInv, NEW w \in Runners, NEW i \in Intents, ResubmitLoad(w, i)
  PROVE IInv'
<1>1. /\ TypeOK /\ TypeOK' /\ Books
      /\ JobsHaveCharges /\ RunnersHaveCharges /\ SeenIsLive
  BY ResubmitLoadType DEF IInv
<1>2. Books' /\ ChargesStay
  BY <1>1, BooksSame DEF ResubmitLoad, rows
<1>3. JobsHaveCharges'
  BY <1>1, <1>2 DEF ResubmitLoad, rows, JobsHaveCharges, ChargesStay
<1>4. RunnersHaveCharges' /\ SeenIsLive'
  <2>1. run[w].pc # "idle"
    BY DEF ResubmitLoad, At
  <2> QED
    BY <1>1, <1>2, <2>1, SeeLinked DEF ResubmitLoad, Holding, Live
<1> QED
  BY <1>1, <1>2, <1>3, <1>4 DEF IInv

LEMMA PrepareAgainInv ==
  ASSUME IInv, NEW w \in Runners, NEW i \in Intents, PrepareAgain(w, i)
  PROVE IInv'
<1>1. /\ TypeOK /\ TypeOK' /\ Books
      /\ JobsHaveCharges /\ RunnersHaveCharges /\ SeenIsLive
  BY PrepareAgainType DEF IInv
<1>2. Books' /\ ChargesStay
  BY <1>1, BooksSame DEF PrepareAgain, rows
<1>3. JobsHaveCharges'
  BY <1>1, <1>2 DEF PrepareAgain, rows, JobsHaveCharges, ChargesStay
<1>4. RunnersHaveCharges' /\ SeenIsLive'
  <2>1. run[w].pc # "idle" /\ run[w].pc \in Holding
    BY DEF PrepareAgain, At, Holding
  <2> QED
    BY <1>1, <1>2, <2>1, GoLinked DEF PrepareAgain
<1> QED
  BY <1>1, <1>2, <1>3, <1>4 DEF IInv

LEMMA RecordPreparedAgainInv ==
  ASSUME IInv, NEW w \in Runners, NEW i \in Intents, RecordPreparedAgain(w, i)
  PROVE IInv'
<1>1. /\ TypeOK /\ TypeOK' /\ Books
      /\ JobsHaveCharges /\ RunnersHaveCharges /\ SeenIsLive
  BY RecordPreparedAgainType DEF IInv
<1>2. Books' /\ ChargesStay
  BY <1>1, BooksSame DEF RecordPreparedAgain, rows
<1>3. JobsHaveCharges'
  BY <1>1, <1>2 DEF RecordPreparedAgain, rows, JobsHaveCharges, ChargesStay
<1>4. RunnersHaveCharges' /\ SeenIsLive'
  <2>1. run[w].pc # "idle" /\ run[w].pc \in Holding
    BY DEF RecordPreparedAgain, At, Holding
  <2> QED
    BY <1>1, <1>2, <2>1, GoLinked DEF RecordPreparedAgain
<1> QED
  BY <1>1, <1>2, <1>3, <1>4 DEF IInv

LEMMA SettleRefusedInv ==
  ASSUME IInv, NEW w \in Runners, NEW i \in Intents, SettleRefused(w, i)
  PROVE IInv'
<1>1. /\ TypeOK /\ TypeOK' /\ Books
      /\ JobsHaveCharges /\ RunnersHaveCharges /\ SeenIsLive
  BY SettleRefusedType DEF IInv
<1>2. Books' /\ ChargesStay
  BY <1>1, BooksSettleFailed, SettledStays DEF SettleRefused
<1>3. JobsHaveCharges'
  BY <1>1, <1>2 DEF SettleRefused, rows, JobsHaveCharges, ChargesStay
<1>4. RunnersHaveCharges' /\ SeenIsLive'
  <2>1. run[w].pc # "idle" /\ run[w].pc \in Holding
    BY DEF SettleRefused, At, Holding
  <2> QED
    BY <1>1, <1>2, <2>1, GoLinked, SettledStays DEF SettleRefused
<1> QED
  BY <1>1, <1>2, <1>3, <1>4 DEF IInv

LEMMA OpenResubmitInv ==
  ASSUME IInv, NEW w \in Runners, NEW i \in Intents, OpenResubmit(w, i)
  PROVE IInv'
<1>1. /\ TypeOK /\ TypeOK' /\ Books
      /\ JobsHaveCharges /\ RunnersHaveCharges /\ SeenIsLive
  BY OpenResubmitType DEF IInv
<1>2. Books' /\ ChargesStay
  BY <1>1, BooksSame DEF OpenResubmit, rows
<1>3. JobsHaveCharges'
  BY <1>1, <1>2 DEF OpenResubmit, rows, JobsHaveCharges, ChargesStay
<1>4. RunnersHaveCharges' /\ SeenIsLive'
  <2>1. run[w].pc # "idle" /\ run[w].pc \in Holding
    BY DEF OpenResubmit, At, Holding
  <2> QED
    BY <1>1, <1>2, <2>1, GoLinked DEF OpenResubmit
<1> QED
  BY <1>1, <1>2, <1>3, <1>4 DEF IInv

LEMMA SubmitAgainInv ==
  ASSUME IInv, NEW w \in Runners, NEW i \in Intents, SubmitAgain(w, i)
  PROVE IInv'
<1>1. /\ TypeOK /\ TypeOK' /\ Books
      /\ JobsHaveCharges /\ RunnersHaveCharges /\ SeenIsLive
  BY SubmitAgainType DEF IInv
<1>2. Books' /\ ChargesStay
  BY <1>1, BooksSame DEF SubmitAgain, rows
<1>3. JobsHaveCharges'
  BY <1>1, <1>2 DEF SubmitAgain, rows, JobsHaveCharges, ChargesStay
<1>4. RunnersHaveCharges' /\ SeenIsLive'
  <2>1. run[w].pc # "idle" /\ run[w].pc \in Holding
    BY DEF SubmitAgain, At, Holding
  <2> QED
    BY <1>1, <1>2, <2>1, GoLinked DEF SubmitAgain
<1> QED
  BY <1>1, <1>2, <1>3, <1>4 DEF IInv

LEMMA RecordResubmitAnswerInv ==
  ASSUME IInv, NEW w \in Runners, NEW i \in Intents, RecordResubmitAnswer(w, i)
  PROVE IInv'
<1>1. /\ TypeOK /\ TypeOK' /\ Books
      /\ JobsHaveCharges /\ RunnersHaveCharges /\ SeenIsLive
  BY RecordResubmitAnswerType DEF IInv
<1>2. Books' /\ ChargesStay
  BY <1>1, BooksSame DEF RecordResubmitAnswer, rows
<1>3. JobsHaveCharges'
  BY <1>1, <1>2 DEF RecordResubmitAnswer, rows, JobsHaveCharges, ChargesStay
<1>4. RunnersHaveCharges' /\ SeenIsLive'
  <2>1. run[w].pc # "idle" /\ run[w].pc \in Holding
    BY DEF RecordResubmitAnswer, At, Holding
  <2> QED
    BY <1>1, <1>2, <2>1, GoLinked DEF RecordResubmitAnswer
<1> QED
  BY <1>1, <1>2, <1>3, <1>4 DEF IInv

LEMMA SettleRejectedInv ==
  ASSUME IInv, NEW w \in Runners, NEW i \in Intents, SettleRejected(w, i)
  PROVE IInv'
<1>1. /\ TypeOK /\ TypeOK' /\ Books
      /\ JobsHaveCharges /\ RunnersHaveCharges /\ SeenIsLive
  BY SettleRejectedType DEF IInv
<1>2. Books' /\ ChargesStay
  BY <1>1, BooksSettleFailed, SettledStays DEF SettleRejected
<1>3. JobsHaveCharges'
  BY <1>1, <1>2 DEF SettleRejected, rows, JobsHaveCharges, ChargesStay
<1>4. RunnersHaveCharges' /\ SeenIsLive'
  <2>1. run[w].pc # "idle" /\ run[w].pc \in Holding
    BY DEF SettleRejected, At, Holding
  <2> QED
    BY <1>1, <1>2, <2>1, GoLinked, SettledStays DEF SettleRejected
<1> QED
  BY <1>1, <1>2, <1>3, <1>4 DEF IInv

LEMMA NoteRejectedInv ==
  ASSUME IInv, NEW w \in Runners, NEW i \in Intents, NoteRejected(w, i)
  PROVE IInv'
<1>1. /\ TypeOK /\ TypeOK' /\ Books
      /\ JobsHaveCharges /\ RunnersHaveCharges /\ SeenIsLive
  BY NoteRejectedType DEF IInv
<1>2. Books' /\ ChargesStay
  BY <1>1, BooksSame DEF NoteRejected, rows
<1>3. JobsHaveCharges'
  BY <1>1, <1>2 DEF NoteRejected, rows, JobsHaveCharges, ChargesStay
<1>4. RunnersHaveCharges' /\ SeenIsLive'
  <2>1. run[w].pc # "idle" /\ run[w].pc \in Holding
    BY DEF NoteRejected, At, Holding
  <2> QED
    BY <1>1, <1>2, <2>1, GoLinked DEF NoteRejected
<1> QED
  BY <1>1, <1>2, <1>3, <1>4 DEF IInv

LEMMA CommitResubmissionInv ==
  ASSUME IInv, NEW w \in Runners, NEW i \in Intents, CommitResubmission(w, i)
  PROVE IInv'
<1>1. /\ TypeOK /\ TypeOK' /\ Books
      /\ JobsHaveCharges /\ RunnersHaveCharges /\ SeenIsLive
  BY CommitResubmissionType DEF IInv
<1>2. Books' /\ ChargesStay
  <2>1. /\ posted \in [Intents -> Nat] /\ sent \in [Intents -> [Event -> Nat]]
        /\ charge \in [Intents -> ChargeState] /\ intent \in [Intents -> IntentStatus]
    BY <1>1 DEF TypeOK
  <2> QED
    BY <1>1, <2>1, StatusAfterConfirmIs DEF CommitResubmission, Books, ChargesStay, Emit, Event
<1>3. JobsHaveCharges'
  <2>1. PICK k \in Kind, v \in JobState : job' = job \/ job' = [job EXCEPT ![i][k] = v]
    BY Names DEF CommitResubmission
  <2>2. charge'[i] # "none"
    BY <1>1, <1>2 DEF CommitResubmission, At, RunnersHaveCharges, ChargesStay, TypeOK, Live
  <2> QED
    BY <1>1, <1>2, <2>1, <2>2, SetJobLinked DEF JobsHaveCharges, ChargesStay
<1>4. RunnersHaveCharges' /\ SeenIsLive'
  <2>1. run[w].pc # "idle" /\ run[w].pc \in Holding
    BY DEF CommitResubmission, At, Holding
  <2> QED
    BY <1>1, <1>2, <2>1, GoLinked DEF CommitResubmission
<1> QED
  BY <1>1, <1>2, <1>3, <1>4 DEF IInv

LEMMA ScanLiveChargesInv ==
  ASSUME IInv, NEW i \in Intents, ScanLiveCharges(i)
  PROVE IInv'
<1>1. /\ TypeOK /\ TypeOK' /\ Books
      /\ JobsHaveCharges /\ RunnersHaveCharges /\ SeenIsLive
  BY ScanLiveChargesType DEF IInv
<1>2. Books' /\ ChargesStay
  BY <1>1, BooksSame DEF ScanLiveCharges, rows
<1>3. JobsHaveCharges'
  <2>1. PICK k \in Kind, v \in JobState : job' = job \/ job' = [job EXCEPT ![i][k] = v]
    BY Names DEF ScanLiveCharges
  <2>2. charge'[i] # "none"
    BY <1>1, <1>2 DEF ScanLiveCharges, At, RunnersHaveCharges, ChargesStay, TypeOK, Live
  <2> QED
    BY <1>1, <1>2, <2>1, <2>2, SetJobLinked DEF JobsHaveCharges, ChargesStay
<1>4. RunnersHaveCharges' /\ SeenIsLive'
  BY <1>1, <1>2 DEF ScanLiveCharges, RunnersHaveCharges, SeenIsLive, ChargesStay
<1> QED
  BY <1>1, <1>2, <1>3, <1>4 DEF IInv

LEMMA ChargeAgesInv ==
  ASSUME IInv, NEW i \in Intents, ChargeAges(i)
  PROVE IInv'
<1>1. /\ TypeOK /\ TypeOK' /\ Books
      /\ JobsHaveCharges /\ RunnersHaveCharges /\ SeenIsLive
  BY ChargeAgesType DEF IInv
<1>2. Books' /\ ChargesStay
  BY <1>1, BooksSame DEF ChargeAges, rows
<1>3. JobsHaveCharges'
  BY <1>1, <1>2 DEF ChargeAges, rows, JobsHaveCharges, ChargesStay
<1>4. RunnersHaveCharges' /\ SeenIsLive'
  BY <1>1, <1>2 DEF ChargeAges, RunnersHaveCharges, SeenIsLive, ChargesStay
<1> QED
  BY <1>1, <1>2, <1>3, <1>4 DEF IInv

LEMMA PayerPaysInv ==
  ASSUME IInv, NEW i \in Intents, PayerPays(i)
  PROVE IInv'
<1>1. /\ TypeOK /\ TypeOK' /\ Books
      /\ JobsHaveCharges /\ RunnersHaveCharges /\ SeenIsLive
  BY PayerPaysType DEF IInv
<1>2. Books' /\ ChargesStay
  BY <1>1, BooksSame DEF PayerPays, rows
<1>3. JobsHaveCharges'
  BY <1>1, <1>2 DEF PayerPays, rows, JobsHaveCharges, ChargesStay
<1>4. RunnersHaveCharges' /\ SeenIsLive'
  BY <1>1, <1>2 DEF PayerPays, RunnersHaveCharges, SeenIsLive, ChargesStay
<1> QED
  BY <1>1, <1>2, <1>3, <1>4 DEF IInv

LEMMA RailDeclinesInv ==
  ASSUME IInv, NEW i \in Intents, RailDeclines(i)
  PROVE IInv'
<1>1. /\ TypeOK /\ TypeOK' /\ Books
      /\ JobsHaveCharges /\ RunnersHaveCharges /\ SeenIsLive
  BY RailDeclinesType DEF IInv
<1>2. Books' /\ ChargesStay
  BY <1>1, BooksSame DEF RailDeclines, rows
<1>3. JobsHaveCharges'
  BY <1>1, <1>2 DEF RailDeclines, rows, JobsHaveCharges, ChargesStay
<1>4. RunnersHaveCharges' /\ SeenIsLive'
  BY <1>1, <1>2 DEF RailDeclines, RunnersHaveCharges, SeenIsLive, ChargesStay
<1> QED
  BY <1>1, <1>2, <1>3, <1>4 DEF IInv

LEMMA InvNext ==
  ASSUME IInv, [Next]_vars
  PROVE IInv'
<1>1. ASSUME NEW r \in Requests, NEW i \in Intents, Confirm(r, i) PROVE IInv'
  BY <1>1, LoadConfirmableInv, OpenChargeInv, PrepareOnRailInv, RecordPreparedInv,
     OpenAttemptInv, SubmitToRailInv, RecordSubmitAnswerInv, PersistSubmittedInv,
     PersistDeclineInv, NoteDeclineInv DEF Confirm
<1>2. ASSUME NEW w \in Runners, NEW i \in Intents, Poll(w, i) PROVE IInv'
  BY <1>2, Names, PollLoadInv, PollRecoverInv, AdvanceAnsweredInv, ScheduleResubmitInv,
     ResetStreakInv, RememberDenialInv, FailDeadOrderInv, QueryRailInv, QueryFailsInv,
     ActSucceededInv, ActFailedInv, ActPendingInv, ActNotFoundInv, EscalateInv DEF Poll
<1>3. ASSUME NEW w \in Runners, NEW i \in Intents, Resubmit(w, i) PROVE IInv'
  BY <1>3, Names, ResubmitLoadInv, PrepareAgainInv, RecordPreparedAgainInv, SettleRefusedInv,
     OpenResubmitInv, SubmitAgainInv,
     RecordResubmitAnswerInv, SettleRejectedInv, NoteRejectedInv, CommitResubmissionInv,
     EscalateInv DEF Resubmit
<1>4. ASSUME NEW i \in Intents, Rail(i) PROVE IInv'
  BY <1>4, PayerPaysInv, RailDeclinesInv DEF Rail
<1>5. CASE UNCHANGED vars
  BY <1>5 DEF vars, rows, IInv, TypeOK, Books, JobsHaveCharges, RunnersHaveCharges, SeenIsLive
<1> QED
  BY <1>1, <1>2, <1>3, <1>4, <1>5, CrashRequestInv, CancelSnapshotInv, CancelCommitInv,
     ScanLiveChargesInv, ChargeAgesInv, ReapLeaseInv, CrashRunnerInv, ClaimInv, SettleJobInv
     DEF Next, Onto, Step

LEMMA InvInit == Init => IInv
<1> SUFFICES ASSUME Init PROVE IInv
  OBVIOUS
<1>1. TypeOK
  BY TypeInit
<1>2. Books
  BY DEF Init, Books, Event
<1>3. JobsHaveCharges
  BY DEF Init, JobsHaveCharges
<1>4. RunnersHaveCharges /\ SeenIsLive
  BY DEF Init, RunnersHaveCharges, SeenIsLive, IdleRunner, Holding
<1> QED
  BY <1>1, <1>2, <1>3, <1>4 DEF IInv

-----------------------------------------------------------------------------
(* 4. The theorems.                                                         *)

\* The invariant holds throughout: what every statement of vpay-api and vpay-worker
\* finds in the rows it is about to guard.
THEOREM Inductive == Spec => []IInv
<1>1. Init => IInv
  BY InvInit
<1>2. IInv /\ [Next]_vars => IInv'
  BY InvNext
<1> QED
  BY <1>1, <1>2, PTL DEF Spec

\* Every row, request and runner keeps to its type.
THEOREM TypeCorrect == Spec => []TypeOK
<1>1. IInv => TypeOK
  BY DEF IInv
<1> QED
  BY <1>1, Inductive, PTL

\* The charge, the intent, the ledger and the outbox settle together, however many
\* runners, stalled or not, hear the rail's answer (apply_succeeded).
THEOREM SettlesTogether == Spec => []SettledTogether
<1>1. IInv => SettledTogether
  BY DEF IInv, Books, SettledTogether
<1> QED
  BY <1>1, Inductive, PTL

\* A merchant is told one ending at most (the guards of confirm, cancel and the
\* worker's settlements, in any order).
THEOREM TellsOneEnding == Spec => []OneEnding
<1>1. IInv => OneEnding
  <2> SUFFICES ASSUME IInv, NEW i \in Intents
               PROVE /\ sent[i]["succeeded"] + sent[i]["canceled"] <= 1
                     /\ sent[i]["succeeded"] + sent[i]["payment_failed"] <= 1
                     /\ sent[i]["canceled"] = 1 <=> intent[i] = "canceled"
                     /\ sent[i]["payment_failed"] = 1 => charge[i] = "failed"
    BY DEF OneEnding
  <2> QED
    BY DEF IInv, Books
<1> QED
  BY <1>1, Inductive, PTL

-----------------------------------------------------------------------------
(* 5. What a step may never do.                                             *)

\* The bodies of ChargeOrder and CanceledIsFinal.
ChargeMoves ==
  \A i \in Intents : charge'[i] # charge[i] =>
    /\ charge[i] \notin Terminal
    /\ charge'[i] = "submitting" => charge[i] = "none"
    /\ charge[i] = "unresolved" => charge'[i] \in Terminal

EndingsStay == \A i \in Intents : intent[i] \in {"canceled", "succeeded"} => intent'[i] = intent[i]

RowsMove == ChargeMoves /\ EndingsStay

LEMMA SetLiveStateMoves ==
  ASSUME TypeOK, NEW i \in Intents, NEW c \in Live, NEW d \in Live \ {"submitting"},
         c = "unresolved" => d = "unresolved",
         SetLiveState(i, c, d), UNCHANGED intent
  PROVE RowsMove
<1>1. charge \in [Intents -> ChargeState]
  BY DEF TypeOK
<1> QED
  BY <1>1 DEF SetLiveState, RowsMove, ChargeMoves, EndingsStay, Live, Terminal

LEMMA SettleMoves ==
  ASSUME TypeOK, NEW w \in Runners, NEW i \in Intents, NEW pc,
         SettleSucceeded(w, i) \/ SettleFailed(w, i, pc)
  PROVE RowsMove
<1>1. charge \in [Intents -> ChargeState] /\ intent \in [Intents -> IntentStatus]
  BY DEF TypeOK
<1>2. CASE SettleSucceeded(w, i)
  BY <1>1, <1>2 DEF SettleSucceeded, RowsMove, ChargeMoves, EndingsStay, Live, Terminal, Settleable
<1>3. CASE SettleFailed(w, i, pc)
  BY <1>1, <1>3 DEF SettleFailed, RowsMove, ChargeMoves, EndingsStay, Live, Terminal, Settleable
<1> QED
  BY <1>2, <1>3

LEMMA NothingMoves ==
  ASSUME UNCHANGED <<intent, charge>>
  PROVE RowsMove
  BY DEF RowsMove, ChargeMoves, EndingsStay

LEMMA OpenChargeMoves ==
  ASSUME IInv, NEW r \in Requests, NEW i \in Intents, OpenCharge(r, i)
  PROVE RowsMove
<1>1. TypeOK /\ SeenIsLive
  BY DEF IInv
<1>2. charge \in [Intents -> ChargeState] /\ intent \in [Intents -> IntentStatus]
  BY <1>1 DEF TypeOK
<1> QED
  BY <1>2 DEF OpenCharge, RowsMove, ChargeMoves, EndingsStay, Terminal

LEMMA PersistSubmittedMoves ==
  ASSUME IInv, NEW r \in Requests, NEW i \in Intents, PersistSubmitted(r, i)
  PROVE RowsMove
<1>1. TypeOK /\ SeenIsLive
  BY DEF IInv
<1>2. charge \in [Intents -> ChargeState] /\ intent \in [Intents -> IntentStatus]
  BY <1>1 DEF TypeOK
<1> QED
  BY <1>2 DEF PersistSubmitted, RowsMove, ChargeMoves, EndingsStay, Terminal

LEMMA PersistDeclineMoves ==
  ASSUME IInv, NEW r \in Requests, NEW i \in Intents, PersistDecline(r, i)
  PROVE RowsMove
<1>1. TypeOK /\ SeenIsLive
  BY DEF IInv
<1>2. charge \in [Intents -> ChargeState] /\ intent \in [Intents -> IntentStatus]
  BY <1>1 DEF TypeOK
<1> QED
  BY <1>2 DEF PersistDecline, RowsMove, ChargeMoves, EndingsStay, Terminal

LEMMA CancelCommitMoves ==
  ASSUME IInv, NEW i \in Intents, CancelCommit(i)
  PROVE RowsMove
<1>1. TypeOK /\ SeenIsLive
  BY DEF IInv
<1>2. charge \in [Intents -> ChargeState] /\ intent \in [Intents -> IntentStatus]
  BY <1>1 DEF TypeOK
<1> QED
  BY <1>2 DEF CancelCommit, RowsMove, ChargeMoves, EndingsStay, Terminal

LEMMA EscalateMoves ==
  ASSUME IInv, NEW w \in Runners, NEW i \in Intents, NEW k \in Kind, Escalate(w, i, k)
  PROVE RowsMove
<1>1. TypeOK /\ SeenIsLive
  BY DEF IInv
<1> QED
  BY <1>1, SetLiveStateMoves DEF Escalate, At, SeenIsLive, Holding, Live

LEMMA AdvanceAnsweredMoves ==
  ASSUME IInv, NEW w \in Runners, NEW i \in Intents, AdvanceAnswered(w, i)
  PROVE RowsMove
<1>1. TypeOK /\ SeenIsLive
  BY DEF IInv
<1> QED
  BY <1>1, SetLiveStateMoves, NothingMoves DEF AdvanceAnswered, Live

LEMMA FailDeadOrderMoves ==
  ASSUME IInv, NEW w \in Runners, NEW i \in Intents, FailDeadOrder(w, i)
  PROVE RowsMove
<1>1. TypeOK /\ SeenIsLive
  BY DEF IInv
<1> QED
  BY <1>1, SettleMoves, NothingMoves DEF FailDeadOrder

LEMMA ActSucceededMoves ==
  ASSUME IInv, NEW w \in Runners, NEW i \in Intents, ActSucceeded(w, i)
  PROVE RowsMove
<1>1. TypeOK /\ SeenIsLive
  BY DEF IInv
<1> QED
  BY <1>1, SettleMoves, NothingMoves DEF ActSucceeded

LEMMA ActFailedMoves ==
  ASSUME IInv, NEW w \in Runners, NEW i \in Intents, ActFailed(w, i)
  PROVE RowsMove
<1>1. TypeOK /\ SeenIsLive
  BY DEF IInv
<1> QED
  BY <1>1, SettleMoves, NothingMoves DEF ActFailed

LEMMA ActPendingMoves ==
  ASSUME IInv, NEW w \in Runners, NEW i \in Intents, ActPending(w, i)
  PROVE RowsMove
<1>1. TypeOK /\ SeenIsLive
  BY DEF IInv
<1> QED
  BY <1>1, SetLiveStateMoves, NothingMoves DEF ActPending, Live

LEMMA SettleRefusedMoves ==
  ASSUME IInv, NEW w \in Runners, NEW i \in Intents, SettleRefused(w, i)
  PROVE RowsMove
<1>1. TypeOK /\ SeenIsLive
  BY DEF IInv
<1> QED
  BY <1>1, SettleMoves, NothingMoves DEF SettleRefused

LEMMA SettleRejectedMoves ==
  ASSUME IInv, NEW w \in Runners, NEW i \in Intents, SettleRejected(w, i)
  PROVE RowsMove
<1>1. TypeOK /\ SeenIsLive
  BY DEF IInv
<1> QED
  BY <1>1, SettleMoves, NothingMoves DEF SettleRejected

LEMMA CommitResubmissionMoves ==
  ASSUME IInv, NEW w \in Runners, NEW i \in Intents, CommitResubmission(w, i)
  PROVE RowsMove
<1>1. TypeOK /\ SeenIsLive
  BY DEF IInv
<1>2. charge \in [Intents -> ChargeState] /\ intent \in [Intents -> IntentStatus]
  BY <1>1 DEF TypeOK
<1> QED
  BY <1>2 DEF CommitResubmission, RowsMove, ChargeMoves, EndingsStay, Terminal

LEMMA NextMoves ==
  ASSUME IInv, [Next]_vars
  PROVE RowsMove
<1>1. ASSUME NEW r \in Requests, NEW i \in Intents, Confirm(r, i) PROVE RowsMove
  BY <1>1, NothingMoves, OpenChargeMoves, PersistSubmittedMoves, PersistDeclineMoves
     DEF Confirm, rows, LoadConfirmable, PrepareOnRail, RecordPrepared, OpenAttempt, SubmitToRail,
         RecordSubmitAnswer, NoteDecline
<1>2. ASSUME NEW w \in Runners, NEW i \in Intents, Poll(w, i) PROVE RowsMove
  BY <1>2, Names, NothingMoves, AdvanceAnsweredMoves, FailDeadOrderMoves, ActSucceededMoves,
     ActFailedMoves, ActPendingMoves, EscalateMoves
     DEF Poll, rows, PollLoad, PollRecover, ScheduleResubmit, ResetStreak, RememberDenial,
         QueryRail, QueryFails, ActNotFound
<1>3. ASSUME NEW w \in Runners, NEW i \in Intents, Resubmit(w, i) PROVE RowsMove
  BY <1>3, Names, NothingMoves, SettleRefusedMoves, SettleRejectedMoves, CommitResubmissionMoves,
     EscalateMoves
     DEF Resubmit, rows, ResubmitLoad, PrepareAgain, RecordPreparedAgain, OpenResubmit,
         SubmitAgain, RecordResubmitAnswer, NoteRejected
<1>4. CASE UNCHANGED vars
  BY <1>4, NothingMoves DEF vars, rows
<1>5. ASSUME NEW i \in Intents,
             \/ CancelSnapshot(i) \/ CancelCommit(i) \/ ScanLiveCharges(i) \/ ChargeAges(i)
             \/ Rail(i) \/ \E k \in Kind : ReapLease(i, k)
      PROVE RowsMove
  BY <1>5, NothingMoves, CancelCommitMoves
     DEF CancelSnapshot, ScanLiveCharges, ChargeAges, Rail, PayerPays, RailDeclines, ReapLease, rows
<1>6. ASSUME NEW w \in Runners, NEW i \in Intents, NEW k \in Kind,
             Claim(w, i, k) \/ SettleJob(w, i, k) \/ CrashRunner(w)
      PROVE RowsMove
  BY <1>6, NothingMoves DEF Claim, SettleJob, CrashRunner, rows
<1>7. ASSUME NEW x, CrashRequest(x) \/ CrashRunner(x) PROVE RowsMove
  BY <1>7, NothingMoves DEF CrashRequest, CrashRunner, rows
<1> QED
  BY <1>1, <1>2, <1>3, <1>4, <1>5, <1>6, <1>7 DEF Next, Onto, Step

\* Settled states are final and escalations are not undone: a compare-and-swap that
\* is lost leaves the charge to the winner (set_live_state, mark_submitted, settle).
THEOREM ChargesMoveForward == Spec => ChargeOrder
<1>1. IInv /\ [Next]_vars => [ChargeMoves]_vars
  BY NextMoves DEF RowsMove
<1>2. Spec => [][ChargeMoves]_vars
  BY <1>1, Inductive, PTL DEF Spec
<1> QED
  BY <1>2 DEF ChargeOrder, ChargeMoves

\* A withdrawn or paid intent stays so, whatever a confirm or a runner holds.
THEOREM EndingsAreFinal == Spec => CanceledIsFinal
<1>1. IInv /\ [Next]_vars => [EndingsStay]_vars
  BY NextMoves DEF RowsMove
<1>2. Spec => [][EndingsStay]_vars
  BY <1>1, Inductive, PTL DEF Spec
<1> QED
  BY <1>2 DEF CanceledIsFinal, EndingsStay

-----------------------------------------------------------------------------
(* 6. A step concerns one intent, and at most one request or runner.         *)

Row(i) == <<intent[i], charge[i], url[i], prepared[i], attempt[i], age[i], job[i], rail[i],
           flow[i], posted[i], sent[i]>>

\* Nothing that matters to the intent happens: a request may end, a runner may leave.
Still(i) ==
  /\ Row(i)' = Row(i)
  /\ \A r \in Requests : req'[r].i = i => req'[r] = req[r] \/ req'[r].pc = "error"
  /\ \A w \in Runners : run'[w].i = i => run'[w] = run[w]

\* What happens to the intent alone.
Own(i) ==
  \/ CancelSnapshot(i) \/ CancelCommit(i) \/ ScanLiveCharges(i) \/ ChargeAges(i) \/ Rail(i)
  \/ \E k \in Kind : ReapLease(i, k)

\* A runner's part in the job loop.
Loop(w, i) == \E k \in Kind : Claim(w, i, k) \/ SettleJob(w, i, k)

StepAt(i) ==
  /\ flow' = flow
  /\ \/ Own(i)
     \/ \E r \in Requests : Confirm(r, i)
     \/ \E w \in Runners : Poll(w, i) \/ Resubmit(w, i) \/ Loop(w, i)

\* A step of a confirm: that request alone moves, and stays with its intent.
LEMMA ConfirmMoves ==
  ASSUME TypeOK, NEW r \in Requests, NEW i \in Intents, Confirm(r, i)
  PROVE  /\ \A q \in Requests : q # r => req'[q] = req[q]
         /\ req'[r].i = i
         /\ run' = run
<1>1. CASE LoadConfirmable(r, i)
  BY <1>1 DEF LoadConfirmable, TypeOK
<1>2. CASE ~ LoadConfirmable(r, i)
  <2>1. PICK pc : GoReq(r, pc)
    BY <1>2 DEF Confirm, OpenCharge, PrepareOnRail, RecordPrepared, OpenAttempt, SubmitToRail,
                RecordSubmitAnswer, PersistSubmitted, PersistDecline, NoteDecline
  <2>2. req[r].i = i /\ run' = run
    BY <1>2 DEF Confirm, OpenCharge, PrepareOnRail, RecordPrepared, OpenAttempt, SubmitToRail,
                RecordSubmitAnswer, PersistSubmitted, PersistDecline, NoteDecline, AtReq
  <2> QED
    BY <2>1, <2>2, GoReqMoves
<1> QED
  BY <1>1, <1>2

LEMMA PollMoves ==
  ASSUME TypeOK, NEW w \in Runners, NEW i \in Intents, Poll(w, i)
  PROVE  /\ \A v \in Runners : v # w => run'[v] = run[v]
         /\ run[w].i = i /\ run'[w].i = i /\ run[w].kind = "poll" /\ run'[w].kind = "poll"
         /\ req' = req
<1>1. /\ run[w].i = i /\ run[w].kind = "poll" /\ req' = req
  BY DEF Poll, PollLoad, PollRecover, AdvanceAnswered, ScheduleResubmit, ResetStreak,
         RememberDenial, FailDeadOrder, QueryRail, QueryFails, ActSucceeded, ActFailed, ActPending,
         ActNotFound, Escalate, At
<1>2. \E pc, c, o, a : Go(w, pc) \/ Hear(w, pc, a) \/ See(w, pc, c) \/ Look(w, pc, c, o)
  BY DEF Poll, PollLoad, PollRecover, AdvanceAnswered, ScheduleResubmit, ResetStreak,
         RememberDenial, FailDeadOrder, QueryRail, QueryFails, ActSucceeded, ActFailed, ActPending,
         ActNotFound, Escalate, SettleSucceeded, SettleFailed
<1> QED
  BY <1>1, <1>2, GoMoves, HearMoves, SeeMoves, LookMoves

LEMMA ResubmitMoves ==
  ASSUME TypeOK, NEW w \in Runners, NEW i \in Intents, Resubmit(w, i)
  PROVE  /\ \A v \in Runners : v # w => run'[v] = run[v]
         /\ run[w].i = i /\ run'[w].i = i /\ run[w].kind = "resubmit" /\ run'[w].kind = "resubmit"
         /\ req' = req
<1>1. /\ run[w].i = i /\ run[w].kind = "resubmit" /\ req' = req
  BY DEF Resubmit, ResubmitLoad, PrepareAgain, RecordPreparedAgain, SettleRefused, OpenResubmit,
         SubmitAgain, RecordResubmitAnswer, SettleRejected, NoteRejected, CommitResubmission,
         Escalate, At
<1>2. \E pc, c, o, a : Go(w, pc) \/ Hear(w, pc, a) \/ See(w, pc, c) \/ Look(w, pc, c, o)
  BY DEF Resubmit, ResubmitLoad, PrepareAgain, RecordPreparedAgain, SettleRefused, OpenResubmit,
         SubmitAgain, RecordResubmitAnswer, SettleRejected, NoteRejected, CommitResubmission,
         Escalate, SettleFailed
<1> QED
  BY <1>1, <1>2, GoMoves, HearMoves, SeeMoves, LookMoves

LEMMA LoopMoves ==
  ASSUME TypeOK, NEW w \in Runners, NEW i \in Intents, Loop(w, i)
  PROVE  /\ \A v \in Runners : v # w => run'[v] = run[v]
         /\ run'[w].i \in {i, None}
         /\ req' = req
<1>1. PICK k \in Kind : Claim(w, i, k) \/ SettleJob(w, i, k)
  BY DEF Loop
<1>2. run \in [Runners -> RunnerState]
  BY RunTyped
<1>3. CASE Claim(w, i, k)
  BY <1>2, <1>3 DEF Claim, IdleRunner
<1>4. CASE SettleJob(w, i, k)
  BY <1>2, <1>4 DEF SettleJob, IdleRunner
<1> QED
  BY <1>1, <1>3, <1>4

\* A step at an intent leaves the rows of every other one: first its events and its
\* capture, then the rest.
LEMMA BooksElsewhere ==
  ASSUME TypeOK, NEW i \in Intents, StepAt(i), NEW j \in Intents, j # i
  PROVE  posted'[j] = posted[j] /\ sent'[j] = sent[j]
<1>1. /\ posted' = posted \/ posted' = [posted EXCEPT ![i] = @ + 1]
      /\ sent' = sent \/ \E e : Emit(i, e)
  <2>1. CASE Own(i)
    BY <2>1 DEF Own, CancelSnapshot, CancelCommit, ScanLiveCharges, ChargeAges, Rail, PayerPays,
                RailDeclines, ReapLease, rows
  <2>2. CASE \E r \in Requests : Confirm(r, i)
    BY <2>2 DEF Confirm, LoadConfirmable, OpenCharge, PrepareOnRail, RecordPrepared, OpenAttempt,
                SubmitToRail, RecordSubmitAnswer, PersistSubmitted, PersistDecline, NoteDecline,
                rows
  <2>3. CASE \E w \in Runners : Poll(w, i)
    BY <2>3 DEF Poll, PollLoad, PollRecover, AdvanceAnswered, ScheduleResubmit, ResetStreak,
                RememberDenial, FailDeadOrder, SettleFailed, SettleSucceeded, QueryRail, QueryFails,
                ActSucceeded, ActFailed, ActPending, ActNotFound, Escalate, rows
  <2>4. CASE \E w \in Runners : Resubmit(w, i)
    BY <2>4 DEF Resubmit, ResubmitLoad, PrepareAgain, RecordPreparedAgain, SettleRefused,
                SettleFailed, OpenResubmit, SubmitAgain, RecordResubmitAnswer, SettleRejected,
                NoteRejected, CommitResubmission, Escalate, rows
  <2>5. CASE \E w \in Runners : Loop(w, i)
    BY <2>5 DEF Loop, Claim, SettleJob, rows
  <2> QED
    BY <2>1, <2>2, <2>3, <2>4, <2>5 DEF StepAt
<1>2. posted \in [Intents -> Nat] /\ sent \in [Intents -> [Event -> Nat]]
  BY DEF TypeOK
<1>3. posted'[j] = posted[j]
  BY <1>1, <1>2
<1>4. sent'[j] = sent[j]
  BY <1>1, <1>2 DEF Emit
<1> QED
  BY <1>3, <1>4

LEMMA RowsElsewhere ==
  ASSUME TypeOK, NEW i \in Intents, StepAt(i), NEW j \in Intents, j # i
  PROVE  Row(j)' = Row(j)
<1> DEFINE Rest == <<intent[j], charge[j], url[j], prepared[j], attempt[j], age[j], job[j],
                     rail[j], flow[j]>>
<1> SUFFICES Rest' = Rest
  BY BooksElsewhere DEF Row
<1>1. CASE Own(i)
  BY <1>1 DEF StepAt, TypeOK, Own, CancelSnapshot, CancelCommit, ScanLiveCharges, ChargeAges, Rail,
              PayerPays, RailDeclines, ReapLease, rows
<1>2. CASE \E r \in Requests : Confirm(r, i)
  BY <1>2 DEF StepAt, TypeOK, Confirm, LoadConfirmable, OpenCharge, PrepareOnRail, RecordPrepared,
              OpenAttempt, SubmitToRail, RailTakes, RecordSubmitAnswer, RecordAnswered,
              PersistSubmitted, PersistDecline, NoteDecline, rows
<1>3. CASE \E w \in Runners : Poll(w, i)
  BY <1>3 DEF StepAt, TypeOK, Poll, PollLoad, PollRecover, AdvanceAnswered, ScheduleResubmit,
              ResetStreak, RememberDenial, SetLiveState, FailDeadOrder, SettleFailed,
              SettleSucceeded, QueryRail, QueryFails, ActSucceeded, ActFailed, ActPending,
              ActNotFound, Escalate, rows
<1>4. CASE \E w \in Runners : Resubmit(w, i)
  BY <1>4 DEF StepAt, TypeOK, Resubmit, ResubmitLoad, PrepareAgain, RecordPreparedAgain,
              SettleRefused, SettleFailed, OpenResubmit, SubmitAgain, RailTakes,
              RecordResubmitAnswer, RecordAnswered, SettleRejected, NoteRejected,
              CommitResubmission, SetLiveState, Escalate, rows
<1>5. CASE \E w \in Runners : Loop(w, i)
  BY <1>5 DEF StepAt, TypeOK, Loop, Claim, SettleJob, rows
<1> QED
  BY <1>1, <1>2, <1>3, <1>4, <1>5 DEF StepAt

LEMMA Elsewhere ==
  ASSUME TypeOK, NEW i \in Intents, StepAt(i), NEW j \in Intents, j # i
  PROVE  Still(j)
<1>1. Row(j)' = Row(j)
  BY RowsElsewhere
<1>2. CASE Own(i)
  <2>1. req' = req /\ run' = run
    BY <1>2 DEF Own, CancelSnapshot, CancelCommit, ScanLiveCharges, ChargeAges, Rail, PayerPays,
                RailDeclines, ReapLease
  <2> QED
    BY <1>1, <2>1 DEF Still
<1>3. ASSUME NEW r \in Requests, Confirm(r, i) PROVE Still(j)
  BY <1>1, <1>3, ConfirmMoves DEF Still
<1>4. ASSUME NEW w \in Runners, Poll(w, i) \/ Resubmit(w, i) PROVE Still(j)
  BY <1>1, <1>4, PollMoves, ResubmitMoves DEF Still
<1>5. ASSUME NEW w \in Runners, Loop(w, i) PROVE Still(j)
  BY <1>1, <1>5, LoopMoves, ConstantsAssumption DEF Still
<1> QED
  BY <1>2, <1>3, <1>4, <1>5 DEF StepAt

LEMMA CrashRequestIsStill ==
  ASSUME TypeOK, NEW r \in Requests, CrashRequest(r), flow' = flow, NEW j \in Intents
  PROVE  Still(j)
  BY GoReqMoves DEF CrashRequest, Still, Row, rows

LEMMA CrashRunnerIsStill ==
  ASSUME TypeOK, NEW w \in Runners, CrashRunner(w), flow' = flow, NEW j \in Intents
  PROVE  Still(j)
  BY RunTyped, ConstantsAssumption DEF CrashRunner, Still, Row, rows, IdleRunner

\* Every step is a step at one intent, and nothing to the others; a crash is nothing
\* to any of them.
LEMMA StepIsLocal ==
  ASSUME TypeOK, [Next]_vars
  PROVE  \/ \A j \in Intents : Still(j)
         \/ \E i \in Intents : StepAt(i) /\ \A j \in Intents \ {i} : Still(j)
<1>1. CASE UNCHANGED vars
  BY <1>1 DEF vars, rows, Still, Row
<1>2. CASE Next
  <2>1. flow' = flow /\ Step
    BY <1>2 DEF Next, Onto
  <2>2. ASSUME NEW r \in Requests, CrashRequest(r) PROVE \A j \in Intents : Still(j)
    BY <2>1, <2>2, CrashRequestIsStill
  <2>3. ASSUME NEW w \in Runners, CrashRunner(w) PROVE \A j \in Intents : Still(j)
    BY <2>1, <2>3, CrashRunnerIsStill
  <2>4. ASSUME NEW i \in Intents, StepAt(i) PROVE \A j \in Intents \ {i} : Still(j)
    BY <2>4, Elsewhere
  <2>5. ASSUME NEW r \in Requests, NEW i \in Intents, Confirm(r, i) PROVE StepAt(i)
    BY <2>1, <2>5 DEF StepAt
  <2>6. ASSUME NEW w \in Runners, NEW i \in Intents, Poll(w, i) \/ Resubmit(w, i) \/ Loop(w, i)
        PROVE  StepAt(i)
    BY <2>1, <2>6 DEF StepAt
  <2>7. ASSUME NEW i \in Intents, Own(i) PROVE StepAt(i)
    BY <2>1, <2>7 DEF StepAt
  <2>8. \/ \E r \in Requests : CrashRequest(r)
        \/ \E r \in Requests, i \in Intents : Confirm(r, i)
        \/ \E i \in Intents : Own(i)
        \/ \E w \in Runners : CrashRunner(w)
        \/ \E w \in Runners, i \in Intents : Poll(w, i) \/ Resubmit(w, i) \/ Loop(w, i)
    BY <2>1, Zenon DEF Step, Own, Loop
  <2> QED
    BY <2>2, <2>3, <2>4, <2>5, <2>6, <2>7, <2>8
<1> QED
  BY <1>1, <1>2

-----------------------------------------------------------------------------
(* 7. The trace: what the rail may hold, and whoever is about to call it,    *)
(* has been written down.                                                   *)

RequestTraced(r, i) == req[r].i = i =>
  /\ req[r].pc \in InRailWindow => charge[i] # "none"
  /\ req[r].pc \in {"attempt", "submit"} /\ flow[i] = "two_step" => prepared[i]
  /\ req[r].pc = "submit" => attempt[i].by # None

RunnerTraced(w, i) == run[w].i = i =>
  /\ charge[i] # "none"
  /\ run[w].pc \in {"open", "submit"} /\ flow[i] = "two_step" => prepared[i]
  /\ run[w].pc = "submit" => attempt[i].by # None

JobsTraced(i) == \A k \in Kind : job[i][k] # "absent" => charge[i] # "none"

RailTraced(i) == rail[i] # "none" =>
  attempt[i].by # None /\ charge[i] # "none" /\ (flow[i] = "two_step" => prepared[i])

Traced(i) ==
  /\ \A r \in Requests : RequestTraced(r, i)
  /\ \A w \in Runners : RunnerTraced(w, i)
  /\ JobsTraced(i) /\ RailTraced(i)

\* What the database has of a charge it keeps.
Kept(i) ==
  /\ charge[i] # "none" => charge'[i] # "none"
  /\ prepared[i] => prepared'[i]
  /\ attempt[i].by # None => attempt'[i].by # None
  /\ flow'[i] = flow[i]

LEMMA TracedStill ==
  ASSUME NEW i \in Intents, Traced(i), Still(i)
  PROVE  Traced(i)'
  BY DEF Traced, RequestTraced, RunnerTraced, JobsTraced, RailTraced, Still, Row, InRailWindow

LEMMA RequestsKept ==
  ASSUME NEW i \in Intents, Traced(i), Kept(i), NEW r, req'[r] = req[r], RequestTraced(r, i)
  PROVE  RequestTraced(r, i)'
  BY DEF RequestTraced, Kept

LEMMA RunnersKept ==
  ASSUME NEW i \in Intents, Traced(i), Kept(i), NEW w, run'[w] = run[w], RunnerTraced(w, i)
  PROVE  RunnerTraced(w, i)'
  BY DEF RunnerTraced, Kept

LEMMA TracedByRequest ==
  ASSUME NEW r \in Requests, NEW i \in Intents, Traced(i), Kept(i), run' = run,
         \A q \in Requests : q # r => req'[q] = req[q],
         RequestTraced(r, i)', JobsTraced(i)', RailTraced(i)'
  PROVE  Traced(i)'
  BY RequestsKept, RunnersKept DEF Traced

LEMMA TracedByRunner ==
  ASSUME NEW w \in Runners, NEW i \in Intents, Traced(i), Kept(i), req' = req,
         \A v \in Runners : v # w => run'[v] = run[v],
         RunnerTraced(w, i)', JobsTraced(i)', RailTraced(i)'
  PROVE  Traced(i)'
  BY RequestsKept, RunnersKept DEF Traced

LEMMA AttemptKept ==
  ASSUME TypeOK, NEW i \in Intents,
         \/ attempt' = attempt
         \/ \E p : RecordAnswered(i, p)
         \/ \E p \in Requests \cup Runners :
              attempt' = [attempt EXCEPT ![i] = [by |-> p, answered |-> FALSE]]
  PROVE  attempt[i].by # None => attempt'[i].by # None
<1>1. attempt \in [Intents -> Attempt]
  BY DEF TypeOK
<1> QED
  BY <1>1, ConstantsAssumption DEF RecordAnswered, Attempt

LEMMA ConfirmTraced ==
  ASSUME TypeOK, NEW r \in Requests, NEW i \in Intents, Confirm(r, i), flow' = flow, Traced(i)
  PROVE  Traced(i)'
<1> DEFINE Goal == Kept(i) /\ RequestTraced(r, i)' /\ JobsTraced(i)' /\ RailTraced(i)'
<1> SUFFICES Goal
  BY TracedByRequest, ConfirmMoves
<1>0. /\ RequestTraced(r, i) /\ JobsTraced(i) /\ RailTraced(i)
      /\ charge \in [Intents -> ChargeState] /\ prepared \in [Intents -> BOOLEAN]
      /\ attempt \in [Intents -> Attempt] /\ req \in [Requests -> RequestState]
      /\ rail \in [Intents -> {"none", "open", "paid", "declined"}]
      /\ job \in [Intents -> [Kind -> JobState]]
      /\ req'[r].i = i
  BY ConfirmMoves DEF Traced, TypeOK
<1>1. CASE LoadConfirmable(r, i)
  BY <1>0, <1>1 DEF LoadConfirmable, RequestTraced, JobsTraced, RailTraced, Kept, InRailWindow, rows
<1>2. CASE OpenCharge(r, i)
  BY <1>0, <1>2 DEF OpenCharge, RequestTraced, JobsTraced, RailTraced, Kept, InRailWindow, AtReq,
                    GoReq, RequestState
<1>3. CASE PrepareOnRail(r, i)
  BY <1>0, <1>3 DEF PrepareOnRail, rows, RequestTraced, JobsTraced, RailTraced, Kept, InRailWindow,
                    AtReq, GoReq, RequestState
<1>4. CASE OpenAttempt(r, i)
  BY <1>0, <1>4, ConstantsAssumption DEF OpenAttempt, RequestTraced, JobsTraced, RailTraced, Kept,
                                         InRailWindow, AtReq, GoReq, RequestState
<1>5. CASE SubmitToRail(r, i)
  BY <1>0, <1>5 DEF SubmitToRail, RailTakes, RequestTraced, JobsTraced, RailTraced, Kept,
                    InRailWindow, AtReq, GoReq, RequestState, rows
<1>6. CASE RecordSubmitAnswer(r, i)
  <2>1. attempt[i].by # None => attempt'[i].by # None
    BY <1>6, AttemptKept DEF RecordSubmitAnswer
  <2> QED
    BY <1>0, <1>6, <2>1 DEF RecordSubmitAnswer, RequestTraced, JobsTraced, RailTraced, Kept,
                            InRailWindow, AtReq, GoReq, RequestState
<1>7. CASE PersistSubmitted(r, i)
  BY <1>0, <1>7 DEF PersistSubmitted, RequestTraced, JobsTraced, RailTraced, Kept, InRailWindow,
                    AtReq, GoReq, RequestState
<1>8. CASE PersistDecline(r, i)
  BY <1>0, <1>8 DEF PersistDecline, RequestTraced, JobsTraced, RailTraced, Kept, InRailWindow,
                    AtReq, GoReq, RequestState
<1>9. CASE NoteDecline(r, i)
  <2>1. attempt[i].by # None => attempt'[i].by # None
    BY <1>9, AttemptKept DEF NoteDecline
  <2> QED
    BY <1>0, <1>9, <2>1 DEF NoteDecline, RequestTraced, JobsTraced, RailTraced, Kept, InRailWindow,
                            AtReq, GoReq, RequestState
<1>10. CASE RecordPrepared(r, i)
  BY <1>0, <1>10 DEF RecordPrepared, RequestTraced, JobsTraced, RailTraced, Kept, InRailWindow,
                     AtReq, GoReq, RequestState
<1> QED
  BY <1>1, <1>2, <1>3, <1>4, <1>5, <1>6, <1>7, <1>8, <1>9, <1>10 DEF Confirm

LEMMA PollTraced ==
  ASSUME TypeOK, NEW w \in Runners, NEW i \in Intents, Poll(w, i), flow' = flow, Traced(i)
  PROVE  Traced(i)'
<1> DEFINE Goal == Kept(i) /\ RunnerTraced(w, i)' /\ JobsTraced(i)' /\ RailTraced(i)'
<1> SUFFICES Goal
  BY TracedByRunner, PollMoves
<1>0. /\ RunnerTraced(w, i) /\ JobsTraced(i) /\ RailTraced(i)
      /\ charge \in [Intents -> ChargeState] /\ prepared \in [Intents -> BOOLEAN]
      /\ attempt \in [Intents -> Attempt] /\ run \in [Runners -> RunnerState]
      /\ rail \in [Intents -> {"none", "open", "paid", "declined"}]
      /\ job \in [Intents -> [Kind -> JobState]]
      /\ run'[w].i = i
  BY PollMoves DEF Traced, TypeOK
<1>1. CASE PollLoad(w, i)
  BY <1>0, <1>1 DEF PollLoad, rows, RunnerTraced, JobsTraced, RailTraced, Kept, At, Go, Hear, See,
                    Look, RunnerState
<1>2. CASE PollRecover(w, i)
  <2>1. \E pc \in {"requeue", "fail_dead", "schedule", "advance", "query"} : Go(w, pc)
    BY <1>2, PollRecoverGoes
  <2> QED
    BY <1>0, <1>2, <2>1 DEF PollRecover, rows, RunnerTraced, JobsTraced, RailTraced, Kept, At, Go,
                            RunnerState
<1>3. CASE FailDeadOrder(w, i)
  BY <1>0, <1>3 DEF FailDeadOrder, SettleFailed, RunnerTraced, JobsTraced, RailTraced, Kept, At,
                    Go, Hear, See, Look, RunnerState
<1>4. CASE QueryRail(w, i)
  BY <1>0, <1>4 DEF QueryRail, rows, RunnerTraced, JobsTraced, RailTraced, Kept, At, Go, Hear, See,
                    Look, RunnerState
<1>5. CASE QueryFails(w, i)
  BY <1>0, <1>5 DEF QueryFails, rows, RunnerTraced, JobsTraced, RailTraced, Kept, At, Go, Hear,
                    See, Look, RunnerState
<1>6. CASE ActSucceeded(w, i)
  BY <1>0, <1>6 DEF ActSucceeded, SettleSucceeded, RunnerTraced, JobsTraced, RailTraced, Kept, At,
                    Go, Hear, See, Look, RunnerState
<1>7. CASE ActFailed(w, i)
  BY <1>0, <1>7 DEF ActFailed, SettleFailed, RunnerTraced, JobsTraced, RailTraced, Kept, At, Go,
                    Hear, See, Look, RunnerState
<1>8. CASE ActPending(w, i)
  BY <1>0, <1>8 DEF ActPending, SetLiveState, RunnerTraced, JobsTraced, RailTraced,
                    Kept, At, Go, Hear, See, Look, RunnerState
<1>9. CASE ActNotFound(w, i)
  <2>1. \E pc \in {"deny", "fail_dead", "schedule"} : Go(w, pc)
    BY <1>9, ActNotFoundGoes
  <2> QED
    BY <1>0, <1>9, <2>1 DEF ActNotFound, rows, RunnerTraced, JobsTraced, RailTraced, Kept, At, Go,
                            RunnerState
<1>10. CASE Escalate(w, i, "poll")
  BY <1>0, <1>10 DEF Escalate, SetLiveState, RunnerTraced, JobsTraced, RailTraced, Kept, At, Go,
                     Hear, See, Look, RunnerState
<1>11. CASE AdvanceAnswered(w, i)
  BY <1>0, <1>11 DEF AdvanceAnswered, SetLiveState, RunnerTraced, JobsTraced, RailTraced, Kept, At,
                     See, RunnerState
<1>12. CASE ScheduleResubmit(w, i)
  BY <1>0, <1>12 DEF ScheduleResubmit, rows, RunnerTraced, JobsTraced, RailTraced, Kept, At, Go,
                     RunnerState
<1>13. CASE ResetStreak(w, i) \/ RememberDenial(w, i)
  BY <1>0, <1>13 DEF ResetStreak, RememberDenial, KeepPolling, rows, RunnerTraced, JobsTraced,
                     RailTraced, Kept, At, Go, RunnerState
<1> QED
  BY <1>1, <1>2, <1>3, <1>4, <1>5, <1>6, <1>7, <1>8, <1>9, <1>10, <1>11, <1>12, <1>13 DEF Poll

LEMMA ResubmitTraced ==
  ASSUME TypeOK, NEW w \in Runners, NEW i \in Intents, Resubmit(w, i), flow' = flow, Traced(i)
  PROVE  Traced(i)'
<1> DEFINE Goal == Kept(i) /\ RunnerTraced(w, i)' /\ JobsTraced(i)' /\ RailTraced(i)'
<1> SUFFICES Goal
  BY TracedByRunner, ResubmitMoves
<1>0. /\ RunnerTraced(w, i) /\ JobsTraced(i) /\ RailTraced(i)
      /\ charge \in [Intents -> ChargeState] /\ prepared \in [Intents -> BOOLEAN]
      /\ attempt \in [Intents -> Attempt] /\ run \in [Runners -> RunnerState]
      /\ rail \in [Intents -> {"none", "open", "paid", "declined"}]
      /\ job \in [Intents -> [Kind -> JobState]]
      /\ run'[w].i = i
  BY ResubmitMoves DEF Traced, TypeOK
<1>1. CASE ResubmitLoad(w, i)
  BY <1>0, <1>1 DEF ResubmitLoad, rows, RunnerTraced, JobsTraced, RailTraced, Kept, At, Go, Hear,
                    See, Look, RunnerState
<1>2. CASE PrepareAgain(w, i)
  BY <1>0, <1>2 DEF PrepareAgain, rows, RunnerTraced, JobsTraced, RailTraced, Kept, At, Go,
                    Hear, See, Look, RunnerState
<1>3. CASE OpenResubmit(w, i)
  BY <1>0, <1>3, AttemptKept, ConstantsAssumption DEF OpenResubmit, RunnerTraced, JobsTraced,
       RailTraced, Kept, At, Go, Hear, See, Look, RunnerState
<1>4. CASE SubmitAgain(w, i)
  BY <1>0, <1>4 DEF SubmitAgain, RailTakes, rows, RunnerTraced, JobsTraced, RailTraced, Kept, At,
                    Go, Hear, See, Look, RunnerState
<1>5. CASE RecordResubmitAnswer(w, i)
  <2>1. attempt[i].by # None => attempt'[i].by # None
    BY <1>5, AttemptKept DEF RecordResubmitAnswer
  <2> QED
    BY <1>0, <1>5, <2>1 DEF RecordResubmitAnswer, RunnerTraced, JobsTraced, RailTraced, Kept, At,
                            Go, Hear, See, Look, RunnerState
<1>6. CASE SettleRejected(w, i)
  BY <1>0, <1>6 DEF SettleRejected, SettleFailed, RunnerTraced, JobsTraced, RailTraced, Kept, At,
                    Go, Hear, See, Look, RunnerState
<1>7. CASE NoteRejected(w, i)
  <2>1. attempt[i].by # None => attempt'[i].by # None
    BY <1>7, AttemptKept DEF NoteRejected
  <2> QED
    BY <1>0, <1>7, <2>1 DEF NoteRejected, RunnerTraced, JobsTraced, RailTraced, Kept, At, Go, Hear,
                            See, Look, RunnerState
<1>8. CASE CommitResubmission(w, i)
  BY <1>0, <1>8 DEF CommitResubmission, RunnerTraced, JobsTraced, RailTraced, Kept, At, Go, Hear,
                    See, Look, RunnerState
<1>9. CASE Escalate(w, i, "resubmit")
  BY <1>0, <1>9 DEF Escalate, SetLiveState, RunnerTraced, JobsTraced, RailTraced, Kept, At, Go,
                    Hear, See, Look, RunnerState
<1>10. CASE RecordPreparedAgain(w, i)
  BY <1>0, <1>10 DEF RecordPreparedAgain, RunnerTraced, JobsTraced, RailTraced, Kept, At, Go,
                     RunnerState
<1>11. CASE SettleRefused(w, i)
  BY <1>0, <1>11 DEF SettleRefused, SettleFailed, RunnerTraced, JobsTraced, RailTraced, Kept, At,
                     Go, RunnerState
<1> QED
  BY <1>1, <1>2, <1>3, <1>4, <1>5, <1>6, <1>7, <1>8, <1>9, <1>10, <1>11 DEF Resubmit

LEMMA LoopTraced ==
  ASSUME TypeOK, NEW w \in Runners, NEW i \in Intents, Loop(w, i), flow' = flow, Traced(i)
  PROVE  Traced(i)'
<1> DEFINE Goal == Kept(i) /\ RunnerTraced(w, i)' /\ JobsTraced(i)' /\ RailTraced(i)'
<1> SUFFICES Goal
  BY TracedByRunner, LoopMoves
<1>0. /\ RunnerTraced(w, i) /\ JobsTraced(i) /\ RailTraced(i)
      /\ run \in [Runners -> RunnerState] /\ job \in [Intents -> [Kind -> JobState]]
  BY DEF Traced, TypeOK
<1>1. PICK k \in Kind : Claim(w, i, k) \/ SettleJob(w, i, k)
  BY DEF Loop
<1>2. CASE Claim(w, i, k)
  BY <1>0, <1>2, ConstantsAssumption
     DEF Claim, rows, RunnerTraced, JobsTraced, RailTraced, Kept, IdleRunner
<1>3. CASE SettleJob(w, i, k)
  BY <1>0, <1>3, ConstantsAssumption
     DEF SettleJob, rows, RunnerTraced, JobsTraced, RailTraced, Kept, IdleRunner
<1> QED
  BY <1>1, <1>2, <1>3

LEMMA OwnTraced ==
  ASSUME TypeOK, NEW i \in Intents, Own(i), flow' = flow, Traced(i)
  PROVE  Traced(i)'
<1>1. req' = req /\ run' = run
  BY DEF Own, CancelSnapshot, CancelCommit, ScanLiveCharges, ChargeAges, Rail, PayerPays,
         RailDeclines, ReapLease
<1>2. Kept(i)
  BY DEF Own, CancelSnapshot, CancelCommit, ScanLiveCharges, ChargeAges, Rail, PayerPays,
         RailDeclines, ReapLease, rows, Kept
<1>3. JobsTraced(i)' /\ RailTraced(i)'
  <2>1. /\ job \in [Intents -> [Kind -> JobState]] /\ JobsTraced(i) /\ RailTraced(i)
        /\ rail \in [Intents -> {"none", "open", "paid", "declined"}]
    BY DEF TypeOK, Traced
  <2> QED
    BY <2>1, ConstantsAssumption
       DEF Own, CancelSnapshot, CancelCommit, ScanLiveCharges, ChargeAges, Rail, PayerPays,
           RailDeclines, ReapLease, rows, JobsTraced, RailTraced, Live
<1> QED
  BY <1>1, <1>2, <1>3, RequestsKept, RunnersKept DEF Traced

LEMMA TracedNext ==
  ASSUME TypeOK, [Next]_vars, \A i \in Intents : Traced(i)
  PROVE  \A i \in Intents : Traced(i)'
<1>1. ASSUME NEW i \in Intents, StepAt(i) PROVE Traced(i)'
  BY <1>1, ConfirmTraced, PollTraced, ResubmitTraced, LoopTraced, OwnTraced DEF StepAt
<1> QED
  BY <1>1, StepIsLocal, TracedStill

-----------------------------------------------------------------------------
(* 8. One caller at a time, where no process outlasts its window or lease.   *)

InWindow(r, i) == req[r].i = i /\ req[r].pc \in InRailWindow

ConfirmAlone(i) ==
  /\ charge[i] = "none" => age[i] = "young"
  /\ \A r \in Requests : InWindow(r, i) => age[i] = "young"
  /\ \A r, q \in Requests : InWindow(r, i) /\ InWindow(q, i) => r = q

YoungAlone(i) == age[i] = "young" =>
  /\ job[i]["resubmit"] = "absent"
  /\ \A w \in Runners : run[w].i = i =>
       run[w].kind = "poll" /\ run[w].old = "young" /\ run[w].pc # "schedule"

LeaseHeld(i) == \A w \in Runners : run[w].i = i => job[i][run[w].kind] = w

Alone(i) == ConfirmAlone(i) /\ YoungAlone(i) /\ LeaseHeld(i)

LEMMA AloneStill ==
  ASSUME NEW i \in Intents, Alone(i), Still(i)
  PROVE  Alone(i)'
<1>1. ConfirmAlone(i)'
  BY DEF Alone, ConfirmAlone, InWindow, Still, Row, InRailWindow
<1>2. YoungAlone(i)' /\ LeaseHeld(i)'
  BY DEF Alone, YoungAlone, LeaseHeld, Still, Row
<1> QED
  BY <1>1, <1>2 DEF Alone

LEMMA ConfirmAloneByRequest ==
  ASSUME NEW r \in Requests, NEW i \in Intents, ConfirmAlone(i),
         \A q \in Requests : q # r => req'[q] = req[q],
         age' = age, charge[i] # "none" => charge'[i] # "none",
         InWindow(r, i)' => \/ InWindow(r, i)
                            \/ charge[i] = "none" /\ \A q \in Requests : ~ InWindow(q, i)
  PROVE  ConfirmAlone(i)'
  BY DEF ConfirmAlone, InWindow

LEMMA ConfirmAloneHere ==
  ASSUME TypeOK, NEW r \in Requests, NEW i \in Intents, Confirm(r, i), flow' = flow, Traced(i),
         Alone(i)
  PROVE  Alone(i)'
<1>1. /\ age' = age /\ run' = run
      /\ \A q \in Requests : q # r => req'[q] = req[q]
      /\ req'[r].i = i
  BY ConfirmMoves DEF Confirm, LoadConfirmable, OpenCharge, PrepareOnRail, RecordPrepared,
                      OpenAttempt, SubmitToRail, RecordSubmitAnswer, PersistSubmitted,
                      PersistDecline, NoteDecline
<1>2. charge[i] # "none" => charge'[i] # "none"
  BY DEF TypeOK, Confirm, LoadConfirmable, OpenCharge, PrepareOnRail, RecordPrepared, OpenAttempt,
         SubmitToRail, RecordSubmitAnswer, PersistSubmitted, PersistDecline, NoteDecline, rows
<1>3. CASE LoadConfirmable(r, i)
  <2>1. ~ InWindow(r, i)' /\ job' = job
    BY <1>3 DEF LoadConfirmable, TypeOK, InWindow, InRailWindow
  <2> QED
    BY <1>1, <1>2, <2>1, ConfirmAloneByRequest DEF Alone, YoungAlone, LeaseHeld
<1>4. CASE OpenCharge(r, i) /\ charge[i] = "none"
  <2>1. \A q \in Requests : ~ InWindow(q, i)
    BY <1>4 DEF Traced, RequestTraced, InWindow
  <2>2. \A w \in Runners : run[w].i # i
    BY <1>4 DEF Traced, RunnerTraced
  <2>3. job'[i]["resubmit"] = job[i]["resubmit"]
    BY <1>4 DEF OpenCharge, TypeOK, Kind
  <2> QED
    BY <1>1, <1>2, <1>4, <2>1, <2>2, <2>3, ConfirmAloneByRequest DEF Alone, YoungAlone, LeaseHeld
<1>5. CASE ~ LoadConfirmable(r, i) /\ ~ (OpenCharge(r, i) /\ charge[i] = "none")
  <2>1. job' = job
    BY <1>5 DEF Confirm, OpenCharge, PrepareOnRail, RecordPrepared, OpenAttempt, SubmitToRail,
                RecordSubmitAnswer, PersistSubmitted, PersistDecline, NoteDecline
  <2>2. PICK pc : GoReq(r, pc)
    BY <1>5 DEF Confirm, OpenCharge, PrepareOnRail, RecordPrepared, OpenAttempt, SubmitToRail,
                RecordSubmitAnswer, PersistSubmitted, PersistDecline, NoteDecline
  <2>3. req[r].i = i /\ (req[r].pc \in InRailWindow \/ pc = "error")
    BY <1>5, <2>2, GoReqMoves DEF Confirm, OpenCharge, PrepareOnRail, RecordPrepared, OpenAttempt,
                                  SubmitToRail, RecordSubmitAnswer, PersistSubmitted,
                                  PersistDecline, NoteDecline, AtReq, InRailWindow
  <2>4. InWindow(r, i)' => InWindow(r, i)
    BY <2>2, <2>3, GoReqMoves DEF InWindow, InRailWindow
  <2> QED
    BY <1>1, <1>2, <2>1, <2>4, ConfirmAloneByRequest DEF Alone, YoungAlone, LeaseHeld
<1> QED
  BY <1>3, <1>4, <1>5

\* A runner's step: it keeps its lease, and a resubmission is only scheduled late.
LEMMA AloneByRunner ==
  ASSUME TypeOK, NEW w \in Runners, NEW i \in Intents, Alone(i), run[w].i = i,
         req' = req, age' = age, charge[i] # "none" => charge'[i] # "none",
         \A v \in Runners : v # w => run'[v] = run[v],
         run'[w].i = i, run'[w].kind = run[w].kind,
         run'[w].old \in {run[w].old, age[i]},
         run'[w].pc = "schedule" => run[w].old # "young",
         \/ job' = job
         \/ age[i] # "young" /\ job[i]["resubmit"] = "absent"
            /\ job' = [job EXCEPT ![i]["resubmit"] = "queued"]
         \/ job[i]["poll"] = "absent" /\ job' = [job EXCEPT ![i]["poll"] = "queued"]
  PROVE  Alone(i)'
<1>1. ConfirmAlone(i)'
  BY DEF Alone, ConfirmAlone, InWindow
<1>2. YoungAlone(i)'
  <2> SUFFICES ASSUME age[i] = "young"
               PROVE  /\ job'[i]["resubmit"] = "absent"
                      /\ \A v \in Runners : run'[v].i = i =>
                           run'[v].kind = "poll" /\ run'[v].old = "young" /\ run'[v].pc # "schedule"
    BY DEF YoungAlone
  <2>1. YoungAlone(i)
    BY DEF Alone
  <2>2. run[w].kind = "poll" /\ run[w].old = "young"
    BY <2>1 DEF YoungAlone
  <2>3. job'[i]["resubmit"] = "absent"
    BY <2>1 DEF YoungAlone, TypeOK, Kind
  <2> QED
    BY <2>1, <2>2, <2>3 DEF YoungAlone
<1>3. LeaseHeld(i)'
  <2>1. \A v \in Runners : /\ run'[v].i = run[v].i /\ run'[v].kind = run[v].kind
                           /\ run[v].kind \in Kind
    BY DEF TypeOK, RunnerState
  <2>2. job \in [Intents -> [Kind -> JobState]] /\ LeaseHeld(i) /\ "absent" \notin Runners
    BY ConstantsAssumption DEF TypeOK, Alone
  <2> QED
    BY <2>1, <2>2 DEF LeaseHeld, Kind
<1> QED
  BY <1>1, <1>2, <1>3 DEF Alone

LEMMA PollAlone ==
  ASSUME TypeOK, NEW w \in Runners, NEW i \in Intents, Poll(w, i), flow' = flow, Alone(i), Traced(i)
  PROVE  Alone(i)'
<1>1. /\ \A v \in Runners : v # w => run'[v] = run[v]
      /\ run[w].i = i /\ run'[w].i = i /\ run[w].kind = "poll" /\ run'[w].kind = "poll"
      /\ req' = req
  BY PollMoves
<1>2. age' = age
  BY DEF Poll, PollLoad, PollRecover, AdvanceAnswered, ScheduleResubmit, ResetStreak,
         RememberDenial, FailDeadOrder, QueryRail, QueryFails, ActSucceeded, ActFailed, ActPending,
         ActNotFound, Escalate
<1>3. charge'[i] # "none"
  <2>1. charge[i] # "none"
    BY <1>1 DEF Traced, RunnerTraced
  <2> QED
    BY <2>1 DEF TypeOK, Poll, PollLoad, PollRecover, AdvanceAnswered, ScheduleResubmit, ResetStreak,
                RememberDenial, SetLiveState, FailDeadOrder, SettleFailed, SettleSucceeded,
                QueryRail, QueryFails, ActSucceeded, ActFailed, ActPending, ActNotFound, Escalate,
                rows
<1>4. run'[w].old \in {run[w].old, age[i]}
  BY GoMoves, HearMoves, SeeMoves, LookMoves
     DEF Poll, PollLoad, PollRecover, AdvanceAnswered, ScheduleResubmit, ResetStreak,
         RememberDenial, FailDeadOrder, QueryRail, QueryFails, ActSucceeded, ActFailed, ActPending,
         ActNotFound, Escalate, SettleSucceeded, SettleFailed
<1>5. job' # job => /\ run[w].pc = "schedule"
                    /\ job[i]["resubmit"] = "absent"
                    /\ job' = [job EXCEPT ![i]["resubmit"] = "queued"]
  BY DEF Poll, PollLoad, PollRecover, AdvanceAnswered, ScheduleResubmit, ResetStreak,
         RememberDenial, FailDeadOrder, QueryRail, QueryFails, ActSucceeded, ActFailed, ActPending,
         ActNotFound, Escalate, At
<1>6. run[w].pc = "schedule" => age[i] # "young"
  BY <1>1 DEF Alone, YoungAlone
<1>7. run'[w].pc = "schedule" => run[w].old # "young"
  <2>1. CASE PollRecover(w, i) \/ ActNotFound(w, i)
    BY <2>1, PollRecoverGoes, ActNotFoundGoes, GoMoves
  <2>2. CASE ~ PollRecover(w, i) /\ ~ ActNotFound(w, i)
    <3>1. \E pc \in RunnerPC \ {"schedule"} : \E c, o, a :
            Go(w, pc) \/ Hear(w, pc, a) \/ See(w, pc, c) \/ Look(w, pc, c, o)
      BY <2>2, Names
         DEF Poll, PollLoad, AdvanceAnswered, ScheduleResubmit, ResetStreak, RememberDenial,
             FailDeadOrder, QueryRail, QueryFails, ActSucceeded, ActFailed, ActPending, Escalate,
             SettleSucceeded, SettleFailed, KeepPolling
    <3> QED
      BY <3>1, GoMoves, HearMoves, SeeMoves, LookMoves
  <2> QED
    BY <2>1, <2>2
<1> QED
  BY <1>1, <1>2, <1>3, <1>4, <1>5, <1>6, <1>7, AloneByRunner

LEMMA ResubmitAlone ==
  ASSUME TypeOK, NEW w \in Runners, NEW i \in Intents, Resubmit(w, i), flow' = flow, Alone(i),
         Traced(i)
  PROVE  Alone(i)'
<1>1. /\ \A v \in Runners : v # w => run'[v] = run[v]
      /\ run[w].i = i /\ run'[w].i = i /\ run[w].kind = "resubmit" /\ run'[w].kind = "resubmit"
      /\ req' = req
  BY ResubmitMoves
<1>2. age' = age
  BY DEF Resubmit, ResubmitLoad, PrepareAgain, RecordPreparedAgain, SettleRefused, OpenResubmit,
         SubmitAgain, RecordResubmitAnswer, SettleRejected, NoteRejected, CommitResubmission,
         Escalate
<1>3. charge'[i] # "none"
  <2>1. charge[i] # "none"
    BY <1>1 DEF Traced, RunnerTraced
  <2> QED
    BY <2>1 DEF TypeOK, Resubmit, ResubmitLoad, PrepareAgain, RecordPreparedAgain, SettleRefused,
                SettleFailed, OpenResubmit, SubmitAgain, RecordResubmitAnswer, SettleRejected,
                NoteRejected, CommitResubmission, SetLiveState, Escalate, rows
<1>4. run'[w].old = run[w].old
  BY GoMoves, HearMoves, SeeMoves
     DEF Resubmit, ResubmitLoad, PrepareAgain, RecordPreparedAgain, SettleRefused, OpenResubmit,
         SubmitAgain, RecordResubmitAnswer, SettleRejected, NoteRejected, CommitResubmission,
         Escalate, SettleFailed
<1>5. job' # job => job[i]["poll"] = "absent" /\ job' = [job EXCEPT ![i]["poll"] = "queued"]
  BY DEF Resubmit, ResubmitLoad, PrepareAgain, RecordPreparedAgain, SettleRefused, OpenResubmit,
         SubmitAgain, RecordResubmitAnswer, SettleRejected, NoteRejected, CommitResubmission,
         Escalate
<1>6. run'[w].pc # "schedule"
  <2>1. CASE SubmitAgain(w, i)
    <3>1. \E pc \in {"answered", "requeue", "escalate", "park"}, a \in Answer : Hear(w, pc, a)
      BY <2>1 DEF SubmitAgain, RailTakes
    <3> QED
      BY <3>1, HearMoves
  <2>2. CASE ~ SubmitAgain(w, i)
    <3>1. \E pc \in RunnerPC \ {"schedule"} : \E c : Go(w, pc) \/ See(w, pc, c)
      BY <2>2, Names
         DEF Resubmit, ResubmitLoad, PrepareAgain, RecordPreparedAgain, SettleRefused,
             OpenResubmit, RecordResubmitAnswer, SettleRejected, NoteRejected,
             CommitResubmission, Escalate, SettleFailed
    <3> QED
      BY <3>1, GoMoves, SeeMoves
  <2> QED
    BY <2>1, <2>2
<1> QED
  BY <1>1, <1>2, <1>3, <1>4, <1>5, <1>6, AloneByRunner

LEMMA LoopAlone ==
  ASSUME TypeOK, NEW w \in Runners, NEW i \in Intents, Loop(w, i), flow' = flow, Alone(i)
  PROVE  Alone(i)'
<1>1. PICK k \in Kind : Claim(w, i, k) \/ SettleJob(w, i, k)
  BY DEF Loop
<1>2. UNCHANGED <<age, charge, req>>
  BY <1>1 DEF Claim, SettleJob, rows
<1>3. /\ job \in [Intents -> [Kind -> JobState]] /\ run \in [Runners -> RunnerState]
      /\ ConfirmAlone(i) /\ YoungAlone(i) /\ LeaseHeld(i)
  BY DEF TypeOK, Alone
<1>4. ConfirmAlone(i)'
  BY <1>2, <1>3 DEF ConfirmAlone, InWindow
<1>5. CASE Claim(w, i, k)
  <2>1. /\ \A v \in Runners : v # w => run'[v] = run[v]
        /\ run'[w].i = i /\ run'[w].kind = k /\ run'[w].old = "young"
        /\ run'[w].pc = "load"
        /\ job[i][k] = "queued" /\ job' = [job EXCEPT ![i][k] = w]
    BY <1>3, <1>5 DEF Claim, IdleRunner
  <2>2. YoungAlone(i)'
    BY <1>2, <1>3, <2>1 DEF YoungAlone, Kind
  <2>3. LeaseHeld(i)'
    BY <1>3, <2>1, ConstantsAssumption DEF LeaseHeld, Kind, RunnerState
  <2> QED
    BY <1>4, <2>2, <2>3 DEF Alone
<1>6. CASE SettleJob(w, i, k)
  <2>1. /\ \A v \in Runners : v # w => run'[v] = run[v]
        /\ run'[w].i = None
        /\ run[w].i = i /\ run[w].kind = k /\ job[i][k] = w
    BY <1>3, <1>6 DEF SettleJob, IdleRunner, LeaseHeld
  <2>2. PICK s : job' = [job EXCEPT ![i][k] = s]
    BY <1>6, <2>1 DEF SettleJob
  <2>3. YoungAlone(i)'
    BY <1>2, <1>3, <2>1, <2>2, ConstantsAssumption DEF YoungAlone, Kind
  <2>4. LeaseHeld(i)'
    BY <1>3, <2>1, <2>2, ConstantsAssumption DEF LeaseHeld, Kind, RunnerState
  <2> QED
    BY <1>4, <2>3, <2>4 DEF Alone
<1> QED
  BY <1>1, <1>5, <1>6

LEMMA OwnAlone ==
  ASSUME ~ Stalls, TypeOK, NEW i \in Intents, Own(i), flow' = flow, Alone(i)
  PROVE  Alone(i)'
<1>1. req' = req /\ run' = run /\ charge' = charge
  BY DEF Own, CancelSnapshot, CancelCommit, ScanLiveCharges, ChargeAges, Rail, PayerPays,
         RailDeclines, ReapLease, rows
<1>2. /\ job \in [Intents -> [Kind -> JobState]] /\ run \in [Runners -> RunnerState]
      /\ age \in [Intents -> {"young", "mature", "late"}]
      /\ ConfirmAlone(i) /\ YoungAlone(i) /\ LeaseHeld(i)
  BY DEF TypeOK, Alone
<1>3. CASE ChargeAges(i)
  <2>1. /\ charge[i] # "none" /\ age'[i] # "young" /\ job' = job
        /\ age[i] = "young" => \A r \in Requests : ~ InWindow(r, i)
    BY <1>2, <1>3 DEF ChargeAges, InWindow
  <2> QED
    BY <1>1, <1>2, <2>1 DEF ConfirmAlone, YoungAlone, LeaseHeld, InWindow, Alone
<1>4. CASE ScanLiveCharges(i)
  BY <1>1, <1>2, <1>4, ConstantsAssumption
     DEF ScanLiveCharges, ConfirmAlone, YoungAlone, LeaseHeld, InWindow, Alone, Kind, RunnerState
<1>5. CASE \E k \in Kind : ReapLease(i, k)
  BY <1>1, <1>2, <1>5, ConstantsAssumption
     DEF ReapLease, ConfirmAlone, YoungAlone, LeaseHeld, InWindow, Alone, Kind, RunnerState
<1>6. CASE CancelSnapshot(i) \/ CancelCommit(i) \/ Rail(i)
  BY <1>1, <1>2, <1>6 DEF CancelSnapshot, CancelCommit, Rail, PayerPays, RailDeclines,
     ConfirmAlone, YoungAlone, LeaseHeld, InWindow, Alone, rows
<1> QED
  BY <1>3, <1>4, <1>5, <1>6 DEF Own

LEMMA AloneNext ==
  ASSUME ~ Stalls, TypeOK, [Next]_vars, \A i \in Intents : Traced(i) /\ Alone(i)
  PROVE  \A i \in Intents : Alone(i)'
<1>1. ASSUME NEW i \in Intents, StepAt(i) PROVE Alone(i)'
  BY <1>1, ConfirmAloneHere, PollAlone, ResubmitAlone, LoopAlone, OwnAlone DEF StepAt
<1> QED
  BY <1>1, StepIsLocal, AloneStill

-----------------------------------------------------------------------------
(* 9. Who knows what of the rail, where no process stalls.                  *)

\* The steps at which a request, or a runner, may still call the rail.
MayCall(r)      == req[r].pc \in {"prepare", "prepared", "attempt", "submit"}
MayCallAgain(w) == run[w].pc \in {"prepare", "prepared", "open", "submit"}

Quiet(i) ==
  /\ \A r \in Requests : req[r].i = i => ~ MayCall(r)
  /\ \A w \in Runners : run[w].i = i => ~ MayCallAgain(w)

RequestKnows(r, i) == req[r].i = i =>
  /\ MayCall(r) \/ req[r].pc = "decline" => rail[i] = "none"
  /\ req[r].pc \in {"answered", "persist"} => rail[i] # "none"

RunnerKnows(w, i) == run[w].i = i =>
  /\ run[w].pc \in {"prepare", "prepared", "refused", "open", "submit", "answered"}
       => run[w].kind = "resubmit"
  /\ run[w].pc \in {"prepare", "refused"} => rail[i] = "none"
  /\ run[w].pc = "answered" /\ run[w].ans = "rejected" => rail[i] = "none"
  /\ run[w].pc = "act" /\ run[w].ans = "failed"    => rail[i] = "declined"
  /\ run[w].pc = "act" /\ run[w].ans = "succeeded" => rail[i] = "paid"
  /\ run[w].pc = "fail_dead" => flow[i] = "redirect" /\ ~url[i] /\ run[w].old # "young"
  /\ run[w].pc = "evidence"  => run[w].seen = "submitting"
  /\ run[w].pc \in {"evidence", "advance", "query", "act"} /\ run[w].seen = "submitting"
     /\ run[w].old # "young" => ~url[i]

UrlKnows(i) ==
  /\ url[i] => charge[i] \notin {"none", "submitting"} /\ rail[i] # "none"
  /\ flow[i] = "redirect" /\ rail[i] = "paid" => url[i]

WrittenOff(i) ==
  \/ rail[i] = "declined"
  \/ flow[i] = "redirect" /\ ~url[i]
  \/ rail[i] = "none" /\ Quiet(i)

ChargeKnows(i) ==
  /\ charge[i] = "succeeded" => rail[i] = "paid"
  /\ charge[i] = "failed"    => WrittenOff(i)

Knows(i) ==
  /\ \A r \in Requests : RequestKnows(r, i)
  /\ \A w \in Runners : RunnerKnows(w, i)
  /\ UrlKnows(i) /\ ChargeKnows(i)

LEMMA KnowsStill ==
  ASSUME NEW i \in Intents, Knows(i), Still(i)
  PROVE  Knows(i)'
<1>1. \A r \in Requests : RequestKnows(r, i)'
  BY DEF Knows, RequestKnows, MayCall, Still, Row
<1>2. \A w \in Runners : RunnerKnows(w, i)'
  BY DEF Knows, RunnerKnows, Still, Row
<1>3. UrlKnows(i)' /\ ChargeKnows(i)'
  <2>1. Quiet(i) => Quiet(i)'
    BY DEF Quiet, MayCall, MayCallAgain, Still
  <2> QED
    BY <2>1 DEF Knows, UrlKnows, ChargeKnows, WrittenOff, Still, Row
<1> QED
  BY <1>1, <1>2, <1>3 DEF Knows

Resubmitting(w, i) == run[w].i = i /\ run[w].kind = "resubmit"

\* At most one of those at an intent may call, answer or decline for it.
LEMMA SoleCaller ==
  ASSUME NEW i \in Intents, Alone(i)
  PROVE  /\ \A r, q \in Requests : InWindow(r, i) /\ InWindow(q, i) => r = q
         /\ \A w, v \in Runners : Resubmitting(w, i) /\ Resubmitting(v, i) => w = v
         /\ \A r \in Requests, w \in Runners :
              InWindow(r, i) /\ run[w].i = i => run[w].kind = "poll" /\ run[w].old = "young"
  BY DEF Alone, ConfirmAlone, YoungAlone, LeaseHeld, Resubmitting


\* A step of one request, or of one runner, that leaves the rail alone.
LEMMA KnowsByRequest ==
  ASSUME NEW r \in Requests, NEW i \in Intents, Knows(i), run' = run,
         \A q \in Requests : q # r => req'[q] = req[q],
         UNCHANGED <<rail, charge, url, flow>>,
         RequestKnows(r, i)', MayCall(r)' => MayCall(r) /\ req[r].i = i
  PROVE  Knows(i)'
<1>1. \A q \in Requests : RequestKnows(q, i)'
  BY DEF Knows, RequestKnows, MayCall
<1>2. \A w \in Runners : RunnerKnows(w, i)'
  BY DEF Knows, RunnerKnows
<1>3. UrlKnows(i)' /\ ChargeKnows(i)'
  <2>1. Quiet(i) => Quiet(i)'
    BY DEF Quiet, MayCall, MayCallAgain
  <2> QED
    BY <2>1 DEF Knows, UrlKnows, ChargeKnows, WrittenOff
<1> QED
  BY <1>1, <1>2, <1>3 DEF Knows

LEMMA KnowsByRunner ==
  ASSUME NEW w \in Runners, NEW i \in Intents, Knows(i), req' = req,
         \A v \in Runners : v # w => run'[v] = run[v],
         UNCHANGED <<rail, url, flow>>, RunnerKnows(w, i)',
         run'[w].i = i /\ MayCallAgain(w)'
           => (run[w].i = i /\ MayCallAgain(w)) \/ charge[i] # "failed",
         \/ charge'[i] = charge[i]
         \/ charge'[i] \in Live \ {"submitting"}
         \/ charge'[i] = "succeeded" /\ rail[i] = "paid"
         \/ charge'[i] = "failed" /\ WrittenOff(i)'
  PROVE  Knows(i)'
<1>1. \A r \in Requests : RequestKnows(r, i)'
  BY DEF Knows, RequestKnows, MayCall
<1>2. \A v \in Runners : RunnerKnows(v, i)'
  BY DEF Knows, RunnerKnows
<1>3. UrlKnows(i)'
  BY DEF Knows, UrlKnows, Live
<1>4. ChargeKnows(i)'
  <2>1. Quiet(i) /\ charge[i] = "failed" => Quiet(i)'
    BY DEF Quiet, MayCall, MayCallAgain
  <2> QED
    BY <2>1 DEF Knows, ChargeKnows, WrittenOff, Live
<1> QED
  BY <1>1, <1>2, <1>3, <1>4 DEF Knows

LEMMA ConfirmKnows ==
  ASSUME TypeOK, NEW r \in Requests, NEW i \in Intents, Confirm(r, i), flow' = flow,
         Traced(i), Alone(i), Knows(i)
  PROVE  Knows(i)'
<1>0. /\ \A q \in Requests : q # r => req'[q] = req[q]
      /\ req'[r].i = i
      /\ run' = run
  BY ConfirmMoves
<1>1. CASE LoadConfirmable(r, i)
  <2>1. req'[r].pc = "loaded" /\ UNCHANGED <<rail, charge, url>>
    BY <1>1 DEF LoadConfirmable, TypeOK, rows
  <2> QED
    BY <1>0, <2>1, KnowsByRequest DEF RequestKnows, MayCall
<1>2. CASE OpenCharge(r, i)
  <2>1. CASE charge[i] = "none"
    <3>1. /\ rail[i] = "none" /\ ~url[i]
      BY <2>1, <1>2 DEF Traced, RailTraced, Knows, UrlKnows, TypeOK
    <3>2. charge'[i] = "submitting" /\ UNCHANGED <<rail, url>>
      BY <2>1, <1>2 DEF OpenCharge, TypeOK
    <3>3. \A q \in Requests : RequestKnows(q, i)'
      <4>1. RequestKnows(r, i)'
        BY <1>0, <2>1, <1>2, <3>1, <3>2, GoReqMoves DEF OpenCharge, RequestKnows, MayCall
      <4>2. ASSUME NEW q \in Requests, q # r PROVE RequestKnows(q, i)'
        BY <1>0, <3>2, <4>2 DEF RequestKnows, MayCall, Knows
      <4> QED
        BY <4>1, <4>2
    <3>4. \A w \in Runners : RunnerKnows(w, i)'
      BY <1>0, <3>2 DEF RunnerKnows, Knows
    <3>5. UrlKnows(i)' /\ ChargeKnows(i)'
      BY <3>1, <3>2 DEF UrlKnows, ChargeKnows
    <3> QED
      BY <3>3, <3>4, <3>5 DEF Knows
  <2>2. CASE charge[i] # "none"
    <3>1. UNCHANGED <<rail, charge, url>> /\ req'[r].pc = "error"
      BY <2>2, <1>2, GoReqMoves DEF OpenCharge
    <3> QED
      BY <1>0, <3>1, KnowsByRequest DEF RequestKnows, MayCall
  <2> QED
    BY <2>1, <2>2
<1>3. CASE PrepareOnRail(r, i)
  <2>1. /\ req[r].i = i /\ req[r].pc = "prepare" /\ UNCHANGED <<rail, charge, url>>
        /\ req'[r].pc \in {"prepared", "decline", "error"}
    BY <1>3, GoReqMoves DEF PrepareOnRail, AtReq, rows
  <2> QED
    BY <1>0, <2>1, KnowsByRequest DEF RequestKnows, MayCall, Knows
<1>4. CASE OpenAttempt(r, i)
  <2>1. /\ req[r].i = i /\ req[r].pc = "attempt" /\ UNCHANGED <<rail, charge, url>>
        /\ req'[r].pc = "submit"
    BY <1>4, GoReqMoves DEF OpenAttempt, AtReq
  <2> QED
    BY <1>0, <2>1, KnowsByRequest DEF RequestKnows, MayCall, Knows
<1>5. CASE SubmitToRail(r, i)
  <2>1. /\ req[r].i = i /\ req[r].pc = "submit" /\ UNCHANGED <<charge, url>>
        /\ rail[i] = "none"
    BY <1>5 DEF SubmitToRail, AtReq, rows, Knows, RequestKnows, MayCall
  <2>2. /\ rail' = rail \/ (rail'[i] = "open" /\ req'[r].pc \in {"answered", "error"})
        /\ rail' = rail => req'[r].pc \in {"decline", "error"}
    BY <1>5, <2>1, GoReqMoves DEF SubmitToRail, RailTakes, TypeOK
  <2>3. CASE rail' = rail
    BY <1>0, <2>1, <2>2, <2>3, KnowsByRequest DEF RequestKnows, MayCall, Knows
  <2>4. CASE rail'[i] = "open" /\ req'[r].pc \in {"answered", "error"}
    <3>1. InWindow(r, i)
      BY <2>1 DEF InWindow, InRailWindow
    <3>2. \A q \in Requests : RequestKnows(q, i)'
      <4>1. RequestKnows(r, i)'
        BY <1>0, <2>4 DEF RequestKnows, MayCall
      <4>2. ASSUME NEW q \in Requests, q # r PROVE RequestKnows(q, i)'
        BY <1>0, <2>4, <3>1, <4>2, SoleCaller DEF RequestKnows, MayCall, InWindow, InRailWindow
      <4> QED
        BY <4>1, <4>2
    <3>3. \A w \in Runners : RunnerKnows(w, i)'
      BY <1>0, <2>1, <2>4, <3>1, SoleCaller DEF Knows, RunnerKnows
    <3>4. UrlKnows(i)'
      BY <2>1, <2>4 DEF Knows, UrlKnows
    <3>5. ChargeKnows(i)'
      BY <2>1, <2>4 DEF Knows, ChargeKnows, WrittenOff, Quiet, MayCall
    <3> QED
      BY <3>2, <3>3, <3>4, <3>5 DEF Knows
  <2> QED
    BY <2>2, <2>3, <2>4
<1>6. CASE RecordSubmitAnswer(r, i)
  <2>1. /\ req[r].i = i /\ req[r].pc = "answered" /\ UNCHANGED <<rail, charge, url>>
        /\ req'[r].pc = "persist"
    BY <1>6, GoReqMoves DEF RecordSubmitAnswer, AtReq
  <2> QED
    BY <1>0, <2>1, KnowsByRequest DEF RequestKnows, MayCall, Knows
<1>7. CASE PersistSubmitted(r, i)
  <2>1. /\ req[r].i = i /\ req[r].pc = "persist" /\ rail' = rail /\ rail[i] # "none"
        /\ req'[r].pc \in {"ok", "error"}
    BY <1>7, GoReqMoves DEF PersistSubmitted, AtReq, Knows, RequestKnows
  <2>2. CASE UNCHANGED <<charge, url>>
    BY <1>0, <2>1, <2>2, KnowsByRequest DEF RequestKnows, MayCall
  <2>3. CASE ~ UNCHANGED <<charge, url>>
    <3>1. /\ charge'[i] = "submitted" /\ charge[i] = "submitting"
          /\ url'[i] = (flow[i] = "redirect")
      BY <1>7, <2>3 DEF PersistSubmitted, TypeOK
    <3>2. InWindow(r, i)
      BY <2>1 DEF InWindow, InRailWindow
    <3>3. \A q \in Requests : RequestKnows(q, i)'
      BY <1>0, <2>1 DEF RequestKnows, MayCall, Knows
    <3>4. \A w \in Runners : RunnerKnows(w, i)'
      BY <1>0, <2>1, <3>2, SoleCaller DEF Knows, RunnerKnows
    <3>5. UrlKnows(i)' /\ ChargeKnows(i)'
      BY <2>1, <3>1 DEF UrlKnows, ChargeKnows
    <3> QED
      BY <3>3, <3>4, <3>5 DEF Knows
  <2> QED
    BY <2>2, <2>3
<1>8. CASE PersistDecline(r, i)
  <2>1. /\ req[r].i = i /\ req[r].pc = "decline" /\ UNCHANGED <<rail, url>> /\ rail[i] = "none"
        /\ req'[r].pc \in {"note", "error"}
    BY <1>8, GoReqMoves DEF PersistDecline, AtReq, Knows, RequestKnows
  <2>2. CASE charge' = charge
    BY <1>0, <2>1, <2>2, KnowsByRequest DEF RequestKnows, MayCall
  <2>3. CASE charge' # charge
    <3>1. charge'[i] = "failed"
      BY <1>8, <2>3 DEF PersistDecline, TypeOK
    <3>2. InWindow(r, i)
      BY <2>1 DEF InWindow, InRailWindow
    <3>3. \A q \in Requests : RequestKnows(q, i)'
      BY <1>0, <2>1 DEF RequestKnows, MayCall, Knows
    <3>4. \A w \in Runners : RunnerKnows(w, i)'
      BY <1>0, <2>1 DEF Knows, RunnerKnows
    <3>5. Quiet(i)'
      <4>1. ASSUME NEW q \in Requests, req'[q].i = i PROVE ~ MayCall(q)'
        BY <1>0, <2>1, <3>2, <4>1, SoleCaller DEF MayCall, InWindow, InRailWindow
      <4>2. ASSUME NEW w \in Runners, run'[w].i = i PROVE ~ MayCallAgain(w)'
        BY <1>0, <3>2, <4>2, SoleCaller DEF Knows, RunnerKnows, MayCallAgain
      <4> QED
        BY <4>1, <4>2 DEF Quiet
    <3>6. UrlKnows(i)' /\ ChargeKnows(i)'
      BY <2>1, <3>1, <3>5 DEF Knows, UrlKnows, ChargeKnows, WrittenOff
    <3> QED
      BY <3>3, <3>4, <3>6 DEF Knows
  <2> QED
    BY <2>2, <2>3
<1>9. CASE NoteDecline(r, i)
  <2>1. UNCHANGED <<rail, charge, url>> /\ req'[r].pc = "declined"
    BY <1>9, GoReqMoves DEF NoteDecline
  <2> QED
    BY <1>0, <2>1, KnowsByRequest DEF RequestKnows, MayCall
<1>10. CASE RecordPrepared(r, i)
  <2>1. /\ req[r].i = i /\ req[r].pc = "prepared" /\ UNCHANGED <<rail, charge, url>>
        /\ req'[r].pc \in {"attempt", "error"}
    BY <1>10, GoReqMoves DEF RecordPrepared, AtReq
  <2> QED
    BY <1>0, <2>1, KnowsByRequest DEF RequestKnows, MayCall, Knows
<1> QED
  BY <1>1, <1>2, <1>3, <1>4, <1>5, <1>6, <1>7, <1>8, <1>9, <1>10 DEF Confirm

LEMMA PollKnows ==
  ASSUME TypeOK, NEW w \in Runners, NEW i \in Intents, Poll(w, i), flow' = flow,
         Traced(i), Alone(i), Knows(i)
  PROVE  Knows(i)'
<1>0. /\ \A v \in Runners : v # w => run'[v] = run[v]
      /\ run[w].i = i /\ run'[w].i = i /\ run[w].kind = "poll" /\ run'[w].kind = "poll"
      /\ req' = req
      /\ RunnerKnows(w, i) /\ UrlKnows(i)
      /\ charge \in [Intents -> ChargeState]
  BY PollMoves DEF Knows, TypeOK
<1>1. UNCHANGED <<rail, url>>
  BY DEF Poll, PollLoad, PollRecover, AdvanceAnswered, ScheduleResubmit, ResetStreak,
         RememberDenial, FailDeadOrder, QueryRail, QueryFails, ActSucceeded, ActFailed, ActPending,
         ActNotFound, Escalate, rows
<1> DEFINE Heard ==
      /\ run'[w].pc = "act" /\ run'[w].ans = "failed"    => rail[i] = "declined"
      /\ run'[w].pc = "act" /\ run'[w].ans = "succeeded" => rail[i] = "paid"
      /\ run'[w].pc = "fail_dead" => flow[i] = "redirect" /\ ~url[i] /\ run'[w].old # "young"
      /\ run'[w].pc = "evidence"  => run'[w].seen = "submitting"
      /\ run'[w].pc \in {"evidence", "advance", "query", "act"} /\ run'[w].seen = "submitting"
         /\ run'[w].old # "young" => ~url[i]
    Moved ==
      \/ charge'[i] = charge[i]
      \/ charge'[i] \in Live \ {"submitting"}
      \/ charge'[i] = "succeeded" /\ rail[i] = "paid"
      \/ charge'[i] = "failed" /\ (rail[i] = "declined" \/ (flow[i] = "redirect" /\ ~url[i]))
    Goal ==
      /\ run'[w].pc \notin {"prepare", "prepared", "refused", "open", "submit", "answered"}
      /\ Heard /\ Moved
<1> SUFFICES Goal
  <2>1. /\ RunnerKnows(w, i)' /\ ~ MayCallAgain(w)'
        /\ \/ charge'[i] = charge[i]
           \/ charge'[i] \in Live \ {"submitting"}
           \/ charge'[i] = "succeeded" /\ rail[i] = "paid"
           \/ charge'[i] = "failed" /\ WrittenOff(i)'
    BY <1>0, <1>1 DEF RunnerKnows, MayCallAgain, WrittenOff
  <2> QED
    BY <1>0, <1>1, <2>1, KnowsByRunner
<1>2. CASE PollLoad(w, i)
  <2>1. PICK pc \in {"finish", "evidence", "query"} :
          /\ Look(w, pc, charge[i], age[i])
          /\ pc = "evidence" => charge[i] = "submitting"
    BY <1>2 DEF PollLoad
  <2>2. charge' = charge
    BY <1>2 DEF PollLoad, rows
  <2> QED
    BY <1>0, <2>1, <2>2, LookMoves DEF UrlKnows
<1>3. CASE PollRecover(w, i)
  <2>1. run[w].pc = "evidence" /\ run[w].seen = "submitting"
    BY <1>0, <1>3 DEF PollRecover, At, RunnerKnows
  <2>2. charge' = charge
    BY <1>3 DEF PollRecover, rows
  <2>3. PICK pc \in {"requeue", "fail_dead", "schedule", "advance", "query"} :
          /\ Go(w, pc)
          /\ pc = "fail_dead" => run[w].old # "young" /\ flow[i] = "redirect"
    BY <1>3, PollRecoverGoes
  <2> QED
    BY <1>0, <2>1, <2>2, <2>3, GoMoves DEF RunnerKnows
<1>4. CASE FailDeadOrder(w, i)
  <2>1. flow[i] = "redirect" /\ ~url[i]
    BY <1>0, <1>4 DEF FailDeadOrder, At, RunnerKnows
  <2>2. charge' = charge \/ charge'[i] = "failed"
    BY <1>0, <1>4 DEF FailDeadOrder, SettleFailed
  <2>3. PICK pc \in {"finish", "park"} : Go(w, pc)
    BY <1>4 DEF FailDeadOrder, SettleFailed
  <2> QED
    BY <2>1, <2>2, <2>3, GoMoves
<1>5. CASE QueryRail(w, i)
  <2>1. PICK a \in RailSays(i) : Hear(w, "act", a)
    BY <1>5 DEF QueryRail
  <2>2. /\ a = "failed" => rail[i] = "declined"
        /\ a = "succeeded" => rail[i] = "paid"
    <3>1. rail[i] \in {"none", "open", "paid", "declined"}
      BY DEF TypeOK
    <3> QED
      BY <3>1 DEF RailSays
  <2>3. charge' = charge /\ run[w].pc = "query"
    BY <1>5 DEF QueryRail, rows, At
  <2> QED
    BY <1>0, <2>1, <2>2, <2>3, HearMoves DEF RunnerKnows
<1>6. CASE QueryFails(w, i)
  <2>1. PICK pc \in {"escalate", "requeue", "finish", "park"} : \E a : Hear(w, pc, a)
    BY <1>6 DEF QueryFails
  <2>2. charge' = charge
    BY <1>6 DEF QueryFails, rows
  <2> QED
    BY <2>1, <2>2, HearMoves
<1>7. CASE ActSucceeded(w, i)
  <2>1. rail[i] = "paid"
    BY <1>0, <1>7 DEF ActSucceeded, At, RunnerKnows
  <2>2. charge' = charge \/ charge'[i] = "succeeded"
    BY <1>0, <1>7 DEF ActSucceeded, SettleSucceeded
  <2>3. PICK pc \in {"finish", "park"} : Go(w, pc)
    BY <1>7 DEF ActSucceeded, SettleSucceeded
  <2> QED
    BY <2>1, <2>2, <2>3, GoMoves
<1>8. CASE ActFailed(w, i)
  <2>1. rail[i] = "declined"
    BY <1>0, <1>8 DEF ActFailed, At, RunnerKnows
  <2>2. charge' = charge \/ charge'[i] = "failed"
    BY <1>0, <1>8 DEF ActFailed, SettleFailed
  <2>3. PICK pc \in {"finish", "park"} : Go(w, pc)
    BY <1>8 DEF ActFailed, SettleFailed
  <2>4. run'[w].pc \in {"finish", "park"}
    BY <2>3, GoMoves
  <2> QED
    BY <2>1, <2>2, <2>4
<1>9. CASE ActPending(w, i)
  <2>1. Go(w, "reset") \/ See(w, "reset", "pending")
    BY <1>9 DEF ActPending
  <2>2. charge'[i] = charge[i] \/ charge'[i] = "pending"
    BY <1>0, <1>9 DEF ActPending, SetLiveState
  <2> QED
    BY <2>1, <2>2, GoMoves, SeeMoves DEF Live
<1>10. CASE ActNotFound(w, i)
  <2>1. charge' = charge
    BY <1>10 DEF ActNotFound, rows
  <2>2. PICK pc \in {"deny", "fail_dead", "schedule"} :
          /\ Go(w, pc)
          /\ pc = "fail_dead" =>
               run[w].old # "young" /\ flow[i] = "redirect" /\ run[w].seen = "submitting"
    BY <1>10, ActNotFoundGoes
  <2>3. run[w].pc = "act"
    BY <1>10 DEF ActNotFound, At
  <2> QED
    BY <1>0, <2>1, <2>2, <2>3, GoMoves DEF RunnerKnows
<1>11. CASE Escalate(w, i, "poll")
  <2>1. charge'[i] = charge[i] \/ charge'[i] = "unresolved"
    BY <1>0, <1>11 DEF Escalate, SetLiveState
  <2> QED
    BY <1>11, <2>1, GoMoves DEF Escalate, Live
<1>12. CASE AdvanceAnswered(w, i)
  <2>1. charge'[i] = charge[i] \/ charge'[i] = "submitted"
    BY <1>0, <1>12 DEF AdvanceAnswered, SetLiveState
  <2>2. PICK c \in {"submitted", run[w].seen} : See(w, "query", c)
    BY <1>12 DEF AdvanceAnswered
  <2>3. run[w].pc = "advance"
    BY <1>12 DEF AdvanceAnswered, At
  <2> QED
    BY <1>0, <2>1, <2>2, <2>3, SeeMoves DEF RunnerKnows, Live
<1>13. CASE ScheduleResubmit(w, i) \/ ResetStreak(w, i) \/ RememberDenial(w, i)
  <2>1. PICK pc \in {"reset", "requeue", "escalate"} : Go(w, pc)
    BY <1>13 DEF ScheduleResubmit, ResetStreak, RememberDenial, KeepPolling
  <2>2. charge' = charge
    BY <1>13 DEF ScheduleResubmit, ResetStreak, RememberDenial, rows
  <2> QED
    BY <2>1, <2>2, GoMoves
<1> QED
  BY <1>2, <1>3, <1>4, <1>5, <1>6, <1>7, <1>8, <1>9, <1>10, <1>11, <1>12, <1>13 DEF Poll

LEMMA ResubmitKnows ==
  ASSUME TypeOK, NEW w \in Runners, NEW i \in Intents, Resubmit(w, i), flow' = flow,
         Traced(i), Alone(i), Knows(i)
  PROVE  Knows(i)'
<1>0. /\ \A v \in Runners : v # w => run'[v] = run[v]
      /\ run[w].i = i /\ run'[w].i = i /\ run[w].kind = "resubmit" /\ run'[w].kind = "resubmit"
      /\ req' = req
      /\ RunnerKnows(w, i) /\ UrlKnows(i)
      /\ charge \in [Intents -> ChargeState]
  BY ResubmitMoves DEF Knows, TypeOK
<1>1. url' = url
  BY DEF Resubmit, ResubmitLoad, PrepareAgain, RecordPreparedAgain, SettleRefused, OpenResubmit,
         SubmitAgain, RecordResubmitAnswer, SettleRejected, NoteRejected, CommitResubmission,
         Escalate, rows
\* The others at this intent are past calling the rail: no confirm, no other resubmission.
<1>2. /\ \A r \in Requests : ~ InWindow(r, i)
      /\ \A v \in Runners : v # w /\ run[v].i = i => run[v].kind # "resubmit"
  BY <1>0, SoleCaller DEF Resubmitting
<1>3. ~ MayCallAgain(w)' => Quiet(i)'
  <2>1. ASSUME NEW r \in Requests, req'[r].i = i PROVE ~ MayCall(r)'
    BY <1>0, <1>2, <2>1 DEF MayCall, InWindow, InRailWindow
  <2>2. ASSUME NEW v \in Runners, v # w, run'[v].i = i PROVE ~ MayCallAgain(v)'
    BY <1>0, <1>2, <2>2 DEF Knows, RunnerKnows, MayCallAgain
  <2> QED
    BY <2>1, <2>2 DEF Quiet
\* It is enough to see what this runner then knows of a rail it did not call.
<1>4. ASSUME rail' = rail,
             run'[w].pc \notin {"act", "fail_dead", "evidence", "advance", "query"},
             run'[w].pc \in {"prepare", "refused"} => rail[i] = "none",
             run'[w].pc = "answered" /\ run'[w].ans = "rejected" => rail[i] = "none",
             MayCallAgain(w)' => MayCallAgain(w) \/ charge[i] # "failed",
             \/ charge'[i] = charge[i]
             \/ charge'[i] \in Live \ {"submitting"}
             \/ charge'[i] = "failed" /\ rail[i] = "none" /\ ~ MayCallAgain(w)'
      PROVE  Knows(i)'
  <2>1. RunnerKnows(w, i)'
    BY <1>0, <1>1, <1>4 DEF RunnerKnows
  <2>2. charge'[i] = "failed" /\ charge'[i] # charge[i] => WrittenOff(i)'
    BY <1>3, <1>4 DEF WrittenOff, Live
  <2> QED
    BY <1>0, <1>1, <1>4, <2>1, <2>2, KnowsByRunner
<1>5. CASE ResubmitLoad(w, i)
  <2>1. PICK pc \in {"finish", "prepare", "open"} :
          /\ See(w, pc, charge[i])
          /\ pc # "finish" => charge[i] = "submitting"
          /\ pc = "prepare" => flow[i] = "two_step" /\ ~prepared[i]
    BY <1>5 DEF ResubmitLoad
  <2>2. UNCHANGED <<charge, rail>>
    BY <1>5 DEF ResubmitLoad, rows
  <2>3. flow[i] = "two_step" /\ ~prepared[i] => rail[i] = "none"
    BY DEF Traced, RailTraced
  <2>4. run'[w].pc = pc
    BY <2>1, SeeMoves
  <2>5. /\ pc = "prepare" => rail[i] = "none"
        /\ pc # "finish" => charge[i] # "failed"
    BY <2>1, <2>3
  <2>6. MayCallAgain(w)' => pc # "finish"
    BY <2>4 DEF MayCallAgain
  <2> QED
    BY <1>4, <2>1, <2>2, <2>4, <2>5, <2>6
<1>6. CASE PrepareAgain(w, i)
  <2>1. rail[i] = "none" /\ run[w].pc = "prepare" /\ UNCHANGED <<charge, rail>>
    BY <1>0, <1>6 DEF PrepareAgain, At, RunnerKnows, rows
  <2>2. PICK pc \in {"prepared", "refused", "park", "requeue", "escalate"} : Go(w, pc)
    BY <1>6 DEF PrepareAgain
  <2> QED
    BY <1>4, <2>1, <2>2, GoMoves DEF MayCallAgain
<1>7. CASE OpenResubmit(w, i)
  <2>1. Go(w, "submit") /\ run[w].pc = "open" /\ UNCHANGED <<charge, rail>>
    BY <1>7 DEF OpenResubmit, At
  <2> QED
    BY <1>4, <2>1, GoMoves DEF MayCallAgain
<1>8. CASE SubmitAgain(w, i)
  <2>1. PICK a \in Answer, pc \in {"answered", "requeue", "escalate", "park"} :
          Hear(w, pc, a) /\ RailTakes(i, a)
    BY <1>8 DEF SubmitAgain, RailTakes
  <2>2. run[w].pc = "submit" /\ UNCHANGED <<charge, url>>
    BY <1>8 DEF SubmitAgain, At, rows
  <2>3. CASE rail'[i] = rail[i]
    <3>1. a = "rejected" => rail[i] = "none" \/ rail' # rail
      BY <2>1 DEF RailTakes
    <3>2. rail' = rail
      BY <2>1, <2>3 DEF RailTakes, TypeOK
    <3> QED
      BY <1>4, <2>1, <2>2, <3>1, <3>2, HearMoves DEF MayCallAgain
  <2>4. CASE rail'[i] # rail[i]
    <3>1. rail[i] = "none" /\ rail'[i] = "open" /\ a # "rejected"
      BY <2>1, <2>4 DEF RailTakes, TypeOK
    <3>2. \A r \in Requests : RequestKnows(r, i)'
      BY <1>0, <1>2 DEF RequestKnows, MayCall, InWindow, InRailWindow
    <3>3. \A v \in Runners : RunnerKnows(v, i)'
      <4>1. RunnerKnows(w, i)'
        BY <1>0, <2>1, <3>1, HearMoves DEF RunnerKnows
      <4>2. ASSUME NEW v \in Runners, v # w PROVE RunnerKnows(v, i)'
        BY <1>0, <1>1, <1>2, <3>1, <4>2 DEF Knows, RunnerKnows
      <4> QED
        BY <4>1, <4>2
    <3>4. UrlKnows(i)'
      BY <2>2, <3>1 DEF Knows, UrlKnows
    <3>5. ChargeKnows(i)'
      BY <1>0, <2>2, <3>1 DEF Knows, ChargeKnows, WrittenOff, Quiet, MayCallAgain
    <3> QED
      BY <3>2, <3>3, <3>4, <3>5 DEF Knows
  <2> QED
    BY <2>3, <2>4
<1>9. CASE RecordResubmitAnswer(w, i)
  <2>1. Go(w, "commit") /\ UNCHANGED <<charge, rail>>
    BY <1>9 DEF RecordResubmitAnswer
  <2> QED
    BY <1>4, <2>1, GoMoves DEF MayCallAgain
<1>10. CASE SettleRejected(w, i)
  <2>1. rail' = rail /\ rail[i] = "none"
    BY <1>0, <1>10 DEF SettleRejected, At, RunnerKnows
  <2>2. PICK pc \in {"note", "park"} : Go(w, pc) /\ (charge' = charge \/ charge'[i] = "failed")
    BY <1>0, <1>10 DEF SettleRejected, SettleFailed
  <2> QED
    BY <1>4, <2>1, <2>2, GoMoves DEF MayCallAgain
<1>11. CASE NoteRejected(w, i)
  <2>1. Go(w, "finish") /\ UNCHANGED <<charge, rail>>
    BY <1>11 DEF NoteRejected
  <2> QED
    BY <1>4, <2>1, GoMoves DEF MayCallAgain
<1>12. CASE CommitResubmission(w, i)
  <2>1. PICK pc \in {"finish", "park"} : Go(w, pc)
    BY <1>12 DEF CommitResubmission
  <2>2. rail' = rail /\ (charge' = charge \/ charge'[i] = "submitted")
    BY <1>0, <1>12 DEF CommitResubmission
  <2> QED
    BY <1>4, <2>1, <2>2, GoMoves DEF MayCallAgain, Live
<1>13. CASE Escalate(w, i, "resubmit")
  <2>1. Go(w, "requeue") /\ rail' = rail /\ (charge'[i] = charge[i] \/ charge'[i] = "unresolved")
    BY <1>0, <1>13 DEF Escalate, SetLiveState
  <2> QED
    BY <1>4, <2>1, GoMoves DEF MayCallAgain, Live
<1>14. CASE RecordPreparedAgain(w, i)
  <2>1. run[w].pc = "prepared" /\ UNCHANGED <<charge, rail>>
    BY <1>14 DEF RecordPreparedAgain, At
  <2>2. PICK pc \in {"open", "park"} : Go(w, pc)
    BY <1>14 DEF RecordPreparedAgain
  <2> QED
    BY <1>4, <2>1, <2>2, GoMoves DEF MayCallAgain
<1>15. CASE SettleRefused(w, i)
  <2>1. rail' = rail /\ rail[i] = "none"
    BY <1>0, <1>15 DEF SettleRefused, At, RunnerKnows
  <2>2. PICK pc \in {"finish", "park"} : Go(w, pc) /\ (charge' = charge \/ charge'[i] = "failed")
    BY <1>0, <1>15 DEF SettleRefused, SettleFailed
  <2> QED
    BY <1>4, <2>1, <2>2, GoMoves DEF MayCallAgain
<1> QED
  BY <1>5, <1>6, <1>7, <1>8, <1>9, <1>10, <1>11, <1>12, <1>13, <1>14, <1>15 DEF Resubmit

LEMMA LoopKnows ==
  ASSUME TypeOK, NEW w \in Runners, NEW i \in Intents, Loop(w, i), flow' = flow, Knows(i)
  PROVE  Knows(i)'
<1>1. PICK k \in Kind : Claim(w, i, k) \/ SettleJob(w, i, k)
  BY DEF Loop
<1>2. UNCHANGED <<rail, charge, url>>
  BY <1>1 DEF Claim, SettleJob, rows
<1>3. run'[w].i = i => run'[w].pc = "load"
  <2>1. CASE Claim(w, i, k)
    BY <2>1, RunTyped DEF Claim, IdleRunner
  <2>2. CASE SettleJob(w, i, k)
    BY <2>2, RunTyped, ConstantsAssumption DEF SettleJob, IdleRunner
  <2> QED
    BY <1>1, <2>1, <2>2
<1>4. RunnerKnows(w, i)' /\ (run'[w].i = i => ~ MayCallAgain(w)')
  BY <1>3 DEF RunnerKnows, MayCallAgain
<1> QED
  BY <1>2, <1>4, LoopMoves, KnowsByRunner

LEMMA OwnKnows ==
  ASSUME TypeOK, NEW i \in Intents, Own(i), flow' = flow, Knows(i)
  PROVE  Knows(i)'
<1>1. UNCHANGED <<req, run, charge, url>>
  BY DEF Own, CancelSnapshot, CancelCommit, ScanLiveCharges, ChargeAges, Rail, PayerPays,
         RailDeclines, ReapLease, rows
<1>2. Quiet(i) => Quiet(i)'
  BY <1>1 DEF Quiet, MayCall, MayCallAgain
<1>3. CASE Rail(i)
  <2>1. /\ rail[i] = "open" /\ rail'[i] \in {"paid", "declined"}
        /\ rail'[i] = "paid" /\ flow[i] = "redirect" => url[i]
    BY <1>3 DEF Rail, PayerPays, RailDeclines, TypeOK
  <2>2. \A r \in Requests : RequestKnows(r, i)'
    BY <1>1, <2>1 DEF Knows, RequestKnows, MayCall
  <2>3. \A w \in Runners : RunnerKnows(w, i)'
    BY <1>1, <2>1 DEF Knows, RunnerKnows
  <2>4. UrlKnows(i)' /\ ChargeKnows(i)'
    BY <1>1, <2>1 DEF Knows, UrlKnows, ChargeKnows, WrittenOff
  <2> QED
    BY <2>2, <2>3, <2>4 DEF Knows
<1>4. CASE ~ Rail(i)
  <2>1. rail' = rail
    BY <1>4 DEF Own, CancelSnapshot, CancelCommit, ScanLiveCharges, ChargeAges, ReapLease
  <2> QED
    BY <1>1, <1>2, <2>1 DEF Knows, RequestKnows, MayCall, RunnerKnows, UrlKnows, ChargeKnows,
                            WrittenOff
<1> QED
  BY <1>3, <1>4

LEMMA KnowsNext ==
  ASSUME TypeOK, [Next]_vars, \A i \in Intents : Traced(i) /\ Alone(i) /\ Knows(i)
  PROVE  \A i \in Intents : Knows(i)'
<1>1. ASSUME NEW i \in Intents, StepAt(i) PROVE Knows(i)'
  BY <1>1, ConfirmKnows, PollKnows, ResubmitKnows, LoopKnows, OwnKnows DEF StepAt
<1> QED
  BY <1>1, StepIsLocal, KnowsStill

-----------------------------------------------------------------------------
(* 10. What is parked is not needed, where no adapter is misconfigured.      *)

\* Nothing is left for the intent's job of that kind to do.
Unneeded(i, k) ==
  \/ intent[i] = "canceled"
  \/ k = "poll" /\ charge[i] \notin Live
  \/ k = "resubmit" /\ charge[i] # "submitting"

RunnerParks(w, i) == run[w].i = i /\ run[w].pc = "park" => Unneeded(i, run[w].kind)

ParkedWell(i) ==
  /\ \A k \in Kind : job[i][k] = "parked" => Unneeded(i, k)
  /\ \A w \in Runners : RunnerParks(w, i)

\* A charge that is not needed stays so.
LEMMA UnneededStays ==
  ASSUME TypeOK, RowsMove, NEW i \in Intents, NEW k, charge[i] # "none", Unneeded(i, k)
  PROVE  Unneeded(i, k)'
<1>1. charge[i] \in ChargeState
  BY DEF TypeOK
<1> QED
  BY <1>1 DEF Unneeded, RowsMove, ChargeMoves, EndingsStay, Live, Terminal, ChargeState

LEMMA ParkedWellStill ==
  ASSUME NEW i \in Intents, ParkedWell(i), Still(i)
  PROVE  ParkedWell(i)'
  BY DEF ParkedWell, RunnerParks, Unneeded, Still, Row

LEMMA ParkedWellByRunner ==
  ASSUME TypeOK, RowsMove, NEW w \in Runners, NEW i \in Intents, Traced(i), ParkedWell(i),
         \A v \in Runners : v # w => run'[v] = run[v],
         RunnerParks(w, i)',
         \A k \in Kind : job'[i][k] = "parked" => job[i][k] = "parked" \/ Unneeded(i, k)'
  PROVE  ParkedWell(i)'
<1>1. ASSUME NEW v \in Runners, v # w PROVE RunnerParks(v, i)'
  BY <1>1, UnneededStays DEF ParkedWell, RunnerParks, Traced, RunnerTraced
<1>2. ASSUME NEW k \in Kind, job[i][k] = "parked" PROVE Unneeded(i, k)'
  BY <1>2, UnneededStays DEF ParkedWell, Traced, JobsTraced
<1> QED
  BY <1>1, <1>2 DEF ParkedWell

LEMMA UnsettledIsCanceled ==
  ASSUME TypeOK, Books, NEW i \in Intents, charge[i] \in Live, intent[i] \notin Settleable
  PROVE  intent[i] = "canceled"
  BY DEF TypeOK, Books, IntentStatus, Settleable, Live

\* A settlement that rolls back is the only one that parks its runner.
LEMMA SettleParks ==
  ASSUME TypeOK, Books, NEW w \in Runners, NEW i \in Intents, NEW pc, pc # "park",
         SettleSucceeded(w, i) \/ SettleFailed(w, i, pc)
  PROVE  run'[w].pc = "park" => \A k : Unneeded(i, k)'
<1>1. CASE charge[i] \in Live /\ intent[i] \notin Settleable
  <2>1. intent' = intent
    BY <1>1 DEF SettleSucceeded, SettleFailed
  <2> QED
    BY <1>1, <2>1, UnsettledIsCanceled DEF Unneeded
<1>2. CASE ~ (charge[i] \in Live /\ intent[i] \notin Settleable)
  <2>1. Go(w, pc) \/ Go(w, "finish")
    BY <1>2 DEF SettleSucceeded, SettleFailed
  <2> QED
    BY <2>1, GoMoves
<1> QED
  BY <1>1, <1>2

LEMMA PollParks ==
  ASSUME ~ Misconfigured, TypeOK, Books, RowsMove, NEW w \in Runners, NEW i \in Intents,
         Poll(w, i), Traced(i), ParkedWell(i)
  PROVE  ParkedWell(i)'
<1>1. /\ \A v \in Runners : v # w => run'[v] = run[v]
      /\ run'[w].i = i
  BY PollMoves
<1>2. \A k \in Kind : job'[i][k] = "parked" => job[i][k] = "parked"
  BY DEF TypeOK, Poll, PollLoad, PollRecover, AdvanceAnswered, ScheduleResubmit, ResetStreak,
         RememberDenial, FailDeadOrder, QueryRail, QueryFails, ActSucceeded, ActFailed, ActPending,
         ActNotFound, Escalate
<1>3. RunnerParks(w, i)'
  <2>1. SUFFICES run'[w].pc = "park" => \A k : Unneeded(i, k)'
    BY DEF RunnerParks
  <2>2. CASE FailDeadOrder(w, i) \/ ActFailed(w, i) \/ ActSucceeded(w, i)
    BY <2>2, SettleParks DEF FailDeadOrder, ActFailed, ActSucceeded
  <2>3. CASE QueryFails(w, i)
    <3>1. PICK pc \in {"escalate", "requeue", "finish"} : \E a : Hear(w, pc, a)
      <4>1. run[w].old \in {"young", "mature", "late"}
        BY DEF TypeOK, RunnerState
      <4> QED
        BY <2>3, <4>1 DEF QueryFails
    <3> QED
      BY <3>1, HearMoves
  <2>4. CASE QueryRail(w, i)
    BY <2>4, HearMoves DEF QueryRail
  <2>5. CASE PollLoad(w, i)
    BY <2>5, LookMoves DEF PollLoad
  <2>6. CASE PollRecover(w, i) \/ ActNotFound(w, i)
    <3>1. \E pc \in {"requeue", "fail_dead", "schedule", "advance", "query", "deny"} : Go(w, pc)
      BY <2>6, PollRecoverGoes, ActNotFoundGoes
    <3> QED
      BY <3>1, GoMoves
  <2>7. CASE \/ AdvanceAnswered(w, i) \/ ScheduleResubmit(w, i) \/ ResetStreak(w, i)
             \/ RememberDenial(w, i) \/ ActPending(w, i) \/ Escalate(w, i, "poll")
    <3>1. \E pc \in {"query", "reset", "requeue", "escalate"} : \E c : Go(w, pc) \/ See(w, pc, c)
      BY <2>7 DEF AdvanceAnswered, ScheduleResubmit, ResetStreak, RememberDenial, ActPending,
                  Escalate, KeepPolling
    <3> QED
      BY <3>1, GoMoves, SeeMoves
  <2> QED
    BY <2>2, <2>3, <2>4, <2>5, <2>6, <2>7 DEF Poll
<1> QED
  BY <1>1, <1>2, <1>3, ParkedWellByRunner

LEMMA ResubmitParks ==
  ASSUME ~ Misconfigured, TypeOK, Books, RowsMove, NEW w \in Runners, NEW i \in Intents,
         Resubmit(w, i), Traced(i), ParkedWell(i)
  PROVE  ParkedWell(i)'
<1>1. /\ \A v \in Runners : v # w => run'[v] = run[v]
      /\ run'[w].i = i /\ run'[w].kind = "resubmit"
  BY ResubmitMoves
<1>2. \A k \in Kind : job'[i][k] = "parked" => job[i][k] = "parked"
  BY DEF TypeOK, Resubmit, ResubmitLoad, PrepareAgain, RecordPreparedAgain, SettleRefused,
         OpenResubmit, SubmitAgain, RecordResubmitAnswer, SettleRejected, NoteRejected,
         CommitResubmission, Escalate
<1>3. RunnerParks(w, i)'
  <2>1. SUFFICES run'[w].pc = "park" => Unneeded(i, "resubmit")'
    BY <1>1 DEF RunnerParks
  <2>2. CASE SettleRejected(w, i) \/ SettleRefused(w, i)
    BY <2>2, SettleParks DEF SettleRejected, SettleRefused
  <2>3. CASE PrepareAgain(w, i)
    <3>1. PICK pc \in {"prepared", "refused", "requeue", "escalate"} : Go(w, pc)
      BY <2>3 DEF PrepareAgain
    <3> QED
      BY <3>1, GoMoves
  <2>4. CASE CommitResubmission(w, i)
    BY <2>4, GoMoves DEF CommitResubmission, Unneeded
  <2>5. CASE SubmitAgain(w, i)
    <3>1. PICK pc \in {"answered", "requeue", "escalate"} : \E a : Hear(w, pc, a)
      BY <2>5 DEF SubmitAgain, RailTakes
    <3> QED
      BY <3>1, HearMoves
  <2>6. CASE ResubmitLoad(w, i)
    BY <2>6, SeeMoves DEF ResubmitLoad
  <2>7. CASE \/ OpenResubmit(w, i) \/ RecordResubmitAnswer(w, i) \/ NoteRejected(w, i)
             \/ Escalate(w, i, "resubmit")
    <3>1. \E pc \in {"submit", "commit", "finish", "requeue"} : Go(w, pc)
      BY <2>7 DEF OpenResubmit, RecordResubmitAnswer, NoteRejected, Escalate
    <3> QED
      BY <3>1, GoMoves
  <2>8. CASE RecordPreparedAgain(w, i)
    BY <2>8, GoMoves DEF RecordPreparedAgain, Unneeded
  <2> QED
    BY <2>2, <2>3, <2>4, <2>5, <2>6, <2>7, <2>8 DEF Resubmit
<1> QED
  BY <1>1, <1>2, <1>3, ParkedWellByRunner

LEMMA LoopParks ==
  ASSUME TypeOK, RowsMove, NEW w \in Runners, NEW i \in Intents, Loop(w, i), Traced(i),
         ParkedWell(i)
  PROVE  ParkedWell(i)'
<1>1. PICK k \in Kind : Claim(w, i, k) \/ SettleJob(w, i, k)
  BY DEF Loop
<1>2. UNCHANGED <<intent, charge>>
  BY <1>1 DEF Claim, SettleJob, rows
<1>3. RunnerParks(w, i)'
  <2>1. CASE Claim(w, i, k)
    BY <2>1, RunTyped DEF Claim, IdleRunner, RunnerParks
  <2>2. CASE SettleJob(w, i, k)
    BY <2>2, RunTyped, ConstantsAssumption DEF SettleJob, IdleRunner, RunnerParks
  <2> QED
    BY <1>1, <2>1, <2>2
<1>4. ASSUME NEW l \in Kind, job'[i][l] = "parked", job[i][l] # "parked" PROVE Unneeded(i, l)'
  <2>1. job \in [Intents -> [Kind -> JobState]]
    BY DEF TypeOK
  <2>2. CASE Claim(w, i, k)
    BY <1>4, <2>1, <2>2, ConstantsAssumption DEF Claim
  <2>3. CASE SettleJob(w, i, k)
    <3>1. l = k /\ run[w].pc = "park" /\ run[w].i = i /\ run[w].kind = k
      BY <1>4, <2>1, <2>3 DEF SettleJob
    <3>2. Unneeded(i, k)
      BY <3>1 DEF ParkedWell, RunnerParks
    <3> QED
      BY <1>2, <3>1, <3>2 DEF Unneeded
  <2> QED
    BY <1>1, <2>2, <2>3
<1> QED
  BY <1>3, <1>4, LoopMoves, ParkedWellByRunner

LEMMA OwnParks ==
  ASSUME TypeOK, RowsMove, NEW i \in Intents, Traced(i), ParkedWell(i),
         Own(i) \/ \E r \in Requests : Confirm(r, i)
  PROVE  ParkedWell(i)'
<1>1. run' = run
  BY ConfirmMoves DEF Own, CancelSnapshot, CancelCommit, ScanLiveCharges, ChargeAges, Rail,
                      PayerPays, RailDeclines, ReapLease
<1>2. \A k \in Kind : job'[i][k] = "parked" => job[i][k] = "parked"
  <2>1. CASE Own(i)
    BY <2>1 DEF TypeOK, Own, CancelSnapshot, CancelCommit, ScanLiveCharges, ChargeAges, Rail,
                PayerPays, RailDeclines, ReapLease
  <2>2. CASE \E r \in Requests : Confirm(r, i)
    BY <2>2 DEF TypeOK, Confirm, LoadConfirmable, OpenCharge, PrepareOnRail, RecordPrepared,
                OpenAttempt, SubmitToRail, RecordSubmitAnswer, PersistSubmitted, PersistDecline,
                NoteDecline
  <2> QED
    BY <2>1, <2>2
<1>3. ASSUME NEW k \in Kind, job'[i][k] = "parked" PROVE Unneeded(i, k)'
  BY <1>2, <1>3, UnneededStays DEF ParkedWell, Traced, JobsTraced
<1>4. ASSUME NEW w \in Runners PROVE RunnerParks(w, i)'
  BY <1>1, UnneededStays DEF ParkedWell, RunnerParks, Traced, RunnerTraced
<1> QED
  BY <1>3, <1>4 DEF ParkedWell

LEMMA ParksNext ==
  ASSUME ~ Misconfigured, IInv, [Next]_vars, \A i \in Intents : Traced(i) /\ ParkedWell(i)
  PROVE  \A i \in Intents : ParkedWell(i)'
<1>1. TypeOK /\ Books /\ RowsMove
  BY NextMoves DEF IInv
<1>2. ASSUME NEW i \in Intents, StepAt(i) PROVE ParkedWell(i)'
  BY <1>1, <1>2, PollParks, ResubmitParks, LoopParks, OwnParks DEF StepAt
<1> QED
  BY <1>1, <1>2, StepIsLocal, ParkedWellStill

-----------------------------------------------------------------------------
(* 11. The theorems of sections 7 to 10.                                     *)

Written == IInv /\ \A i \in Intents : Traced(i)

\* Where no process stalls.
Prompt == Written /\ \A i \in Intents : Alone(i) /\ Knows(i)

\* Where no adapter is misconfigured.
Configured == Written /\ \A i \in Intents : ParkedWell(i)

LEMMA InitTraced ==
  ASSUME Init, NEW i \in Intents
  PROVE  Traced(i) /\ Alone(i) /\ Knows(i) /\ ParkedWell(i)
<1>1. /\ \A w \in Runners : run[w].i # i
      /\ \A r \in Requests : req[r].i # i
      /\ charge[i] = "none" /\ rail[i] = "none" /\ ~url[i] /\ age[i] = "young"
      /\ \A k \in Kind : job[i][k] = "absent"
  BY ConstantsAssumption DEF Init, IdleRunner, IdleRequest
<1>2. Traced(i)
  BY <1>1 DEF Traced, RequestTraced, RunnerTraced, JobsTraced, RailTraced
<1>3. Alone(i)
  BY <1>1 DEF Alone, ConfirmAlone, YoungAlone, LeaseHeld, InWindow, Kind
<1>4. Knows(i)
  BY <1>1 DEF Knows, RequestKnows, RunnerKnows, UrlKnows, ChargeKnows
<1>5. ParkedWell(i)
  BY <1>1 DEF ParkedWell, RunnerParks
<1> QED
  BY <1>2, <1>3, <1>4, <1>5

\* Whoever is about to call the rail has written down that it will, and under which
\* reference, whatever stalls, crashes or is misconfigured (open_attempt, submit_again).
THEOREM WrittenHolds == Spec => []Written
<1>1. Init => Written
  BY InvInit, InitTraced DEF Written
<1>2. Written /\ [Next]_vars => Written'
  BY InvNext, TracedNext DEF Written, IInv
<1> QED
  BY <1>1, <1>2, PTL DEF Spec

\* While no process outlasts the recovery window or its lease, one process at a time may
\* call the rail for a charge, and what it knows of the rail stays true until it has
\* written it (recovery_step's window, the job's lease and the dedupe keys).
THEOREM PromptHolds == ASSUME ~ Stalls PROVE Spec => []Prompt
<1>1. Init => Prompt
  BY InvInit, InitTraced DEF Prompt, Written
<1>2. Prompt /\ [Next]_vars => Prompt'
  BY InvNext, TracedNext, AloneNext, KnowsNext DEF Prompt, Written, IInv
<1> QED
  BY <1>1, <1>2, PTL DEF Spec

\* The rail can hold nothing the database has no trace of: attempt row, charge and
\* reference are committed before the call (the crash-safety rule of open_attempt).
THEOREM NothingIsUnrecorded == Spec => []NothingUnrecorded
<1>1. Written => NothingUnrecorded
  BY DEF Written, Traced, RailTraced, NothingUnrecorded, NoAttempt
<1> QED
  BY <1>1, WrittenHolds, PTL

\* No charge is written off while the rail has its payer's money, and none is recorded as
\* paid that is not (recovery_step, fail_dead_order, apply_failed).
THEOREM MoneyAccounted == ASSUME ~ Stalls PROVE Spec => []MoneyIsAccountedFor
<1>1. Prompt => MoneyIsAccountedFor
  BY DEF Prompt, Knows, ChargeKnows, WrittenOff, UrlKnows, MoneyIsAccountedFor
<1> QED
  BY <1>1, PromptHolds, PTL

\* An order whose page the payer may have opened is failed by the rail's word only, never
\* as a dead order (fail_dead_order against persist_submitted).
THEOREM HandedOverNotDead == ASSUME ~ Stalls PROVE Spec => []HandedOverIsNotDead
<1>1. Prompt => HandedOverIsNotDead
  BY DEF Prompt, Knows, ChargeKnows, WrittenOff, UrlKnows, HandedOverIsNotDead
<1> QED
  BY <1>1, PromptHolds, PTL

\* While every adapter is configured, a job that is parked, or about to be, is one its
\* charge no longer needs or whose intent was canceled (dead_letter, submit_again).
THEOREM ConfiguredHolds == ASSUME ~ Misconfigured PROVE Spec => []Configured
<1>1. Init => Configured
  BY InvInit, InitTraced DEF Configured, Written
<1>2. Configured /\ [Next]_vars => Configured'
  BY InvNext, TracedNext, ParksNext DEF Configured, Written, IInv
<1> QED
  BY <1>1, <1>2, PTL DEF Spec

\* Races between runners, stalled or not, never dead-letter a job that a live charge of an
\* uncanceled intent still needs (dead_letter).
THEOREM ParksForCause == ASSUME ~ Misconfigured PROVE Spec => []ParkedForCause
<1>1. Configured => ParkedForCause
  BY DEF Configured, ParkedWell, Unneeded, ParkedForCause, Kind, Live
<1> QED
  BY <1>1, ConfiguredHolds, PTL

-----------------------------------------------------------------------------
(* 12. Payment implements PaymentPromise.  Ends lists what one step can do    *)
(* to the rows the promise is about; each alternative is a step of it.        *)

\* A charge the rail has not answered for is that of an intent nobody has moved, but
\* for a cancel.
Unmoved(i) ==
  charge[i] \in {"none", "submitting"} => intent[i] \in {"requires_payment_method", "canceled"}

\* What a step at an intent does to the rows the promise is about.
NothingEnds(i) ==
  /\ UNCHANGED <<posted, sent>>
  /\ rail'[i] = "paid" <=> rail[i] = "paid"
  /\ charge'[i] = charge[i] \/ {charge[i], charge'[i]} \cap Terminal = {}
  /\ intent'[i] = intent[i] \/ {intent[i], intent'[i]} \cap {"canceled", "succeeded"} = {}

PayerHasPaid(i) ==
  /\ rail[i] = "open" /\ rail'[i] = "paid"
  /\ UNCHANGED <<intent, charge, posted, sent>>

PaymentSucceeds(i) ==
  /\ charge[i] \in Live /\ intent[i] \in Settleable
  /\ charge'[i] = "succeeded" /\ intent'[i] = "succeeded"
  /\ posted' = [posted EXCEPT ![i] = @ + 1]
  /\ Emit(i, "succeeded")
  /\ rail' = rail

PaymentFails(i) ==
  /\ charge[i] \in Live /\ intent[i] \in Settleable
  /\ charge'[i] = "failed" /\ intent'[i] = "requires_payment_method"
  /\ Emit(i, "payment_failed")
  /\ UNCHANGED <<posted, rail>>

\* A decline under an intent that was canceled meanwhile is told to nobody.
FailsUntold(i) ==
  /\ charge[i] = "submitting" /\ intent[i] = "canceled"
  /\ charge'[i] = "failed"
  /\ UNCHANGED <<intent, posted, sent, rail>>

IsWithdrawn(i) ==
  /\ intent[i] = "requires_payment_method" /\ intent'[i] = "canceled"
  /\ Emit(i, "canceled")
  /\ UNCHANGED <<charge, posted, rail>>

Ends(i) ==
  \/ NothingEnds(i) \/ PayerHasPaid(i) \/ PaymentSucceeds(i) \/ PaymentFails(i)
  \/ FailsUntold(i) \/ IsWithdrawn(i)

LEMMA SettleEnds ==
  ASSUME TypeOK, NEW w \in Runners, NEW i \in Intents, NEW pc, rail' = rail,
         SettleSucceeded(w, i) \/ (SettleFailed(w, i, pc) /\ posted' = posted)
  PROVE  NothingEnds(i) \/ PaymentSucceeds(i) \/ PaymentFails(i)
<1>1. charge \in [Intents -> ChargeState] /\ intent \in [Intents -> IntentStatus]
  BY DEF TypeOK
<1>2. CASE SettleSucceeded(w, i)
  BY <1>1, <1>2 DEF SettleSucceeded, PaymentSucceeds, NothingEnds
<1>3. CASE SettleFailed(w, i, pc) /\ posted' = posted
  BY <1>1, <1>3 DEF SettleFailed, PaymentFails, NothingEnds
<1> QED
  BY <1>2, <1>3

LEMMA ConfirmEnds ==
  ASSUME TypeOK, NEW r \in Requests, NEW i \in Intents, Confirm(r, i), Unmoved(i)
  PROVE  Ends(i) /\ Unmoved(i)'
<1>1. charge \in [Intents -> ChargeState] /\ intent \in [Intents -> IntentStatus]
  BY DEF TypeOK
<1>2. CASE \/ LoadConfirmable(r, i) \/ PrepareOnRail(r, i) \/ RecordPrepared(r, i)
           \/ OpenAttempt(r, i) \/ RecordSubmitAnswer(r, i) \/ NoteDecline(r, i)
  BY <1>2 DEF LoadConfirmable, PrepareOnRail, RecordPrepared, OpenAttempt, RecordSubmitAnswer,
              NoteDecline, rows, Ends, NothingEnds, Unmoved
<1>3. CASE OpenCharge(r, i)
  BY <1>1, <1>3 DEF OpenCharge, Ends, NothingEnds, Unmoved, Terminal
<1>4. CASE SubmitToRail(r, i)
  <2>1. UNCHANGED <<intent, charge, posted, sent>>
    BY <1>4 DEF SubmitToRail, rows
  <2>2. rail'[i] = "paid" <=> rail[i] = "paid"
    BY <1>4 DEF SubmitToRail, RailTakes, TypeOK
  <2> QED
    BY <2>1, <2>2 DEF Ends, NothingEnds, Unmoved
<1>5. CASE PersistSubmitted(r, i)
  <2>1. UNCHANGED <<posted, sent, rail>>
    BY <1>5 DEF PersistSubmitted
  <2>2. \/ UNCHANGED <<charge, intent>>
        \/ /\ charge[i] = "submitting" /\ charge'[i] = "submitted"
           /\ intent[i] = "requires_payment_method"
           /\ intent'[i] \in {"processing", "requires_action"}
    BY <1>1, <1>5, StatusAfterConfirmIs DEF PersistSubmitted
  <2> QED
    BY <2>1, <2>2 DEF Ends, NothingEnds, Unmoved, Terminal
<1>6. CASE PersistDecline(r, i)
  <2>1. UNCHANGED <<intent, posted, rail>>
    BY <1>6 DEF PersistDecline
  <2>2. CASE charge[i] = "submitting"
    <3>1. charge'[i] = "failed"
      BY <1>1, <1>6, <2>2 DEF PersistDecline
    <3>2. CASE intent[i] = "requires_payment_method"
      <4>1. Emit(i, "payment_failed")
        BY <1>6, <2>2, <3>2 DEF PersistDecline
      <4> QED
        BY <2>1, <2>2, <3>1, <3>2, <4>1 DEF Ends, PaymentFails, Unmoved, Live, Settleable
    <3>3. CASE intent[i] = "canceled"
      <4>1. sent' = sent
        BY <1>6, <2>2, <3>3 DEF PersistDecline
      <4> QED
        BY <2>1, <2>2, <3>1, <3>3, <4>1 DEF Ends, FailsUntold, Unmoved
    <3> QED
      BY <2>2, <3>2, <3>3 DEF Unmoved
  <2>3. CASE charge[i] # "submitting"
    BY <1>6, <2>1, <2>3 DEF PersistDecline, Ends, NothingEnds, Unmoved
  <2> QED
    BY <2>2, <2>3
<1> QED
  BY <1>2, <1>3, <1>4, <1>5, <1>6 DEF Confirm

LEMMA SettledUnmoved ==
  ASSUME NEW i \in Intents, Unmoved(i),
         PaymentSucceeds(i) \/ PaymentFails(i) \/ (NothingEnds(i) /\ UNCHANGED <<charge, intent>>)
  PROVE  Ends(i) /\ Unmoved(i)'
  BY DEF Ends, PaymentSucceeds, PaymentFails, Unmoved

LEMMA MovedOn ==
  ASSUME TypeOK, SeenIsLive, NEW i \in Intents, Unmoved(i), UNCHANGED <<intent, posted, sent>>,
         rail'[i] = "paid" <=> rail[i] = "paid",
         \/ charge' = charge
         \/ \E c \in Live, d \in Live \ {"submitting"} : SetLiveState(i, c, d)
         \/ charge[i] = "submitting" /\ charge' = [charge EXCEPT ![i] = "submitted"]
  PROVE  Ends(i) /\ Unmoved(i)'
<1>1. charge \in [Intents -> ChargeState]
  BY DEF TypeOK
<1>2. charge'[i] = charge[i] \/ (charge[i] \in Live /\ charge'[i] \in Live \ {"submitting"})
  BY <1>1 DEF SetLiveState, Live
<1> QED
  BY <1>2 DEF Ends, NothingEnds, Unmoved, Live, Terminal

LEMMA PollEnds ==
  ASSUME TypeOK, SeenIsLive, NEW w \in Runners, NEW i \in Intents, Poll(w, i), Unmoved(i)
  PROVE  Ends(i) /\ Unmoved(i)'
<1>1. CASE FailDeadOrder(w, i) \/ ActSucceeded(w, i) \/ ActFailed(w, i)
  <2>1. /\ rail' = rail
        /\ SettleSucceeded(w, i) \/ (SettleFailed(w, i, "finish") /\ posted' = posted)
    BY <1>1 DEF FailDeadOrder, ActSucceeded, ActFailed
  <2>2. NothingEnds(i) => UNCHANGED <<charge, intent>> \/ PaymentSucceeds(i) \/ PaymentFails(i)
    BY <2>1 DEF NothingEnds, SettleSucceeded, SettleFailed, TypeOK, Live, Terminal
  <2> QED
    BY <2>1, <2>2, SettleEnds, SettledUnmoved
<1>2. CASE \/ PollLoad(w, i) \/ PollRecover(w, i) \/ ScheduleResubmit(w, i) \/ ResetStreak(w, i)
           \/ RememberDenial(w, i) \/ QueryRail(w, i) \/ QueryFails(w, i) \/ ActNotFound(w, i)
  BY <1>2, MovedOn DEF PollLoad, PollRecover, ScheduleResubmit, ResetStreak, RememberDenial,
                       QueryRail, QueryFails, ActNotFound, rows
<1>3. CASE AdvanceAnswered(w, i)
  BY <1>3, MovedOn DEF AdvanceAnswered, Live
<1>4. CASE ActPending(w, i)
  BY <1>4, MovedOn DEF ActPending, Live
<1>5. CASE Escalate(w, i, "poll")
  BY <1>5, MovedOn DEF Escalate, At, SeenIsLive, Holding, Live
<1> QED
  BY <1>1, <1>2, <1>3, <1>4, <1>5 DEF Poll

LEMMA ResubmitEnds ==
  ASSUME TypeOK, SeenIsLive, NEW w \in Runners, NEW i \in Intents, Resubmit(w, i), Unmoved(i)
  PROVE  Ends(i) /\ Unmoved(i)'
<1>1. ASSUME NEW pc, SettleFailed(w, i, pc), UNCHANGED <<posted, rail>>
      PROVE  Ends(i) /\ Unmoved(i)'
  <2>1. NothingEnds(i) => UNCHANGED <<charge, intent>> \/ PaymentFails(i)
    BY <1>1 DEF NothingEnds, SettleFailed, TypeOK, Live, Terminal
  <2> QED
    BY <1>1, <2>1, SettleEnds, SettledUnmoved
<1>2. CASE SettleRefused(w, i) \/ SettleRejected(w, i)
  BY <1>1, <1>2 DEF SettleRefused, SettleRejected
<1>3. CASE \/ ResubmitLoad(w, i) \/ PrepareAgain(w, i) \/ RecordPreparedAgain(w, i)
           \/ OpenResubmit(w, i) \/ RecordResubmitAnswer(w, i) \/ NoteRejected(w, i)
  BY <1>3, MovedOn DEF ResubmitLoad, PrepareAgain, RecordPreparedAgain, OpenResubmit,
                       RecordResubmitAnswer, NoteRejected, rows
<1>4. CASE SubmitAgain(w, i)
  <2>1. rail'[i] = "paid" <=> rail[i] = "paid"
    BY <1>4 DEF SubmitAgain, RailTakes, TypeOK
  <2> QED
    BY <1>4, <2>1, MovedOn DEF SubmitAgain, rows
<1>5. CASE CommitResubmission(w, i)
  BY <1>5, MovedOn DEF CommitResubmission
<1>6. CASE Escalate(w, i, "resubmit")
  BY <1>6, MovedOn DEF Escalate, At, SeenIsLive, Holding, Live
<1> QED
  BY <1>2, <1>3, <1>4, <1>5, <1>6 DEF Resubmit

LEMMA OwnEnds ==
  ASSUME TypeOK, SeenIsLive, NEW i \in Intents, Unmoved(i),
         Own(i) \/ \E w \in Runners : Loop(w, i)
  PROVE  Ends(i) /\ Unmoved(i)'
<1>1. CASE \E w \in Runners : Loop(w, i)
  BY <1>1, MovedOn DEF Loop, Claim, SettleJob, rows
<1>2. CASE Rail(i)
  BY <1>2 DEF Rail, PayerPays, RailDeclines, rows, TypeOK, Ends, NothingEnds, PayerHasPaid, Unmoved
<1>3. CASE CancelCommit(i)
  BY <1>3 DEF CancelCommit, TypeOK, Ends, NothingEnds, IsWithdrawn, Unmoved
<1>4. CASE \/ CancelSnapshot(i) \/ ScanLiveCharges(i) \/ ChargeAges(i)
           \/ \E k \in Kind : ReapLease(i, k)
  BY <1>4, MovedOn DEF CancelSnapshot, ScanLiveCharges, ChargeAges, ReapLease, rows
<1> QED
  BY <1>1, <1>2, <1>3, <1>4 DEF Own

LEMMA StepEnds ==
  ASSUME IInv, NEW i \in Intents, StepAt(i), Unmoved(i)
  PROVE  Ends(i) /\ Unmoved(i)'
  BY ConfirmEnds, PollEnds, ResubmitEnds, OwnEnds DEF IInv, StepAt

-----------------------------------------------------------------------------
(* A step that ends nothing, or ends a payment, is a step of the promise.    *)

Promised == Prompt /\ \A i \in Intents : Unmoved(i)

\* What the promise sees of the step at one intent.
SameElsewhere(i) ==
  \A j \in Intents \ {i} : /\ intent'[j] = intent[j] /\ charge'[j] = charge[j]
                           /\ rail'[j] = rail[j] /\ sent'[j] = sent[j]

Outcomes == [i \in Intents |-> OutcomeOf(i)]
Money    == [i \in Intents |-> rail[i] = "paid"]
Told     == [i \in Intents |-> {e \in Event : sent[i][e] > 0}]

LEMMA OutcomesElsewhere ==
  ASSUME NEW i \in Intents, SameElsewhere(i), NEW o, OutcomeOf(i)' = o
  PROVE  Outcomes' = [Outcomes EXCEPT ![i] = o]
<1>1. \A j \in Intents \ {i} : OutcomeOf(j)' = OutcomeOf(j)
  BY DEF SameElsewhere, OutcomeOf
<1>2. Outcomes' = [j \in Intents |-> OutcomeOf(j)']
  BY DEF Outcomes
<1>3. \A j \in Intents : OutcomeOf(j)' = IF j = i THEN o ELSE OutcomeOf(j)
  BY <1>1
<1>4. [Outcomes EXCEPT ![i] = o] = [j \in Intents |-> IF j = i THEN o ELSE OutcomeOf(j)]
  BY DEF Outcomes
<1> HIDE DEF Outcomes
<1> QED
  BY <1>2, <1>3, <1>4

LEMMA MoneyElsewhere ==
  ASSUME NEW i \in Intents, SameElsewhere(i)
  PROVE  Money' = [Money EXCEPT ![i] = (rail'[i] = "paid")]
<1>1. \A j \in Intents : (rail'[j] = "paid") = IF j = i THEN rail'[i] = "paid" ELSE rail[j] = "paid"
  BY DEF SameElsewhere
<1> QED
  BY <1>1 DEF Money

LEMMA ToldGrows ==
  ASSUME TypeOK, NEW i \in Intents, NEW e \in Event, Emit(i, e)
  PROVE  Told' = [Told EXCEPT ![i] = @ \cup {e}]
<1>1. /\ sent \in [Intents -> [Event -> Nat]]
      /\ sent' = [sent EXCEPT ![i][e] = @ + 1]
  BY DEF TypeOK, Emit
<1>2. \A j \in Intents \ {i} : sent'[j] = sent[j]
  BY <1>1
<1>3. \A f \in Event : sent'[i][f] = IF f = e THEN sent[i][f] + 1 ELSE sent[i][f]
  BY <1>1
<1>4. \A f \in Event : sent[i][f] \in Nat
  BY <1>1
<1>5. {f \in Event : sent'[i][f] > 0} = {f \in Event : sent[i][f] > 0} \cup {e}
  BY <1>3, <1>4
<1>6. Told' = [j \in Intents |-> {f \in Event : sent'[j][f] > 0}]
  BY DEF Told
<1>7. \A j \in Intents : {f \in Event : sent'[j][f] > 0}
        = IF j = i THEN {f \in Event : sent[i][f] > 0} \cup {e} ELSE {f \in Event : sent[j][f] > 0}
  BY <1>2, <1>5
<1>8. [Told EXCEPT ![i] = @ \cup {e}]
        = [j \in Intents |-> IF j = i THEN {f \in Event : sent[i][f] > 0} \cup {e}
                                      ELSE {f \in Event : sent[j][f] > 0}]
  BY Zenon DEF Told
<1> QED
  BY <1>6, <1>7, <1>8, Zenon

LEMMA StepIsPromised ==
  ASSUME Prompt, Prompt', NEW i \in Intents, Ends(i), SameElsewhere(i)
  PROVE  [Promise!Next]_(Promise!promised)
<1>1. /\ intent \in [Intents -> IntentStatus] /\ charge \in [Intents -> ChargeState]
      /\ TypeOK
  BY DEF Prompt, Written, IInv, TypeOK
<1>2. /\ Outcomes[i] = OutcomeOf(i) /\ Money[i] = (rail[i] = "paid")
  BY DEF Outcomes, Money
<1>3. /\ charge'[i] = "failed"    => rail'[i] # "paid"
      /\ charge'[i] = "succeeded" => rail'[i] = "paid"
      /\ charge[i] = "succeeded" => rail[i] = "paid" /\ intent[i] = "succeeded"
  BY DEF Prompt, Written, IInv, Books, Knows, ChargeKnows, WrittenOff, UrlKnows
<1>4. CASE rail'[i] = "paid" <=> rail[i] = "paid"
  <2>1. Money' = Money
    <3>1. \A j \in Intents : (rail'[j] = "paid") = (rail[j] = "paid")
      BY <1>4 DEF SameElsewhere
    <3> QED
      BY <3>1 DEF Money
  <2>2. CASE NothingEnds(i) \/ FailsUntold(i)
    <3>1. posted' = posted /\ sent' = sent
      BY <2>2 DEF NothingEnds, FailsUntold
    <3>2. OutcomeOf(i)' = OutcomeOf(i)
      BY <1>1, <2>2 DEF NothingEnds, FailsUntold, OutcomeOf, Terminal
    <3>3. Outcomes' = Outcomes
      <4>1. \A j \in Intents : OutcomeOf(j)' = OutcomeOf(j)
        BY <3>2 DEF SameElsewhere, OutcomeOf
      <4> QED
        BY <4>1 DEF Outcomes
    <3>4. Told' = Told
      BY <3>1 DEF Told
    <3> QED
      BY <2>1, <3>1, <3>3, <3>4 DEF Promise!promised, Outcomes, Money, Told
  <2>3. CASE PaymentSucceeds(i)
    <3>1. OutcomeOf(i) = "open" /\ OutcomeOf(i)' = "paid"
      BY <2>3 DEF PaymentSucceeds, OutcomeOf, Live, Settleable
    <3>2. Outcomes' = [Outcomes EXCEPT ![i] = "paid"]
      BY <3>1, OutcomesElsewhere
    <3>3. Told' = [Told EXCEPT ![i] = @ \cup {"succeeded"}]
      BY <1>1, <2>3, ToldGrows DEF PaymentSucceeds, Event
    <3>4. Money[i] /\ posted' = [posted EXCEPT ![i] = @ + 1]
      BY <1>2, <1>3, <1>4, <2>3 DEF PaymentSucceeds
    <3>5. Promise!Records(i)
      BY <1>2, <2>1, <3>1, <3>2, <3>3, <3>4 DEF Promise!Records, Promise!Tell, Outcomes, Money, Told
    <3> QED
      BY <3>5 DEF Promise!Next
  <2>4. CASE PaymentFails(i)
    <3>1. OutcomeOf(i) = "open" /\ OutcomeOf(i)' = "failed"
      BY <2>4 DEF PaymentFails, OutcomeOf, Live, Settleable
    <3>2. Outcomes' = [Outcomes EXCEPT ![i] = "failed"]
      BY <3>1, OutcomesElsewhere
    <3>3. Told' = [Told EXCEPT ![i] = @ \cup {"payment_failed"}]
      BY <1>1, <2>4, ToldGrows DEF PaymentFails, Event
    <3>4. ~ Money[i] /\ posted' = posted
      BY <1>2, <1>3, <1>4, <2>4 DEF PaymentFails
    <3>5. Promise!Fails(i)
      BY <1>2, <2>1, <3>1, <3>2, <3>3, <3>4 DEF Promise!Fails, Promise!Tell, Outcomes, Money, Told
    <3> QED
      BY <3>5 DEF Promise!Next
  <2>5. CASE IsWithdrawn(i)
    <3>1. OutcomeOf(i) \in {"open", "failed"} /\ OutcomeOf(i)' = "withdrawn"
      BY <1>3, <2>5 DEF IsWithdrawn, OutcomeOf
    <3>2. Outcomes' = [Outcomes EXCEPT ![i] = "withdrawn"]
      BY <3>1, OutcomesElsewhere
    <3>3. Told' = [Told EXCEPT ![i] = @ \cup {"canceled"}]
      BY <1>1, <2>5, ToldGrows DEF IsWithdrawn, Event
    <3>4. posted' = posted
      BY <2>5 DEF IsWithdrawn
    <3>5. Promise!Withdraws(i)
      BY <1>2, <2>1, <3>1, <3>2, <3>3, <3>4
         DEF Promise!Withdraws, Promise!Tell, Outcomes, Money, Told
    <3> QED
      BY <3>5 DEF Promise!Next
  <2>6. ~ PayerHasPaid(i)
    BY <1>4 DEF PayerHasPaid
  <2> QED
    BY <2>2, <2>3, <2>4, <2>5, <2>6 DEF Ends
<1>5. CASE PayerHasPaid(i)
  <2>1. /\ rail[i] = "open" /\ rail'[i] = "paid"
        /\ UNCHANGED <<intent, charge, posted, sent>>
    BY <1>5 DEF PayerHasPaid
  <2>2. OutcomeOf(i) \in {"open", "withdrawn"} /\ ~ Money[i]
    BY <1>2, <1>3, <2>1 DEF OutcomeOf
  <2>3. Outcomes' = Outcomes /\ Told' = Told
    BY <2>1 DEF Outcomes, OutcomeOf, Told
  <2>4. Money' = [Money EXCEPT ![i] = TRUE]
    BY <2>1, MoneyElsewhere
  <2>5. Promise!Pays(i)
    BY <1>2, <2>1, <2>2, <2>3, <2>4 DEF Promise!Pays, Outcomes, Money, Told
  <2> QED
    BY <2>5 DEF Promise!Next
<1> QED
  BY <1>4, <1>5 DEF Ends, NothingEnds, PaymentSucceeds, PaymentFails, FailsUntold, IsWithdrawn

LEMMA StillIsSame ==
  ASSUME NEW i \in Intents, \A j \in Intents \ {i} : Still(j)
  PROVE  SameElsewhere(i)
  BY DEF SameElsewhere, Still, Row

LEMMA UnmovedStill ==
  ASSUME NEW j \in Intents, Still(j), Unmoved(j)
  PROVE  Unmoved(j)'
  BY DEF Still, Row, Unmoved

LEMMA PromisedNext ==
  ASSUME ~ Stalls, Promised, [Next]_vars
  PROVE  Promised' /\ [Promise!Next]_(Promise!promised)
<1>1. IInv /\ TypeOK
  BY DEF Promised, Prompt, Written, IInv
<1>2. Prompt'
  BY <1>1, InvNext, TracedNext, AloneNext, KnowsNext DEF Promised, Prompt, Written
<1>3. CASE UNCHANGED vars
  BY <1>2, <1>3 DEF vars, rows, Promised, Unmoved, Promise!promised, OutcomeOf
<1>4. ASSUME NEW i \in Intents, StepAt(i), \A j \in Intents \ {i} : Still(j)
      PROVE  Promised' /\ [Promise!Next]_(Promise!promised)
  <2>1. Ends(i) /\ Unmoved(i)'
    BY <1>1, <1>4, StepEnds DEF Promised
  <2>2. \A j \in Intents : Unmoved(j)'
    BY <1>4, <2>1, UnmovedStill DEF Promised
  <2>3. [Promise!Next]_(Promise!promised)
    BY <1>2, <1>4, <2>1, StillIsSame, StepIsPromised DEF Promised
  <2> QED
    BY <1>2, <2>2, <2>3 DEF Promised
<1>5. ASSUME \A j \in Intents : Still(j)
      PROVE  Promised' /\ [Promise!Next]_(Promise!promised)
  <2>1. \A j \in Intents : /\ intent'[j] = intent[j] /\ charge'[j] = charge[j]
                            /\ rail'[j] = rail[j] /\ sent'[j] = sent[j] /\ posted'[j] = posted[j]
    BY <1>5 DEF Still, Row
  <2>2. posted' = posted
    BY <1>1, <1>2, <2>1 DEF Prompt, Written, IInv, TypeOK
  <2>3. \A j \in Intents : OutcomeOf(j)' = OutcomeOf(j)
    BY <2>1 DEF OutcomeOf
  <2>4. Outcomes' = Outcomes /\ Money' = Money /\ Told' = Told
    <3>1. Outcomes' = Outcomes
      BY <2>3 DEF Outcomes
    <3>2. Money' = Money
      BY <2>1 DEF Money
    <3>3. Told' = Told
      BY <2>1 DEF Told
    <3> QED
      BY <3>1, <3>2, <3>3
  <2>5. UNCHANGED Promise!promised
    BY <2>2, <2>4 DEF Promise!promised, Outcomes, Money, Told
  <2>6. \A j \in Intents : Unmoved(j)'
    BY <1>5, UnmovedStill DEF Promised
  <2> QED
    BY <1>2, <2>5, <2>6 DEF Promised
<1> QED
  BY <1>1, <1>4, <1>5, StepIsLocal

LEMMA PromisedInit == Init => Promised /\ Promise!Init
<1> SUFFICES ASSUME Init PROVE Promised /\ Promise!Init
  OBVIOUS
<1>1. Prompt
  BY InvInit, InitTraced DEF Prompt, Written
<1>2. \A i \in Intents : OutcomeOf(i) = "open" /\ {e \in Event : sent[i][e] > 0} = {}
  <2>1. \A i \in Intents : intent[i] = "requires_payment_method" /\ charge[i] = "none"
    BY DEF Init
  <2>2. \A i \in Intents, e \in Event : ~ (sent[i][e] > 0)
    BY DEF Init
  <2>3. \A i \in Intents : OutcomeOf(i) = "open"
    BY <2>1 DEF OutcomeOf
  <2>4. \A i \in Intents : {e \in Event : sent[i][e] > 0} = {}
    BY <2>2, Zenon
  <2> QED
    BY <2>3, <2>4
<1>3. \A i \in Intents : (rail[i] = "paid") = FALSE
  BY DEF Init
<1>4. Promise!Init
  BY <1>2, <1>3 DEF Promise!Init, Init
<1> QED
  BY <1>1, <1>4 DEF Promised, Unmoved, Init

\* Payment implements PaymentPromise: every commit of confirm, cancel and the worker, every
\* crash and every move of the rail is one step of the promise or none of it.
THEOREM PromiseIsKept == ASSUME ~ Stalls PROVE Spec => KeepsThePromise
<1>1. Init => Promised /\ Promise!Init
  BY PromisedInit
<1>2. Promised /\ [Next]_vars => Promised' /\ [Promise!Next]_(Promise!promised)
  BY PromisedNext
<1> QED
  BY <1>1, <1>2, PTL DEF Spec, KeepsThePromise, Promise!Spec
-----------------------------------------------------------------------------
(* 13. Payment uses the queue as JobLease has it: the row of a job is the    *)
(* entry of Leases, what a runner has in hand that of Hands.                 *)

Leases == [p \in Intents \X Kind |-> job[p[1]][p[2]]]
Hands  == [w \in Runners |-> InHand(w)]

LEMMA LeasesSet ==
  ASSUME TypeOK, NEW i \in Intents, NEW k \in Kind, NEW v, job' = [job EXCEPT ![i][k] = v]
  PROVE  Leases' = [Leases EXCEPT ![<<i, k>>] = v]
<1>1. \A j \in Intents, l \in Kind : job'[j][l] = IF j = i /\ l = k THEN v ELSE job[j][l]
  BY DEF TypeOK
<1>2. \A p \in Intents \X Kind :
        job'[p[1]][p[2]] = IF p = <<i, k>> THEN v ELSE job[p[1]][p[2]]
  BY <1>1
<1> QED
  BY <1>2 DEF Leases

\* A runner that goes on with its job has it in hand still.
LEMMA HandsStay ==
  ASSUME NEW w \in Runners, run[w].pc # "idle", run'[w].pc # "idle",
         run'[w].i = run[w].i, run'[w].kind = run[w].kind,
         \A v \in Runners : v # w => run'[v] = run[v]
  PROVE  Hands' = Hands
<1>1. \A v \in Runners : InHand(v)' = InHand(v)
  BY DEF InHand
<1> QED
  BY <1>1 DEF Hands

LEMMA HandsKept ==
  ASSUME run' = run
  PROVE  Hands' = Hands
  BY DEF Hands, InHand

\* A runner that is back at rest has nothing in hand.
LEMMA HandsEmptied ==
  ASSUME TypeOK, NEW w \in Runners, run' = [run EXCEPT ![w] = IdleRunner]
  PROVE  Hands' = [Hands EXCEPT ![w] = {}]
<1>1. \A v \in Runners : InHand(v)' = IF v = w THEN {} ELSE InHand(v)
  BY RunTyped DEF InHand, IdleRunner
<1> QED
  BY <1>1 DEF Hands

\* A handler is at work before each of its steps and after it: only the write that
\* settles the row, or a crash, takes its job from it.
LEMMA HandlerGoesOn ==
  ASSUME TypeOK, NEW w \in Runners, NEW i \in Intents, Poll(w, i) \/ Resubmit(w, i)
  PROVE  run[w].pc # "idle" /\ run'[w].pc # "idle"
<1>1. run[w].pc # "idle"
  BY DEF Poll, PollLoad, PollRecover, AdvanceAnswered, ScheduleResubmit, ResetStreak,
         RememberDenial, FailDeadOrder, QueryRail, QueryFails, ActSucceeded, ActFailed, ActPending,
         ActNotFound, Escalate, Resubmit, ResubmitLoad, PrepareAgain, RecordPreparedAgain,
         SettleRefused, OpenResubmit, SubmitAgain, RecordResubmitAnswer, SettleRejected,
         NoteRejected, CommitResubmission, At
<1>2. SUFFICES \E pc, c, o, a : /\ pc # "idle"
                                /\ \/ Go(w, pc) \/ Hear(w, pc, a)
                                   \/ See(w, pc, c) \/ Look(w, pc, c, o)
  BY <1>1, GoMoves, HearMoves, SeeMoves, LookMoves
<1>3. KeepPolling(w) \in {"escalate", "requeue"}
  BY DEF KeepPolling
<1>4. CASE \/ PollLoad(w, i) \/ AdvanceAnswered(w, i) \/ ScheduleResubmit(w, i) \/ ResetStreak(w, i)
           \/ RememberDenial(w, i) \/ FailDeadOrder(w, i) \/ QueryRail(w, i) \/ ActSucceeded(w, i)
           \/ ActFailed(w, i) \/ ActPending(w, i) \/ Escalate(w, i, "poll")
  BY <1>3, <1>4 DEF PollLoad, AdvanceAnswered, ScheduleResubmit, ResetStreak, RememberDenial,
                    FailDeadOrder, QueryRail, ActSucceeded, ActFailed, ActPending, Escalate,
                    SettleSucceeded, SettleFailed
<1>8. CASE PollRecover(w, i) \/ ActNotFound(w, i)
  BY <1>8, PollRecoverGoes, ActNotFoundGoes
<1>5. CASE QueryFails(w, i)
  <2>1. PICK a \in {"transport", "reconcile", "refused", "config"} :
          Hear(w, CASE a = "reconcile" \/ run[w].old = "late" -> "escalate"
                    [] a = "transport" /\ run[w].old # "late"  -> "requeue"
                    [] a = "refused" /\ run[w].old # "late"    -> "finish"
                    [] a = "config" /\ run[w].old # "late"     -> "park", a)
    BY <1>5 DEF QueryFails
  <2> QED
    BY <2>1
<1>6. CASE SubmitAgain(w, i)
  <2>1. PICK a \in {"ok", "rejected", "transport", "reconcile", "config"} :
          Hear(w, CASE a \in {"ok", "rejected"} -> "answered"
                    [] a = "transport"         -> "requeue"
                    [] a = "reconcile"         -> "escalate"
                    [] a = "config"            -> "park", a)
    BY <1>6, RailTakesType DEF SubmitAgain
  <2> QED
    BY <2>1
<1>7. CASE Resubmit(w, i) /\ ~SubmitAgain(w, i)
  BY <1>7 DEF Resubmit, ResubmitLoad, PrepareAgain, RecordPreparedAgain, SettleRefused,
              OpenResubmit, RecordResubmitAnswer, SettleRejected, NoteRejected, CommitResubmission,
              Escalate, SettleFailed
<1> QED
  BY <1>4, <1>5, <1>6, <1>7, <1>8 DEF Poll

LEMMA QueueLeftAlone ==
  ASSUME job' = job, Hands' = Hands
  PROVE  UNCHANGED Lease!leased
<1>1. Leases' = Leases
  BY DEF Leases
<1> QED
  BY <1>1 DEF Lease!leased, Leases, Hands

\* A row that was absent is enqueued, by a process that keeps what it has in hand.
LEMMA QueueGrows ==
  ASSUME TypeOK, NEW i \in Intents, NEW k \in Kind, job[i][k] = "absent", Hands' = Hands,
         job' = [job EXCEPT ![i][k] = "queued"]
  PROVE  Lease!Next
<1>1. Leases' = [Leases EXCEPT ![<<i, k>>] = "queued"]
  BY LeasesSet
<1>2. Leases' = [p \in Intents \X Kind |-> IF p \in {<<i, k>>} THEN "queued" ELSE Leases[p]]
  BY <1>1 DEF Leases
<1>3. \A p \in {<<i, k>>} : Leases[p] = "absent"
  BY DEF Leases
<1>4. Lease!Enqueue({<<i, k>>})
  BY <1>2, <1>3 DEF Lease!Enqueue, Leases, Hands
<1>5. {<<i, k>>} \in SUBSET (Intents \X Kind)
  OBVIOUS
<1> QED
  BY <1>4, <1>5 DEF Lease!Next

\* What a handler does to the queue: it may enqueue the other job of its intent.
LEMMA HandlerQueues ==
  ASSUME TypeOK, NEW w \in Runners, NEW i \in Intents, Poll(w, i) \/ Resubmit(w, i)
  PROVE  [Lease!Next]_(Lease!leased)
<1>1. Hands' = Hands
  BY HandlerGoesOn, PollMoves, ResubmitMoves, HandsStay
<1>2. \/ job' = job
      \/ \E k \in Kind : job[i][k] = "absent" /\ job' = [job EXCEPT ![i][k] = "queued"]
  <2>1. "poll" \in Kind /\ "resubmit" \in Kind
    BY Names
  <2> QED
    BY <2>1 DEF Poll, PollLoad, PollRecover, AdvanceAnswered, ScheduleResubmit, ResetStreak,
                RememberDenial, FailDeadOrder, QueryRail, QueryFails, ActSucceeded, ActFailed,
                ActPending, ActNotFound, Escalate, Resubmit, ResubmitLoad, PrepareAgain,
                RecordPreparedAgain, SettleRefused, OpenResubmit, SubmitAgain, RecordResubmitAnswer,
                SettleRejected, NoteRejected, CommitResubmission
<1> QED
  BY <1>1, <1>2, QueueLeftAlone, QueueGrows

\* A confirm enqueues the poll job in the transaction that opens the charge: no charge,
\* no job yet.
LEMMA ConfirmQueues ==
  ASSUME TypeOK, JobsHaveCharges, NEW r \in Requests, NEW i \in Intents, Confirm(r, i)
  PROVE  [Lease!Next]_(Lease!leased)
<1>1. Hands' = Hands
  BY ConfirmMoves, HandsKept
<1>2. "poll" \in Kind
  BY Names
<1>3. CASE OpenCharge(r, i) /\ job' # job
  <2>1. charge[i] = "none" /\ job' = [job EXCEPT ![i]["poll"] = "queued"]
    BY <1>3 DEF OpenCharge
  <2>2. job[i]["poll"] = "absent"
    BY <1>2, <2>1 DEF JobsHaveCharges
  <2> QED
    BY <1>1, <1>2, <2>1, <2>2, QueueGrows
<1>4. CASE job' = job
  BY <1>1, <1>4, QueueLeftAlone
<1>5. OpenCharge(r, i) \/ job' = job
  BY DEF Confirm, LoadConfirmable, PrepareOnRail, RecordPrepared, OpenAttempt, SubmitToRail,
         RecordSubmitAnswer, PersistSubmitted, PersistDecline, NoteDecline
<1> QED
  BY <1>3, <1>4, <1>5

\* The job loop around the handlers.
LEMMA LoopQueues ==
  ASSUME TypeOK, NEW w \in Runners, NEW i \in Intents, Loop(w, i)
  PROVE  [Lease!Next]_(Lease!leased)
<1>1. PICK k \in Kind : Claim(w, i, k) \/ SettleJob(w, i, k)
  BY DEF Loop
<1>2. <<i, k>> \in Intents \X Kind /\ Leases[<<i, k>>] = job[i][k]
  BY DEF Leases
<1>3. CASE Claim(w, i, k)
  <2>1. Leases' = [Leases EXCEPT ![<<i, k>>] = w]
    BY <1>3, LeasesSet DEF Claim
  <2>2. Hands[w] = {} /\ Hands' = [Hands EXCEPT ![w] = {<<i, k>>}]
    <3>1. run' = [run EXCEPT ![w] = [IdleRunner EXCEPT !.pc = "load", !.i = i, !.kind = k,
                                                       !.n = payload[i]]]
      BY <1>3 DEF Claim
    <3>2. run'[w].pc = "load" /\ run'[w].i = i /\ run'[w].kind = k
      BY <3>1, RunTyped DEF IdleRunner
    <3>3. \A v \in Runners : InHand(v)' = IF v = w THEN {<<i, k>>} ELSE InHand(v)
      BY <3>1, <3>2, RunTyped DEF InHand
    <3>4. InHand(w) = {}
      BY <1>3 DEF Claim, InHand
    <3> QED
      BY <3>3, <3>4 DEF Hands
  <2>3. Leases[<<i, k>>] = "queued"
    BY <1>2, <1>3 DEF Claim
  <2>4. Lease!Claim(w, <<i, k>>)
    BY <2>1, <2>2, <2>3 DEF Lease!Claim, Leases, Hands
  <2> QED
    BY <1>2, <2>4 DEF Lease!Next
<1>4. CASE SettleJob(w, i, k)
  <2>1. Hands' = [Hands EXCEPT ![w] = {}]
    BY <1>4, HandsEmptied DEF SettleJob
  <2>2. Hands[w] = {<<i, k>>}
    BY <1>4 DEF SettleJob, Hands, InHand
  <2>3. CASE job[i][k] = w
    <3>1. PICK v \in {"absent", "queued", "parked"} : job' = [job EXCEPT ![i][k] = v]
      BY <1>4, <2>3 DEF SettleJob
    <3>2. Leases' = [Leases EXCEPT ![<<i, k>>] = v]
      BY <3>1, LeasesSet
    <3>3. Lease!Settle(w, <<i, k>>)
      <4>1. Leases[<<i, k>>] = w
        BY <1>2, <2>3
      <4>2. [u \in Runners |-> u][w] = w
        OBVIOUS
      <4> QED
        BY <2>1, <2>2, <3>2, <4>1, <4>2 DEF Lease!Settle, Lease!Held, Leases, Hands
    <3> QED
      BY <1>2, <3>3 DEF Lease!Next
  <2>4. CASE job[i][k] # w
    <3>1. Leases' = Leases
      BY <1>4, <2>4 DEF SettleJob, Leases
    <3>2. Hands' = [u \in Runners |-> IF u \in {w} THEN {} ELSE Hands[u]]
      BY <2>1 DEF Hands
    <3>3. Lease!Leave({w}, {})
      BY <3>1, <3>2 DEF Lease!Leave, Leases, Hands
    <3> QED
      BY <3>3 DEF Lease!Next
  <2> QED
    BY <2>3, <2>4
<1> QED
  BY <1>1, <1>3, <1>4

\* The reaper, and the death of a worker.
LEMMA ReapQueues ==
  ASSUME TypeOK, NEW i \in Intents, NEW k \in Kind, ReapLease(i, k)
  PROVE  Lease!Next
<1>1. Hands' = Hands
  BY HandsKept DEF ReapLease
<1>2. Leases' = [Leases EXCEPT ![<<i, k>>] = "queued"]
  BY LeasesSet DEF ReapLease
<1>3. Leases' = [p \in Intents \X Kind |-> IF p \in {<<i, k>>} THEN "queued" ELSE Leases[p]]
  BY <1>2 DEF Leases
<1>4. Leases[<<i, k>>] = job[i][k]
  BY DEF Leases
<1>5. job[i][k] \in Runners /\ (Stalls \/ <<i, k>> \notin Hands[job[i][k]])
  BY DEF ReapLease, Hands, InHand
<1>6. Lease!Free({<<i, k>>})
  BY <1>1, <1>3, <1>4, <1>5 DEF Lease!Free, Lease!Held, Lease!Worked, Leases, Hands
<1>7. {<<i, k>>} \in SUBSET (Intents \X Kind)
  OBVIOUS
<1> QED
  BY <1>6, <1>7 DEF Lease!Next

LEMMA CrashQueues ==
  ASSUME TypeOK, NEW w \in Runners, CrashRunner(w)
  PROVE  Lease!Next
<1>1. Hands' = [u \in Runners |-> IF u \in {w} THEN {} ELSE Hands[u]]
  BY HandsEmptied DEF CrashRunner, Hands
<1>2. Leases' = Leases
  BY DEF CrashRunner, Leases
<1>3. Lease!Leave({w}, {})
  BY <1>1, <1>2 DEF Lease!Leave, Leases, Hands
<1> QED
  BY <1>3 DEF Lease!Next

LEMMA QueueNext ==
  ASSUME TypeOK, JobsHaveCharges, [Next]_vars
  PROVE  [Lease!Next]_(Lease!leased)
<1>1. CASE UNCHANGED vars
  BY <1>1, HandsKept, QueueLeftAlone DEF vars
<1>2. ASSUME NEW i \in Intents, ScanLiveCharges(i) PROVE Lease!Next
  BY <1>2, Names, HandsKept, QueueGrows DEF ScanLiveCharges
<1>3. ASSUME NEW i \in Intents, CancelSnapshot(i) \/ CancelCommit(i) \/ ChargeAges(i) \/ Rail(i)
      PROVE  UNCHANGED Lease!leased
  BY <1>3, HandsKept, QueueLeftAlone
     DEF CancelSnapshot, CancelCommit, ChargeAges, Rail, PayerPays, RailDeclines
<1>4. ASSUME NEW r \in Requests, CrashRequest(r) PROVE UNCHANGED Lease!leased
  BY <1>4, HandsKept, QueueLeftAlone DEF CrashRequest
<1> QED
  BY <1>1, <1>2, <1>3, <1>4, ReapQueues, CrashQueues, LoopQueues, HandlerQueues, ConfirmQueues
     DEF Next, Onto, Step, Loop

\* Payment uses the queue as JobLease has it: it enqueues only rows that are absent (the
\* dedupe key), a row is written only by the loop that claimed it (the fence), and the
\* reaper takes it only from the dead or the late.  JobQueue moves its rows in the same
\* ways (QueueIsLeased).
THEOREM PaymentKeepsToTheQueue == Spec => KeepsToTheQueue
<1>1. Init => Lease!Init
  <2> SUFFICES ASSUME Init PROVE Lease!Init
    OBVIOUS
  <2>1. \A w \in Runners : InHand(w) = {}
    BY DEF Init, InHand, IdleRunner
  <2>2. \A p \in Intents \X Kind : job[p[1]][p[2]] = "absent"
    BY DEF Init
  <2> QED
    BY <2>1, <2>2 DEF Lease!Init
<1>2. IInv /\ [Next]_vars => [Lease!Next]_(Lease!leased)
  BY QueueNext DEF IInv
<1> QED
  BY <1>1, <1>2, Inductive, PTL DEF Spec, KeepsToTheQueue, Lease!Spec
=============================================================================
