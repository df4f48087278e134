------------------------- MODULE IdempotencyProofs -------------------------
(***************************************************************************)
(* What Idempotency promises, for any set of requests and bodies, and      *)
(* whether or not a request outlasts the 24 hours.  IInv says whose row it *)
(* is: a request that runs, or was told "done", and came after the row     *)
(* last expired is the claim of the row.                                   *)
(***************************************************************************)
EXTENDS Idempotency, TLAPS

Row ==
  /\ key.state \in {"in_flight", "complete"} =>
       key.claim \in Requests /\ key.hash = Body[key.claim]
  /\ key.state = "none" => key = NoRow
  /\ key.state = "complete" =>
       /\ key.answer.of = key.claim
       /\ key.answer.says # "error"
       /\ key.answer.says = "ok" => key.claim \in done

\* Of a row that has not changed hands, only the claim has run.
Came == \A r \in Requests :
  /\ r \in past => ~At(r, "start")
  /\ key.claim = r => req[r].pc \notin {"start", "reading"}

Replies == \A r \in Requests :
  /\ At(r, "storing") =>
       /\ req[r].reply.of = r
       /\ req[r].reply.says \in {"ok", "refused"}
       /\ req[r].reply.says = "ok" => r \in done
  /\ At(r, "releasing") => req[r].reply.of = r /\ req[r].reply.says # "ok"
  /\ Replayed(r) =>
       /\ Body[req[r].reply.of] = Body[r]
       /\ req[r].reply.says # "error"
       /\ req[r].reply.says = "ok" => req[r].reply.of \in done

Current == \A r \in Requests \ past :
  /\ Running(r) => /\ key.claim = r
                   /\ key.state \in {"in_flight", "complete"}
                   /\ ~key.expired
  /\ req[r].pc \in {"working", "storing"} => key.state = "in_flight"
  /\ Acknowledged(r) => /\ key.claim = r
                        /\ key.state = "complete"
                        /\ ~key.expired

IInv == TypeOK /\ Row /\ Came /\ Replies /\ Current

LEMMA Outcomes == \A says \in Outcome, r \in Requests : Told(says, r) \in Answer
BY DEF Told, Answer

LEMMA Turning == \A says \in Turned : Told(says, None) \in Reply
BY DEF Told, Reply

LEMMA AnswerNamesRequest ==
  \A x \in Reply : x \in Answer <=> x.of \in Requests
BY ConstantsAssumption DEF Reply, Answer, Turned, Outcome

LEMMA Nothing ==
  /\ NoAnswer \in Reply \ Answer
  /\ NoRow \in Key
  /\ NoRow.state = "none" /\ NoRow.claim = None /\ NoRow.answer = NoAnswer
<1>1. NoAnswer \in Reply /\ NoAnswer.of = None
  BY DEF NoAnswer, Told, Reply, Turned
<1>2. NoAnswer \notin Answer
  BY <1>1, AnswerNamesRequest, ConstantsAssumption
<1> QED
  BY <1>1, <1>2 DEF NoRow, Key

LEMMA InitIInv == Init => IInv
<1> SUFFICES ASSUME Init PROVE IInv
  OBVIOUS
<1>3. TypeOK
  BY Nothing DEF Init, TypeOK, Request, RequestPC
<1>4. Row /\ Came /\ Replies /\ Current
  BY ConstantsAssumption
  DEF Init, Row, Came, Replies, Current, NoRow, At, Replayed, Running,
      Acknowledged
<1> QED BY <1>3, <1>4 DEF IInv

LEMMA NextIInv == IInv /\ [Next]_vars => IInv'
<1> SUFFICES ASSUME IInv, [Next]_vars PROVE IInv'
  OBVIOUS
<1> USE ConstantsAssumption DEF IInv
<1>1. ASSUME NEW r \in Requests, ClaimFresh(r) PROVE IInv'
  BY <1>1, AnswerNamesRequest
  DEF ClaimFresh, Claimable, Goes, At, NoAnswer, Told, NoRow, Reply, Turned,
      TypeOK, Row, Came, Replies, Current, Key, Request, RequestPC, Replayed,
      Running, Acknowledged
<1>2. ASSUME NEW r \in Requests, ClaimTaken(r) PROVE IInv'
  BY <1>2, AnswerNamesRequest
  DEF ClaimTaken, Claimable, Goes, At, NoAnswer, Told, Reply, Turned, TypeOK,
      Row, Came, Replies, Current, Key, Request, RequestPC, Replayed, Running,
      Acknowledged
<1>3. ASSUME NEW r \in Requests, Read(r) PROVE IInv'
  BY <1>3, AnswerNamesRequest, Turning
  DEF Read, ReadAnswer, SameBody, Goes, At, Told, Turned, TypeOK, Row, Came,
      Replies, Current, Key, Request, RequestPC, Replayed, Running,
      Acknowledged
<1>4. ASSUME NEW r \in Requests, Refuse(r) PROVE IInv'
  BY <1>4, AnswerNamesRequest, Outcomes
  DEF Refuse, Goes, At, Told, Answer, Reply, Outcome, TypeOK, Row, Came,
      Replies, Current, Key, Request, RequestPC, Replayed, Running,
      Acknowledged
<1>5. ASSUME NEW r \in Requests, Work(r) PROVE IInv'
  BY <1>5, AnswerNamesRequest, Outcomes
  DEF Work, AfterWork, Goes, At, Told, Answer, Reply, Outcome, TypeOK, Row,
      Came, Replies, Current, Key, Request, RequestPC, Replayed, Running,
      Acknowledged
<1>6. ASSUME NEW r \in Requests, Store(r) PROVE IInv'
  <2>1. /\ At(r, "storing") /\ key.state = "in_flight" /\ key.claim = r
        /\ key' = [key EXCEPT !.state = "complete", !.answer = req[r].reply]
        /\ UNCHANGED <<done, past>>
    BY <1>6 DEF Store, Owns, InFlight, Claims
  <2>2. PICK to \in {[pc |-> "over", reply |-> req[r].reply],
                     [pc |-> "releasing", reply |-> Told("error", r)]} :
          req' = [req EXCEPT ![r] = to]
    BY <1>6 DEF Store, Goes
  <2>3. req[r].reply \in Answer /\ req[r].reply \in Reply
    BY <2>1, AnswerNamesRequest DEF Replies, TypeOK, Request, Reply
  <2>4. to \in Request /\ to.reply.of = r
    BY <2>1, <2>2, <2>3, Outcomes
    DEF Request, RequestPC, Reply, Outcome, Told, Replies
  <2>5. /\ key' \in Key
        /\ key'.state = "complete" /\ key'.claim = r
        /\ key'.answer = req[r].reply
        /\ key'.hash = key.hash /\ key'.expired = key.expired
    BY <2>1, <2>3 DEF TypeOK, Key
  <2>6. TypeOK' /\ Row'
    BY <2>1, <2>2, <2>3, <2>4, <2>5 DEF TypeOK, Row, Replies, At
  <2>7. Came' /\ Replies'
    <3>1. /\ \A q \in Requests \ {r} : req'[q] = req[q]
          /\ req'[r] = to /\ to.pc \in {"over", "releasing"} /\ to.reply.of = r
          /\ to.pc = "releasing" => to.reply.says # "ok"
      BY <2>2, <2>4 DEF TypeOK, Told
    <3>2. Came'
      BY <2>1, <2>5, <3>1 DEF Came, At
    <3>3. \A q \in Requests \ {r} : Replayed(q)' => Replayed(q)
      BY <3>1 DEF Replayed, At
    <3>4. ~Replayed(r)'
      BY <3>1 DEF Replayed
    <3> QED
      BY <2>1, <3>1, <3>2, <3>3, <3>4 DEF Replies, At
  <2>8. Current'
    <3>1. \A q \in Requests \ {r} : req'[q] = req[q]
      BY <2>2 DEF TypeOK
    <3>2. ASSUME NEW q \in Requests \ past, q # r
          PROVE ~Running(q)' /\ ~Acknowledged(q)'
      BY <2>1, <3>1, <3>2 DEF Current, Running, Acknowledged, At
    <3>3. r \notin past => ~key'.expired
      BY <2>1, <2>5 DEF Current, Running, At
    <3>4. req'[r].pc \notin {"working", "storing"}
      BY <2>2 DEF TypeOK
    <3> QED
      BY <2>1, <2>5, <3>2, <3>3, <3>4 DEF Current, Running
  <2> QED BY <2>6, <2>7, <2>8
<1>7. ASSUME NEW r \in Requests, StoreStale(r) PROVE IInv'
  BY <1>7, AnswerNamesRequest
  DEF StoreStale, Owns, InFlight, Claims, Goes, At, Told, TypeOK, Row, Came,
      Replies, Current, Key, Request, RequestPC, Replayed, Running,
      Acknowledged
<1>8. ASSUME NEW r \in Requests, StoreFails(r) PROVE IInv'
  BY <1>8, AnswerNamesRequest, Outcomes
  DEF StoreFails, Goes, At, Told, Answer, Reply, Outcome, TypeOK, Row, Came,
      Replies, Current, Key, Request, RequestPC, Replayed, Running,
      Acknowledged
<1>9. ASSUME NEW r \in Requests, Release(r) PROVE IInv'
  <2>1. /\ req' = [req EXCEPT ![r] = [pc |-> "over", reply |-> req[r].reply]]
        /\ req[r].reply \in Reply
        /\ At(r, "releasing")
        /\ UNCHANGED <<done, past>>
    BY <1>9 DEF Release, Goes, TypeOK, Request
  <2>2. CASE UNCHANGED key
    BY <2>1, <2>2, AnswerNamesRequest
    DEF At, Told, TypeOK, Row, Came, Replies, Current, Request, RequestPC,
        Replayed, Running, Acknowledged
  <2>3. CASE key' = NoRow /\ Owns(r)
    <3>1. Row' /\ TypeOK'
      BY <2>1, <2>3, Nothing, AnswerNamesRequest DEF Row, TypeOK, Request, RequestPC
    <3>2. Came' /\ Replies'
      BY <2>1, <2>3, Nothing, AnswerNamesRequest
      DEF Came, Replies, Replayed, At, Told, TypeOK, Request
    <3>3. Current'
      <4>1. ASSUME NEW q \in Requests \ past PROVE ~Running(q)' /\ ~Acknowledged(q)'
        <5>1. CASE q = r
          BY <2>1, <5>1 DEF Replies, Running, Acknowledged, At, Told, TypeOK
        <5>2. CASE q # r
          <6>1. req'[q] = req[q]
            BY <2>1, <5>2 DEF TypeOK
          <6>2. key.claim # q /\ key.state # "complete"
            BY <2>3, <5>2 DEF Owns, InFlight, Claims
          <6> QED
            BY <2>1, <6>1, <6>2 DEF Current, Running, Acknowledged, At
        <5> QED BY <5>1, <5>2
      <4> QED
        BY <2>1, <4>1 DEF Current, Running
    <3> QED BY <3>1, <3>2, <3>3
  <2> QED BY <1>9, <2>2, <2>3 DEF Release
<1>10. ASSUME NEW r \in Requests, Vanish(r) PROVE IInv'
  BY <1>10, AnswerNamesRequest
  DEF Vanish, Goes, At, Told, NoAnswer, Reply, Turned, TypeOK, Row, Came,
      Replies, Current, Key, Request, RequestPC, Replayed, Running,
      Acknowledged
<1>11. ASSUME Expire PROVE IInv'
  BY <1>11, AnswerNamesRequest
  DEF Expire, At, Told, NoRow, TypeOK, Row, Came, Replies, Current, Key,
      Request, RequestPC, Replayed, Running, Acknowledged
<1>12. ASSUME Sweep PROVE IInv'
  <2>1. key' = NoRow /\ key.state # "none" /\ key.expired /\ UNCHANGED <<req, done, past>>
    BY <1>12 DEF Sweep, Swept
  <2> QED
    BY <2>1, AnswerNamesRequest, Nothing
    DEF At, Told, TypeOK, Row, Came, Replies, Current, Request, RequestPC,
        Replayed, Running, Acknowledged
<1>13. ASSUME UNCHANGED vars PROVE IInv'
  BY <1>13 DEF vars, At, TypeOK, Row, Came, Replies, Current, Key, Request,
      RequestPC, Replayed, Running, Acknowledged
<1> QED
  BY <1>1, <1>2, <1>3, <1>4, <1>5, <1>6, <1>7, <1>8, <1>9, <1>10, <1>11, <1>12, <1>13 DEF Next

LEMMA Always == Spec => []IInv
<1>1. Init => IInv
  BY InitIInv
<1>2. IInv /\ [Next]_vars => IInv'
  BY NextIInv
<1> QED
  BY <1>1, <1>2, PTL DEF Spec

(* The row, the requests and the answers keep their types, and a completed *)
(* row, and no other, carries a response (complete_has_a_response).        *)
THEOREM KeyTypes == Spec => []TypeOK
<1>1. IInv => TypeOK
  BY DEF IInv
<1> QED
  BY <1>1, Always, PTL

(* claim never replays one request's response to a request with another    *)
(* body, though it reads the row after its INSERT has lost.                *)
THEOREM ReplaysAreFaithful == Spec => []ReplayIsTheSameRequest
<1>1. IInv => ReplayIsTheSameRequest
  BY DEF IInv, Replies, ReplayIsTheSameRequest
<1> QED
  BY <1>1, Always, PTL

(* Simultaneous retries of one POST: one handler runs.                     *)
THEOREM OneHandlerRuns == Spec => []OneRuns
<1>1. IInv => OneRuns
  BY DEF IInv, Current, OneRuns
<1> QED
  BY <1>1, Always, PTL

(* And one is told that it created something.                              *)
THEOREM OneIsAcknowledged == Spec => []OneAcknowledged
<1>1. IInv => OneAcknowledged
  BY DEF IInv, Current, OneAcknowledged, Acknowledged
<1> QED
  BY <1>1, Always, PTL

(***************************************************************************)
(* The row is written by its claim, or by time.                            *)
(***************************************************************************)
LEMMA RowStep ==
  ASSUME IInv, Next, key.state # "none", ~key.expired
  PROVE  \/ key' \in {key, [key EXCEPT !.expired = TRUE]}
         \/ /\ key.state = "in_flight"
            /\ req'[key.claim] # req[key.claim]
<1>1. ASSUME NEW r \in Requests, ClaimFresh(r) PROVE FALSE
  BY <1>1 DEF ClaimFresh, Claimable
<1>2. ASSUME NEW r \in Requests,
             ClaimTaken(r) \/ Read(r) \/ Refuse(r) \/ Work(r) \/ StoreStale(r)
               \/ StoreFails(r) \/ Vanish(r)
      PROVE key' = key
  BY <1>2 DEF ClaimTaken, Read, Refuse, Work, StoreStale, StoreFails, Vanish
<1>3. ASSUME NEW r \in Requests, Store(r), key' # key
      PROVE key.state = "in_flight" /\ req'[key.claim] # req[key.claim]
  BY <1>3 DEF Store, Owns, InFlight, Claims, Goes, At, IInv, TypeOK, Request
<1>4. ASSUME NEW r \in Requests, Release(r), key' # key
      PROVE key.state = "in_flight" /\ req'[key.claim] # req[key.claim]
  BY <1>4 DEF Release, Owns, InFlight, Claims, Goes, At, IInv, TypeOK, Request
<1>5. Expire => key' = [key EXCEPT !.expired = TRUE]
  BY DEF Expire
<1>6. ~Sweep
  BY DEF Sweep, Swept
<1> QED
  BY <1>1, <1>2, <1>3, <1>4, <1>5, <1>6 DEF Next

(* ABA: a request that outlived its claim neither overwrites nor deletes   *)
(* the row of the one that took it over.                                   *)
THEOREM LateRequestsTouchNothing == Spec => ForeignClaimsUntouched
<1>1. IInv /\ [Next]_vars =>
        [\A r \in Requests :
           key.state = "in_flight" /\ key.claim = r /\ ~key.expired =>
             key' \in {key, [key EXCEPT !.expired = TRUE]} \/ req'[r] # req[r]]_vars
  BY RowStep
<1> QED
  BY <1>1, Always, PTL DEF Spec, ForeignClaimsUntouched

(* No request takes back what was stored for replay.                       *)
THEOREM StoredForADay == Spec => StoredAnswerStays
<1>1. IInv /\ [Next]_vars =>
        [key.state = "complete" /\ ~key.expired =>
           key' \in {key, [key EXCEPT !.expired = TRUE]}]_vars
  BY RowStep
<1> QED
  BY <1>1, Always, PTL DEF Spec, StoredAnswerStays
=============================================================================
