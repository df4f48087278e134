---------------------------- MODULE Idempotency ----------------------------
(***************************************************************************)
(* One Idempotency-Key of one merchant: the row of idempotency_keys and    *)
(* the requests that arrive under that key, retries of each other or not.  *)
(* Claim, read, store, release and sweep are vpay-db's statements, each a   *)
(* step of its own; the order a request runs them in is PostRequest's in   *)
(* vpay-api.  The handler between the claim and the answer is one step,    *)
(* which may commit what it does and answer anything.                      *)
(*                                                                          *)
(* claim_id is the request: the database mints one per claim, and a        *)
(* request claims once.  A request_hash is a member of Bodies.             *)
(***************************************************************************)
EXTENDS Naturals

CONSTANTS
  Requests,  \* POSTs that arrive under the key
  Bodies,    \* request hashes
  Body,      \* the hash of each request
  None,      \* no request, no hash
  Stalls     \* may a request take more than 24 hours?

ASSUME ConstantsAssumption ==
  /\ Body \in [Requests -> Bodies]
  /\ None \notin Requests \cup Bodies
  /\ Stalls \in BOOLEAN

VARIABLES
  key,   \* the row
  req,   \* the requests
  done,  \* requests whose handler committed what it was asked for
  past   \* history: requests that came before the row last expired

vars == <<key, req, done, past>>

(* An answer names the request whose outcome it tells. *)
Outcome == {"ok", "refused", "error"}
Answer  == [says: Outcome, of: Requests]
Turned  == {"in_flight", "mismatch", "unanswered"}
Reply   == Answer \cup [says: Turned, of: {None}]

RequestPC == {"start", "reading", "working", "storing", "releasing", "over"}

Key ==
  [state: {"none", "in_flight", "complete"}, claim: Requests \cup {None},
   hash: Bodies \cup {None}, answer: Reply, expired: BOOLEAN]
Request == [pc: RequestPC, reply: Reply]

\* complete_has_a_response, and claim's reset of what the row told before.
TypeOK ==
  /\ key  \in Key
  /\ key.state = "complete" <=> key.answer \in Answer
  /\ req  \in [Requests -> Request]
  /\ done \subseteq Requests
  /\ past \subseteq Requests

Told(says, of) == [says |-> says, of |-> of]
NoAnswer == Told("unanswered", None)
NoRow ==
  [state |-> "none", claim |-> None, hash |-> None, answer |-> NoAnswer,
   expired |-> FALSE]

Init ==
  /\ key  = NoRow
  /\ req  = [r \in Requests |-> [pc |-> "start", reply |-> NoAnswer]]
  /\ done = {}
  /\ past = {}

At(r, pc) == req[r].pc = pc
Goes(r, pc, reply) == req' = [req EXCEPT ![r] = [pc |-> pc, reply |-> reply]]

(***************************************************************************)
(* claim: INSERT .. ON CONFLICT DO UPDATE .. WHERE expires_at < now(), and *)
(* when no row came back a SELECT that decides only what to answer.        *)
(***************************************************************************)
ClaimableAny(k) == TRUE
ClaimableWhenDone(k) == k.state # "in_flight" \/ k.expired
Claimable(k) == k.state = "none" \/ k.expired

ClaimFresh(r) ==
  /\ At(r, "start")
  /\ Claimable(key)
  /\ key' = [state |-> "in_flight", claim |-> r, hash |-> Body[r],
             answer |-> NoAnswer, expired |-> FALSE]
  /\ Goes(r, "working", NoAnswer)
  /\ UNCHANGED <<done, past>>

ClaimTaken(r) ==
  /\ At(r, "start")
  /\ ~Claimable(key)
  /\ Goes(r, "reading", NoAnswer)
  /\ UNCHANGED <<key, done, past>>

(* The row may be gone, or another request's, by the time it is read. *)
AnyBody(r) == TRUE
SameBody(r) == key.hash = Body[r]

ReadAnswer(r) ==
  IF key.state = "none" THEN Told("in_flight", None)
  ELSE IF ~SameBody(r) THEN Told("mismatch", None)
  ELSE IF key.state = "complete" THEN key.answer
  ELSE Told("in_flight", None)

Read(r) ==
  /\ At(r, "reading")
  /\ Goes(r, "over", ReadAnswer(r))
  /\ UNCHANGED <<key, done, past>>

(***************************************************************************)
(* The handler.  A create route that finds the body wrong gives the key    *)
(* back and answers 400; any other outcome goes to finish.  A 5xx says     *)
(* nothing of what was committed before it.                                *)
(***************************************************************************)
Refuse(r) ==
  /\ At(r, "working")
  /\ Goes(r, "releasing", Told("refused", r))
  /\ UNCHANGED <<key, done, past>>

AfterWork(says) == IF says = "error" THEN "releasing" ELSE "storing"

Work(r) ==
  /\ At(r, "working")
  /\ \E says \in Outcome, did \in BOOLEAN :
       /\ says = "ok" => did
       /\ Goes(r, AfterWork(says), Told(says, r))
       /\ done' = IF did THEN done \cup {r} ELSE done
  /\ UNCHANGED <<key, past>>

(***************************************************************************)
(* finish: store, or what its failure leaves.                              *)
(***************************************************************************)
AnyClaim(r) == TRUE
Claims(r) == key.claim = r

InFlight(r) == key.state = "in_flight"
Owns(r) == InFlight(r) /\ Claims(r)

(* The write lands; its acknowledgement may be lost, which reads as an error. *)
Store(r) ==
  /\ At(r, "storing")
  /\ Owns(r)
  /\ key' = [key EXCEPT !.state = "complete", !.answer = req[r].reply]
  /\ \/ Goes(r, "over", req[r].reply)
     \/ Goes(r, "releasing", Told("error", r))
  /\ UNCHANGED <<done, past>>

(* StaleClaim: another request holds the row, or it was swept. *)
StoreStale(r) ==
  /\ At(r, "storing")
  /\ ~Owns(r)
  /\ ~Claims(r)
  /\ Goes(r, "over", req[r].reply)
  /\ UNCHANGED <<key, done, past>>

StoreFails(r) ==
  /\ At(r, "storing")
  /\ Goes(r, "releasing", Told("error", r))
  /\ UNCHANGED <<key, done, past>>

(* A release that fails is logged and swallowed. *)
Release(r) ==
  /\ At(r, "releasing")
  /\ \/ key' = IF Owns(r) THEN NoRow ELSE key
     \/ UNCHANGED key
  /\ Goes(r, "over", req[r].reply)
  /\ UNCHANGED <<done, past>>

(***************************************************************************)
(* The process dies, or the connection does and takes the handler with it. *)
(***************************************************************************)
Vanish(r) ==
  /\ req[r].pc \notin {"start", "over"}
  /\ Goes(r, "over", NoAnswer)
  /\ UNCHANGED <<key, done, past>>

(* 24 hours pass. *)
Running(r) == req[r].pc \in {"working", "storing", "releasing"}

Expire ==
  /\ key.state # "none"
  /\ ~key.expired
  /\ Stalls \/ \A r \in Requests : ~Running(r)
  /\ key'  = [key EXCEPT !.expired = TRUE]
  /\ past' = {r \in Requests : ~At(r, "start")}
  /\ UNCHANGED <<req, done>>

(* The sweep_expired job of vpay-worker. *)
SweptComplete(k) == k.state = "complete" /\ k.expired
Swept(k) == k.state # "none" /\ k.expired

Sweep ==
  /\ Swept(key)
  /\ key' = NoRow
  /\ UNCHANGED <<req, done, past>>

Next ==
  \/ \E r \in Requests :
       \/ ClaimFresh(r) \/ ClaimTaken(r) \/ Read(r)
       \/ Refuse(r) \/ Work(r)
       \/ Store(r) \/ StoreStale(r) \/ StoreFails(r) \/ Release(r)
       \/ Vanish(r)
  \/ Expire \/ Sweep

Spec == Init /\ [][Next]_vars

(* A request ends, a day passes, and the sweep runs again after it failed. *)
Ends(r) ==
  Work(r) \/ Store(r) \/ StoreStale(r) \/ StoreFails(r) \/ Release(r) \/ Vanish(r)
FairSpec ==
  /\ Spec
  /\ \A r \in Requests : WF_vars(Ends(r))
  /\ WF_vars(Expire)
  /\ WF_vars(Sweep)

(***************************************************************************)
(* Properties.                                                             *)
(***************************************************************************)
(* A stored answer is handed only to a request with the body of the one    *)
(* that earned it, and is word for word what that one would have been      *)
(* told: claim's SELECT runs after its INSERT lost, on whatever row is     *)
(* there by then.                                                          *)
Replayed(r) == At(r, "over") /\ req[r].reply \in Answer /\ req[r].reply.of # r
ReplayIsTheSameRequest ==
  \A r \in Requests : Replayed(r) =>
    LET first == req[r].reply
    IN /\ Body[first.of] = Body[r]
       /\ first.says # "error"
       /\ first.says = "ok" => first.of \in done

(* ABA: whatever a request does whose claim was taken over after a day,    *)
(* the row of the request that took it over does not change under it.      *)
ForeignClaimsUntouched ==
  [][\A r \in Requests :
       key.state = "in_flight" /\ key.claim = r /\ ~key.expired =>
         key' \in {key, [key EXCEPT !.expired = TRUE]} \/ req'[r] # req[r]]_vars

(* What was stored for replay is what every later request is told until it *)
(* expires: no late store, release or claim takes it back.                 *)
StoredAnswerStays ==
  [][key.state = "complete" /\ ~key.expired =>
       key' \in {key, [key EXCEPT !.expired = TRUE]}]_vars

(* Of the requests that arrive under a key before it expires, one at most  *)
(* is told that what it asked for was done: two simultaneous retries are   *)
(* never both told yes.                                                    *)
Acknowledged(r) ==
  At(r, "over") /\ req[r].reply = Told("ok", r) /\ r \notin past
OneAcknowledged ==
  \A q, r \in Requests : Acknowledged(q) /\ Acknowledged(r) => q = r

(* And one at a time runs the handler. *)
OneRuns ==
  \A q, r \in Requests \ past : Running(q) /\ Running(r) => q = r

(* A claim ends, whatever became of the request that made it. *)
ClaimsEnd ==
  \A r \in Requests :
    key.state = "in_flight" /\ key.claim = r
      ~> ~(key.state = "in_flight" /\ key.claim = r)

=============================================================================
