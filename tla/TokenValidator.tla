--------------------------- MODULE TokenValidator ---------------------------
(***************************************************************************)
(* How a replica finds the key a bearer token names: JwtValidator over the   *)
(* time-bounded JwksCache, which fetches /v1/oauth/jwks.json, that is, the   *)
(* rows SigningKeys publishes.                                               *)
(*                                                                          *)
(* The validator is that of one replica that stays up; Restart makes it a    *)
(* new one.  Its two intervals are not compared with the life of a key, so   *)
(* they end at any time.  What follows the key (the signature, the claims)   *)
(* is left out: `found` only says that there is a key to verify with.        *)
(***************************************************************************)
EXTENDS SigningKeys

CONSTANT Requests   \* the requests the validator serves at a time

ASSUME RequestsAssumption == None \notin Requests

VARIABLES
  cache,   \* JwksCache.jwks: the document, and whether its TTL has not elapsed
  known,   \* known_kids, which is never reduced
  permit,  \* no unknown kid was let through in UNKNOWN_KID_REFRESH_INTERVAL
  guard,   \* the request that holds the write guard of the cache
  req      \* the requests

validator == <<cache, known, permit, guard, req>>
vars      == <<keys, validator>>

\* `at` says which look-up of the document a request is in: is_published_kid's,
\* get_key's first, or the one after get_key's refresh.
Request == [pc: {"idle", "read", "wait", "fetch", "claim", "unknown"},
            at: {"check", "resolve", "forced"}, kid: Kids \cup {None},
            genuine: BOOLEAN, doc: SUBSET Kids]
Idle == [pc |-> "idle", at |-> "check", kid |-> None, genuine |-> FALSE, doc |-> {}]

TypeOK ==
  /\ KeysTypeOK
  /\ cache  \in [doc: SUBSET Kids, fresh: BOOLEAN]
  /\ known  \subseteq Kids
  /\ permit \in BOOLEAN
  /\ guard  \in Requests \cup {None}
  /\ req    \in [Requests -> Request]

ValidatorInit ==
  /\ cache  = [doc |-> {}, fresh |-> FALSE]
  /\ known  = {}
  /\ permit = TRUE
  /\ guard  = None
  /\ req    = [r \in Requests |-> Idle]

Init == KeysInit /\ ValidatorInit

Document == {k \in Kids : Published(k)}

-----------------------------------------------------------------------------
(* One request.                                                             *)

Enter(r, x, pc, at) == req' = [req EXCEPT ![r] = [x EXCEPT !.pc = pc, !.at = at, !.doc = {}]]

\* What request r, as x tells, does with a document that get_jwks or refresh gave it.
LookUp(r, x, doc) ==
  \/ /\ x.kid \in doc /\ x.at = "check"
     /\ known' = known \cup {x.kid}
     /\ Enter(r, x, "read", "resolve")
  \/ /\ x.kid \in doc /\ x.at # "check"
     /\ req' = [req EXCEPT ![r] = Idle]     \* found: the signature decides
     /\ UNCHANGED known
  \/ /\ x.kid \notin doc
     /\ Enter(r, x, CASE x.at = "check"   -> "claim"
                      [] x.at = "resolve" -> "wait"
                      [] x.at = "forced"  -> "unknown",
                    IF x.at = "check" THEN "check" ELSE "forced")
     /\ UNCHANGED known

\* get_jwks under the read guard, which a writer excludes.
ReadCache(r, x) ==
  /\ guard = None
  /\ \/ /\ cache.fresh
        /\ LookUp(r, x, cache.doc)
     \/ /\ ~cache.fresh
        /\ Enter(r, x, "wait", x.at)
        /\ UNCHANGED known
  /\ UNCHANGED <<keys, cache, permit, guard>>

\* A token that names kid k, one that was signed and still verifies or one that was
\* made up, up to its first reading of the cache.
Present(r, k) ==
  /\ req[r].pc = "idle"
  /\ ReadCache(r, [Idle EXCEPT !.at = IF k \in known THEN "resolve" ELSE "check",
                               !.kid = k, !.genuine = live[k] > 0])

\* get_key, once is_published_kid or the permit has let the request through.
Resolve(r) ==
  /\ req[r].pc = "read"
  /\ ReadCache(r, req[r])

\* claim_unknown_kid_refresh: test and stamp under one mutex.
ClaimRefresh(r) ==
  /\ req[r].pc = "claim"
  /\ permit' = FALSE
  /\ \/ /\ permit
        /\ Enter(r, req[r], "read", "resolve")
     \/ /\ ~permit
        /\ req' = [req EXCEPT ![r] = Idle]  \* InvalidToken
  /\ UNCHANGED <<keys, cache, known, guard>>

\* Variant: the forced refresh, too, is content with an entry that is fresh.
MustFetchStale(r) == ~cache.fresh

\* refresh_if_stale looks again under the write guard, refresh does not.
MustFetch(r) == req[r].at = "forced" \/ ~cache.fresh

\* The write guard is taken; when there is something to fetch it is kept, and the GET
\* reads the rows.  One action: a GET that reads them later finds what this one finds when
\* the guard is taken later, for the holder keeps everybody else at the cache.
TakeGuard(r) ==
  /\ req[r].pc = "wait"
  /\ guard = None
  /\ \/ /\ MustFetch(r)
        /\ guard' = r
        /\ req' = [req EXCEPT ![r].pc = "fetch", ![r].doc = Document]
        /\ UNCHANGED known
     \/ /\ ~MustFetch(r)
        /\ LookUp(r, req[r], cache.doc)
        /\ UNCHANGED guard
  /\ UNCHANGED <<keys, cache, permit>>

Store(r) ==
  /\ req[r].pc = "fetch"
  /\ cache' = [doc |-> req[r].doc, fresh |-> TRUE]
  /\ guard' = None
  /\ LookUp(r, req[r], req[r].doc)
  /\ UNCHANGED <<keys, permit>>

\* The entry stays as it was and the answer is 503.
FetchFails(r) ==
  /\ req[r].pc = "fetch"
  /\ guard' = None
  /\ req' = [req EXCEPT ![r] = Idle]
  /\ UNCHANGED <<keys, cache, known, permit>>

\* KeyNotFound: the answer is 401.
Reject(r) ==
  /\ req[r].pc = "unknown"
  /\ req' = [req EXCEPT ![r] = Idle]
  /\ UNCHANGED <<keys, cache, known, permit, guard>>

Serve(r) == \/ \E k \in Kids : Present(r, k)
            \/ Resolve(r) \/ ClaimRefresh(r) \/ TakeGuard(r)
            \/ Store(r) \/ FetchFails(r) \/ Reject(r)

-----------------------------------------------------------------------------
(* The intervals, and the replica.                                          *)

EntryAges ==
  /\ cache.fresh
  /\ cache' = [cache EXCEPT !.fresh = FALSE]
  /\ UNCHANGED <<keys, known, permit, guard, req>>

PermitReturns ==
  /\ ~permit
  /\ permit' = TRUE
  /\ UNCHANGED <<keys, cache, known, guard, req>>

Restart ==
  /\ cache'  = [doc |-> {}, fresh |-> FALSE]
  /\ known'  = {}
  /\ permit' = TRUE
  /\ guard'  = None
  /\ req'    = [r \in Requests |-> Idle]
  /\ UNCHANGED keys

Next == \/ KeysNext /\ UNCHANGED validator
        \/ EntryAges \/ PermitReturns \/ Restart
        \/ \E r \in Requests : Serve(r)

Spec == Init /\ [][Next]_vars

-----------------------------------------------------------------------------
(* What the validator promises.                                             *)

\* A genuine token that gets as far as the forced refresh is never answered that its
\* key does not exist while it verifies, whatever other requests fetch and store and
\* however far a rotation has come (get_key, refresh, ROTATION_OVERLAP).
GenuineIsKnown ==
  [][\A r \in Requests :
       req[r].pc # "unknown" /\ req'[r].pc = "unknown" =>
         ~(req[r].genuine /\ live[req[r].kid] > 0)]_vars
=============================================================================
