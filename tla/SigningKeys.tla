---------------------------- MODULE SigningKeys ----------------------------
(***************************************************************************)
(* The rotation of the key that signs access tokens: an operator replaces    *)
(* the Secret, every replica that starts announces the key it has loaded in  *)
(* oauth_signing_keys before it serves, and signs with it until it stops.    *)
(*                                                                          *)
(* There is no absolute clock.  What the code compares with now() is the     *)
(* time that is left, and Tick moves every timer at once.                    *)
(***************************************************************************)
EXTENDS Naturals

CONSTANTS
  Kids,       \* the keys, by their thumbprints
  Processes,  \* the replicas of the server
  None,       \* no key, no replica
  TTL,        \* how long a token verifies: ACCESS_TOKEN_TTL_SECS and the leeway
  Overlap,    \* ROTATION_OVERLAP
  Boot,       \* the longest announcement, from its reading of the clock to its commit
  Drain       \* how long a replica may go on signing with a key that was retired

\* The constraint ROTATION_OVERLAP is documented to satisfy, with every delay in it.
ASSUME TimesAssumption ==
  /\ TTL \in Nat \ {0} /\ Overlap \in Nat /\ Boot \in Nat /\ Drain \in Nat
  /\ TTL + Boot + Drain <= Overlap
ASSUME NoneAssumption == None \notin Kids \cup Processes

VARIABLES
  row,     \* oauth_signing_keys; `left` is expires_at - now() of a retired key
  live,    \* the remaining life of the youngest token a key has signed
  proc,    \* the replicas; `clock` times an announcement, then a retired key's signer
  lock     \* the holder of the advisory lock ROTATION_LOCK_KEY

keys == <<row, live, proc, lock>>

Row     == [st: {"absent", "active", "retired"}, left: 0..Overlap]
Process == [pc: {"down", "announcing", "locked", "serving", "refused", "unwell"},
            kid: Kids \cup {None}, saw: Kids \cup {None}, clock: Nat]
Down    == [pc |-> "down", kid |-> None, saw |-> None, clock |-> 0]

KeysTypeOK ==
  /\ row  \in [Kids -> Row]
  /\ live \in [Kids -> 0..TTL]
  /\ proc \in [Processes -> Process]
  /\ lock \in Processes \cup {None}

KeysInit ==
  /\ row  = [k \in Kids |-> [st |-> "absent", left |-> 0]]
  /\ live = [k \in Kids |-> 0]
  /\ proc = [p \in Processes |-> Down]
  /\ lock = None

\* WHERE active OR expires_at > now().
Published(k) == row[k].st = "active" \/ (row[k].st = "retired" /\ row[k].left > 0)

Active == {k \in Kids : row[k].st = "active"}

\* SELECT kid WHERE active LIMIT 1.
Previous == IF Active = {} THEN {None} ELSE Active

\* A replica that goes on signing with a key that is no longer the active one.
Lags(p) == proc[p].pc = "serving" /\ row[proc[p].kid].st = "retired"

-----------------------------------------------------------------------------
(* A replica.                                                               *)

\* The replica loads the key the Secret holds, which the operator may replace at any
\* time by a new key, or by an old one when a deploy is rolled back.  It opens the
\* database and computes retire_previous_at before it waits for the lock.
Load(p, k) ==
  /\ proc[p].pc = "down"
  /\ proc' = [proc EXCEPT ![p] = [Down EXCEPT !.pc = "announcing", !.kid = k]]
  /\ UNCHANGED <<row, live, lock>>

\* Variant: the active key is read without the lock.
LockRotationUnheld(p) ==
  /\ proc[p].pc = "announcing"
  /\ \E k \in Previous :
       proc' = [proc EXCEPT ![p].pc = "locked", ![p].saw = k]
  /\ UNCHANGED <<row, live, lock>>

\* The advisory lock, and the active key as it is read under it: two statements, and one
\* action because nobody changes a key row without the lock.
LockRotation(p) ==
  /\ proc[p].pc = "announcing"
  /\ lock = None
  /\ lock' = p
  /\ \E k \in Previous :
       proc' = [proc EXCEPT ![p].pc = "locked", ![p].saw = k]
  /\ UNCHANGED <<row, live>>

\* Variant: the previous key is retired at the end of one token's life.
RetireThenInsertForOneToken(k, waited) ==
  row' = [j \in Kids |->
            CASE j = k -> [st |-> "active", left |-> 0]
              [] j # k /\ row[j].st = "active" -> [st |-> "retired", left |-> TTL - waited]
              [] OTHER -> row[j]]

\* UPDATE WHERE active, then INSERT.
RetireThenInsert(k, waited) ==
  row' = [j \in Kids |->
            CASE j = k -> [st |-> "active", left |-> 0]
              [] j # k /\ row[j].st = "active" -> [st |-> "retired", left |-> Overlap - waited]
              [] OTHER -> row[j]]

\* Variant: a retired key is made the active one again.
MayInsertRetired(k) == row[k].st # "active"

\* What is left to insert: refuse_retired_kid and the primary key.
MayInsert(k) == row[k].st = "absent"

\* The rest of the transaction, which releases the lock: the key is active already,
\* or it takes over, or it was retired and is refused by name, or the INSERT meets
\* a row of its own kid and the whole is rolled back.
Activate(p) ==
  LET k == proc[p].kid
      Serves    == proc' = [proc EXCEPT ![p] = [Down EXCEPT !.pc = "serving", !.kid = k]]
      Exits(pc) == proc' = [proc EXCEPT ![p] = [Down EXCEPT !.pc = pc]]
  IN
  /\ proc[p].pc = "locked"
  /\ lock' = IF lock = p THEN None ELSE lock
  /\ \/ /\ proc[p].saw = k
        /\ Serves
        /\ UNCHANGED row
     \/ /\ proc[p].saw # k
        /\ MayInsert(k)
        /\ RetireThenInsert(k, proc[p].clock)
        /\ Serves
     \/ /\ proc[p].saw # k
        /\ ~MayInsert(k)
        /\ Exits(IF row[k].st = "retired" THEN "refused" ELSE "unwell")
        /\ UNCHANGED row
  /\ UNCHANGED live

\* The replica dies, is stopped, or exits and is started again by its supervisor.
Stop(p) ==
  /\ proc[p].pc # "down"
  /\ proc' = [proc EXCEPT ![p] = Down]
  /\ lock' = IF lock = p THEN None ELSE lock
  /\ UNCHANGED <<row, live>>

Sign(p) ==
  /\ proc[p].pc = "serving"
  /\ live' = [live EXCEPT ![proc[p].kid] = TTL]
  /\ UNCHANGED <<row, proc, lock>>

-----------------------------------------------------------------------------
(* Time.                                                                    *)

\* An announcement is over within Boot, and a rollout replaces a replica within
\* Drain of the retirement of its key: the deployment, not the code, sees to both.
InTime(p) ==
  /\ proc[p].pc \in {"announcing", "locked"} => proc[p].clock < Boot
  /\ Lags(p) => proc[p].clock < Drain

Less(n) == IF n = 0 THEN 0 ELSE n - 1

Tick ==
  /\ \A p \in Processes : InTime(p)
  /\ row'  = [k \in Kids |-> [row[k] EXCEPT !.left = Less(row[k].left)]]
  /\ live' = [k \in Kids |-> Less(live[k])]
  /\ proc' = [p \in Processes |->
                IF proc[p].pc \in {"announcing", "locked"} \/ Lags(p)
                  THEN [proc[p] EXCEPT !.clock = proc[p].clock + 1] ELSE proc[p]]
  /\ UNCHANGED lock

Replica(p) == (\E k \in Kids : Load(p, k)) \/ LockRotation(p) \/ Activate(p) \/ Sign(p) \/ Stop(p)

KeysNext == Tick \/ (\E p \in Processes : Replica(p))

-----------------------------------------------------------------------------
(* What rotation promises.                                                  *)

\* As long as a token verifies, the key it was signed with is published, whichever
\* replica signed it and whenever its key was retired (ROTATION_OVERLAP,
\* publishable_signing_keys, and the announcement before the port is bound).
KeyOutlivesItsTokens == \A k \in Kids : live[k] > 0 => Published(k)

\* Replicas that start together, with one key or with two, never make each other's
\* announcement fail on a duplicate key, which is told as a database to wait for
\* (ensure_active_signing_key under ROTATION_LOCK_KEY).
ReplicasBootTogether == \A p \in Processes : proc[p].pc # "unwell"

\* A key that was retired is neither made active nor given more time, whatever is
\* announced afterwards (refuse_retired_kid, UPDATE WHERE active).
RetiredForGood ==
  [][\A k \in Kids : row[k].st = "retired" =>
       row'[k].st = "retired" /\ row'[k].left <= row[k].left]_keys
=============================================================================
