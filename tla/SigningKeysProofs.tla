------------------------- MODULE SigningKeysProofs -------------------------
(*****************************************************************************)
(* What SigningKeys and TokenValidator promise for any number of keys,       *)
(* replicas and requests, and for all times that satisfy TimesAssumption.    *)
(* A retired key has time left for a whole token of every replica that may   *)
(* still sign with it: what Overlap exceeds TTL and Boot by is what Drain    *)
(* takes from it.                                                            *)
(*****************************************************************************)
EXTENDS TokenValidator, TLAPS

\* A key nobody has announced has signed nothing; a retired one outlasts its tokens.
RowOK(k) ==
  /\ row[k].st = "absent"  => live[k] = 0
  /\ row[k].st = "retired" => live[k] <= row[k].left

\* The key of a replica that serves leaves room for the last token it may sign.
SignerOK(p) ==
  LET k == proc[p].kid IN
  \/ row[k].st = "active" /\ proc[p].clock = 0
  \/ /\ row[k].st = "retired"
     /\ proc[p].clock <= Drain
     /\ TTL + Drain <= row[k].left + proc[p].clock

ProcOK(p) ==
  /\ proc[p].pc \in {"announcing", "locked", "serving"} => proc[p].kid \in Kids
  /\ proc[p].pc \in {"announcing", "locked"} => proc[p].clock <= Boot
  /\ proc[p].pc = "locked" =>
       /\ lock = p
       /\ \A k \in Kids : row[k].st = "active" <=> proc[p].saw = k
  /\ proc[p].pc = "serving" => SignerOK(p)
  /\ proc[p].pc # "unwell"

OneActive == \A j, k \in Kids : row[j].st = "active" /\ row[k].st = "active" => j = k

KeysInv ==
  /\ KeysTypeOK
  /\ OneActive
  /\ \A k \in Kids : RowOK(k)
  /\ \A p \in Processes : ProcOK(p)

\* How a row may change.
Onward ==
  \A k \in Kids :
    /\ row[k].st # "absent" => row'[k].st # "absent"
    /\ row[k].st = "retired" => row'[k].st = "retired" /\ row'[k].left <= row[k].left

USE TimesAssumption, NoneAssumption

LEMMA KeysInitInv == KeysInit => KeysInv
BY DEF KeysInit, KeysInv, KeysTypeOK, OneActive, RowOK, ProcOK, Row, Process, Down

LEMMA RowsStay == ASSUME KeysInv, UNCHANGED row PROVE Onward
BY DEF KeysInv, KeysTypeOK, Row, Onward

LEMMA LoadKeeps ==
  ASSUME KeysInv, NEW p \in Processes, NEW k \in Kids, Load(p, k)
  PROVE  KeysInv' /\ Onward
<1>1. KeysTypeOK'
  BY DEF KeysInv, KeysTypeOK, Load, Process, Down
<1>2. \A q \in Processes : ProcOK(q)'
  BY DEF KeysInv, KeysTypeOK, ProcOK, SignerOK, Load, Process, Down
<1> QED
  BY <1>1, <1>2, RowsStay DEF KeysInv, OneActive, RowOK, Load

LEMMA LockRotationKeeps ==
  ASSUME KeysInv, NEW p \in Processes, LockRotation(p)
  PROVE  KeysInv' /\ Onward
<1>1. PICK k \in Previous : proc' = [proc EXCEPT ![p].pc = "locked", ![p].saw = k]
  BY DEF LockRotation
<1>2. k \in Kids \cup {None} /\ \A j \in Kids : row[j].st = "active" <=> k = j
  <2>1. CASE Active = {}
    BY <1>1, <2>1 DEF Previous, Active
  <2>2. CASE Active # {}
    <3>1. k \in Kids /\ row[k].st = "active"
      BY <1>1, <2>2 DEF Previous, Active
    <3> QED
      BY <3>1 DEF KeysInv, OneActive
  <2> QED
    BY <2>1, <2>2
<1>3. KeysTypeOK'
  <2>1. [proc[p] EXCEPT !.pc = "locked", !.saw = k] \in Process
    BY <1>2 DEF KeysInv, KeysTypeOK, Process
  <2>2. proc' = [proc EXCEPT ![p] = [proc[p] EXCEPT !.pc = "locked", !.saw = k]]
    BY <1>1 DEF KeysInv, KeysTypeOK
  <2> QED
    BY <2>1, <2>2 DEF KeysInv, KeysTypeOK, LockRotation
<1>4. \A q \in Processes : ProcOK(q)'
  BY <1>1, <1>2 DEF KeysInv, KeysTypeOK, ProcOK, SignerOK, LockRotation, Process
<1> QED
  BY <1>3, <1>4, RowsStay DEF KeysInv, OneActive, RowOK, LockRotation

LEMMA ActivateKeeps ==
  ASSUME KeysInv, NEW p \in Processes, Activate(p)
  PROVE  KeysInv' /\ Onward
<1> DEFINE k == proc[p].kid
<1>1. /\ k \in Kids /\ proc[p].clock \in 0..Boot /\ lock = p /\ lock' = None
      /\ \A j \in Kids : row[j].st = "active" <=> proc[p].saw = j
      /\ \A q \in Processes \ {p} : proc[q].pc # "locked"
      /\ UNCHANGED live
  BY DEF KeysInv, KeysTypeOK, Process, ProcOK, Activate
<1>2. CASE /\ proc[p].saw = k /\ UNCHANGED row
           /\ proc' = [proc EXCEPT ![p] = [Down EXCEPT !.pc = "serving", !.kid = k]]
  <2>1. KeysTypeOK'
    BY <1>1, <1>2 DEF KeysInv, KeysTypeOK, Process, Down
  <2>2. \A q \in Processes : ProcOK(q)'
    BY <1>1, <1>2 DEF KeysInv, KeysTypeOK, ProcOK, SignerOK, Process, Down
  <2> QED
    BY <1>1, <1>2, <2>1, <2>2, RowsStay DEF KeysInv, OneActive, RowOK
<1>3. CASE /\ row[k].st = "absent" /\ RetireThenInsert(k, proc[p].clock)
           /\ proc' = [proc EXCEPT ![p] = [Down EXCEPT !.pc = "serving", !.kid = k]]
  <2>1. /\ row' \in [Kids -> Row]
        /\ row'[k] = [st |-> "active", left |-> 0]
        /\ \A j \in Kids \ {k} : row[j].st = "active" =>
             row'[j].st = "retired" /\ row'[j].left = Overlap - proc[p].clock
        /\ \A j \in Kids \ {k} : row[j].st # "active" => row'[j] = row[j]
    BY <1>1, <1>3 DEF KeysInv, KeysTypeOK, Row, RetireThenInsert
  <2>2. KeysTypeOK'
    BY <1>1, <1>3, <2>1 DEF KeysInv, KeysTypeOK, Process, Down
  <2>3. OneActive'
    BY <2>1, <1>1 DEF KeysInv, KeysTypeOK, Row, OneActive
  <2>4. \A j \in Kids : RowOK(j)'
    BY <2>1, <1>1 DEF KeysInv, KeysTypeOK, Row, RowOK
  <2>5. ProcOK(p)'
    BY <1>1, <1>3, <2>1 DEF KeysInv, KeysTypeOK, ProcOK, SignerOK, Process, Down
  <2>6. ASSUME NEW q \in Processes \ {p} PROVE ProcOK(q)'
    <3>1. proc'[q] = proc[q] /\ proc[q].clock \in Nat /\ proc[q].pc # "locked"
      BY <1>1, <1>3 DEF KeysInv, KeysTypeOK, Process
    <3>2. ASSUME proc[q].pc = "serving" PROVE SignerOK(q)'
      <4>1. SignerOK(q) /\ proc[q].kid \in Kids
        BY <3>2 DEF KeysInv, ProcOK
      <4>2. CASE row[proc[q].kid].st = "active"
        <5>1. proc[q].kid # k
          BY <1>3, <4>2
        <5>2. row'[proc[q].kid].st = "retired" /\ TTL + Drain <= row'[proc[q].kid].left
          <6>1. row'[proc[q].kid].st = "retired" /\ row'[proc[q].kid].left = Overlap - proc[p].clock
            BY <2>1, <4>1, <4>2, <5>1
          <6>2. TTL + Drain <= Overlap - proc[p].clock
            BY <1>1
          <6> QED
            BY <6>1, <6>2
        <5>3. proc[q].clock = 0
          BY <4>1, <4>2 DEF SignerOK
        <5>4. row'[proc[q].kid].left \in Nat
          BY <2>1, <4>1 DEF Row
        <5>5. TTL + Drain <= row'[proc[q].kid].left + 0 /\ 0 <= Drain
          BY <5>2, <5>4
        <5> QED
          BY <3>1, <5>2, <5>3, <5>5 DEF SignerOK
      <4>3. CASE row[proc[q].kid].st = "retired"
        BY <1>3, <2>1, <3>1, <4>1, <4>3 DEF SignerOK
      <4> QED
        BY <4>1, <4>2, <4>3 DEF SignerOK
    <3> QED
      BY <3>1, <3>2 DEF KeysInv, ProcOK
  <2>7. Onward
    BY <2>1, <1>1, <1>3 DEF KeysInv, KeysTypeOK, Row, Onward
  <2> QED
    BY <2>2, <2>3, <2>4, <2>5, <2>6, <2>7 DEF KeysInv
<1>4. CASE /\ proc[p].saw # k /\ ~MayInsert(k) /\ UNCHANGED row
           /\ proc' = [proc EXCEPT ![p] = [Down EXCEPT !.pc =
                         IF row[k].st = "retired" THEN "refused" ELSE "unwell"]]
  <2>1. row[k].st = "retired"
    BY <1>1, <1>4 DEF KeysInv, KeysTypeOK, Row, MayInsert
  <2>2. KeysTypeOK'
    BY <1>1, <1>4, <2>1 DEF KeysInv, KeysTypeOK, Process, Down
  <2>3. \A q \in Processes : ProcOK(q)'
    BY <1>1, <1>4, <2>1 DEF KeysInv, KeysTypeOK, ProcOK, SignerOK, Process, Down
  <2> QED
    BY <1>1, <1>4, <2>2, <2>3, RowsStay DEF KeysInv, OneActive, RowOK
<1> QED
  BY <1>2, <1>3, <1>4 DEF Activate, MayInsert

LEMMA StopKeeps ==
  ASSUME KeysInv, NEW p \in Processes, Stop(p)
  PROVE  KeysInv' /\ Onward
<1>1. KeysTypeOK'
  BY DEF KeysInv, KeysTypeOK, Stop, Process, Down
<1>2. \A q \in Processes : ProcOK(q)'
  BY DEF KeysInv, KeysTypeOK, ProcOK, SignerOK, Stop, Process, Down
<1> QED
  BY <1>1, <1>2, RowsStay DEF KeysInv, OneActive, RowOK, Stop

LEMMA SignKeeps ==
  ASSUME KeysInv, NEW p \in Processes, Sign(p)
  PROVE  KeysInv' /\ Onward
<1>1. KeysTypeOK'
  <2>1. TTL \in 0..TTL
    OBVIOUS
  <2> QED
    BY <2>1 DEF KeysInv, KeysTypeOK, Sign
<1>2. ASSUME NEW k \in Kids PROVE RowOK(k)'
  <2>1. row' = row /\ RowOK(k) /\ row[k] \in Row /\ proc[p] \in Process
    BY DEF KeysInv, KeysTypeOK, Sign
  <2>2. CASE k = proc[p].kid
    <3>1. live'[k] = TTL
      BY <2>2 DEF Sign, KeysInv, KeysTypeOK
    <3> QED
      BY <2>1, <2>2, <3>1 DEF KeysInv, ProcOK, SignerOK, RowOK, Row, Process, Sign
  <2>3. CASE k # proc[p].kid
    BY <2>1, <2>3 DEF RowOK, Sign, KeysInv, KeysTypeOK
  <2> QED
    BY <2>2, <2>3
<1> QED
  BY <1>1, <1>2, RowsStay DEF KeysInv, KeysTypeOK, OneActive, ProcOK, SignerOK, Sign

LEMMA TickKeeps ==
  ASSUME KeysInv, Tick
  PROVE  KeysInv' /\ Onward
<1>1. \A n \in Nat : Less(n) \in Nat /\ Less(n) <= n /\ (n > 0 => Less(n) = n - 1)
  BY DEF Less
<1>2. \A k \in Kids : /\ row'[k].st = row[k].st
                      /\ row'[k].left = Less(row[k].left) /\ live'[k] = Less(live[k])
  BY DEF Tick, KeysInv, KeysTypeOK, Row
<1>3. \A k \in Kids : row[k].left \in Nat /\ row[k].left <= Overlap
                      /\ live[k] \in Nat /\ live[k] <= TTL
  <2> SUFFICES ASSUME NEW k \in Kids
               PROVE  /\ row[k].left \in Nat /\ row[k].left <= Overlap
                      /\ live[k] \in Nat /\ live[k] <= TTL
    OBVIOUS
  <2>1. row[k].left \in 0..Overlap /\ live[k] \in 0..TTL
    BY DEF KeysInv, KeysTypeOK, Row
  <2> QED
    BY <2>1
<1>4. row' \in [Kids -> Row] /\ live' \in [Kids -> 0..TTL]
  <2>1. ASSUME NEW k \in Kids
        PROVE  [row[k] EXCEPT !.left = Less(row[k].left)] \in Row /\ Less(live[k]) \in 0..TTL
    <3>1. Less(row[k].left) \in 0..Overlap /\ Less(live[k]) \in 0..TTL
      BY <1>3 DEF Less
    <3>2. row[k] \in Row
      BY DEF KeysInv, KeysTypeOK
    <3> QED
      BY <3>1, <3>2 DEF Row
  <2> QED
    BY <2>1 DEF Tick
<1>5. \A p \in Processes :
        /\ proc'[p] \in Process /\ proc'[p].pc = proc[p].pc
        /\ proc'[p].kid = proc[p].kid /\ proc'[p].saw = proc[p].saw
        /\ IF proc[p].pc \in {"announcing", "locked"} \/ Lags(p)
             THEN proc'[p].clock = proc[p].clock + 1 ELSE proc'[p].clock = proc[p].clock
  <2> SUFFICES ASSUME NEW p \in Processes
               PROVE  /\ proc'[p] \in Process /\ proc'[p].pc = proc[p].pc
                      /\ proc'[p].kid = proc[p].kid /\ proc'[p].saw = proc[p].saw
                      /\ IF proc[p].pc \in {"announcing", "locked"} \/ Lags(p)
                           THEN proc'[p].clock = proc[p].clock + 1
                           ELSE proc'[p].clock = proc[p].clock
    OBVIOUS
  <2>1. proc[p] \in Process
    BY DEF KeysInv, KeysTypeOK
  <2>2. proc'[p] = IF proc[p].pc \in {"announcing", "locked"} \/ Lags(p)
                     THEN [proc[p] EXCEPT !.clock = proc[p].clock + 1] ELSE proc[p]
    BY DEF Tick
  <2> QED
    BY <2>1, <2>2 DEF Process
<1>6. KeysTypeOK'
  BY <1>4, <1>5 DEF Tick, KeysInv, KeysTypeOK
<1>7. \A k \in Kids : RowOK(k)'
  <2> SUFFICES ASSUME NEW k \in Kids PROVE RowOK(k)'
    OBVIOUS
  <2>1. row[k].left \in Nat /\ live[k] \in Nat /\ RowOK(k)
    BY <1>3 DEF KeysInv
  <2> QED
    BY <1>2, <2>1 DEF RowOK, Less
<1>8. ASSUME NEW p \in Processes PROVE ProcOK(p)'
  <2>1. ProcOK(p) /\ InTime(p) /\ proc[p].clock \in Nat /\ lock' = lock
    BY DEF KeysInv, KeysTypeOK, Process, Tick
  <2>2. ASSUME proc[p].pc = "serving" PROVE SignerOK(p)'
    <3> DEFINE k == proc[p].kid
    <3>1. k \in Kids /\ SignerOK(p)
      BY <2>1, <2>2 DEF ProcOK
    <3>2. CASE row[k].st = "active" /\ proc[p].clock = 0
      BY <1>2, <1>5, <2>2, <3>1, <3>2 DEF Lags, SignerOK
    <3>3. CASE /\ row[k].st = "retired" /\ proc[p].clock <= Drain
               /\ TTL + Drain <= row[k].left + proc[p].clock
      <4>1. Lags(p) /\ proc[p].clock < Drain /\ proc'[p].clock = proc[p].clock + 1
        BY <1>5, <2>1, <2>2, <3>3 DEF Lags, InTime
      <4>2. row'[k].left = row[k].left - 1
        BY <1>1, <1>2, <1>3, <2>1, <3>1, <3>3, <4>1
      <4> QED
        BY <1>2, <1>3, <1>5, <2>1, <3>1, <3>3, <4>1, <4>2 DEF SignerOK
    <3> QED
      BY <3>1, <3>2, <3>3 DEF SignerOK
  <2> QED
    BY <1>2, <1>5, <2>1, <2>2 DEF ProcOK, InTime
<1>9. OneActive' /\ Onward
  BY <1>1, <1>2, <1>3 DEF KeysInv, OneActive, Onward
<1> QED
  BY <1>6, <1>7, <1>8, <1>9 DEF KeysInv

LEMMA KeysKeep ==
  ASSUME KeysInv, [KeysNext]_keys
  PROVE  KeysInv' /\ Onward
<1>1. CASE UNCHANGED keys
  BY <1>1, RowsStay DEF keys, KeysInv, KeysTypeOK, OneActive, RowOK, ProcOK, SignerOK
<1> QED
  BY <1>1, LoadKeeps, LockRotationKeeps, ActivateKeeps, StopKeeps, SignKeeps,
     TickKeeps DEF KeysNext, Replica

-----------------------------------------------------------------------------
(* The validator.                                                            *)

\* A genuine token has a key; the document of a fetch under way has it too, or no
\* token of that key verifies any more.
RequestOK(r) ==
  /\ req[r].pc # "idle" => req[r].kid \in Kids
  /\ req[r].pc = "read" => req[r].at = "resolve"
  /\ req[r].kid \in Kids /\ req[r].genuine => row[req[r].kid].st # "absent"
  /\ req[r].pc = "fetch" /\ req[r].genuine =>
       \/ req[r].kid \in req[r].doc
       \/ row[req[r].kid].st = "retired" /\ row[req[r].kid].left = 0

ValidatorInv == TypeOK /\ KeysInv /\ \A r \in Requests : RequestOK(r)

LEMMA InitInv == Init => ValidatorInv
BY KeysInitInv DEF Init, ValidatorInit, ValidatorInv, TypeOK, KeysInv, RequestOK, Idle, Request

LEMMA KeysStep ==
  ASSUME ValidatorInv, [KeysNext]_keys, UNCHANGED validator
  PROVE  ValidatorInv'
<1>1. KeysInv' /\ Onward
  BY KeysKeep DEF ValidatorInv
<1>2. TypeOK'
  BY <1>1 DEF ValidatorInv, TypeOK, validator, KeysInv
<1>3. ASSUME NEW r \in Requests PROVE RequestOK(r)'
  BY <1>1 DEF ValidatorInv, TypeOK, Request, RequestOK, Onward, validator, KeysInv, KeysTypeOK, Row
<1> QED
  BY <1>1, <1>2, <1>3 DEF ValidatorInv

\* What the steps of the validator leave of the keys.
LEMMA KeysStay ==
  ASSUME ValidatorInv, UNCHANGED keys
  PROVE  KeysInv' /\ KeysTypeOK'
BY KeysKeep DEF ValidatorInv, KeysInv

LEMMA EnterKeeps ==
  ASSUME ValidatorInv, UNCHANGED keys, NEW r \in Requests, NEW x \in Request,
         NEW pc \in {"read", "wait", "claim", "unknown"}, NEW at \in {"check", "resolve", "forced"},
         pc = "read" => at = "resolve",
         x.kid \in Kids, x.genuine => row[x.kid].st # "absent", Enter(r, x, pc, at)
  PROVE  req' \in [Requests -> Request] /\ \A q \in Requests : RequestOK(q)'
<1>1. /\ req'[r] = [x EXCEPT !.pc = pc, !.at = at, !.doc = {}]
      /\ \A q \in Requests \ {r} : req'[q] = req[q]
      /\ req' \in [Requests -> Request]
  BY DEF Enter, ValidatorInv, TypeOK, Request
<1>2. RequestOK(r)'
  BY <1>1 DEF keys, RequestOK, Request
<1>3. ASSUME NEW q \in Requests \ {r} PROVE RequestOK(q)'
  BY <1>1 DEF keys, ValidatorInv, RequestOK
<1> QED
  BY <1>1, <1>2, <1>3

LEMMA IdleKeeps ==
  ASSUME ValidatorInv, UNCHANGED keys, NEW r \in Requests, req' = [req EXCEPT ![r] = Idle]
  PROVE  req' \in [Requests -> Request] /\ \A q \in Requests : RequestOK(q)'
<1>1. /\ req'[r] = Idle
      /\ \A q \in Requests \ {r} : req'[q] = req[q]
      /\ req' \in [Requests -> Request]
  BY DEF ValidatorInv, TypeOK, Request, Idle
<1>2. ASSUME NEW q \in Requests PROVE RequestOK(q)'
  BY <1>1 DEF keys, ValidatorInv, RequestOK, Idle
<1> QED
  BY <1>1, <1>2

LEMMA LookUpKeeps ==
  ASSUME ValidatorInv, UNCHANGED keys, NEW r \in Requests, NEW x \in Request, NEW doc,
         x.kid \in Kids, x.genuine => row[x.kid].st # "absent", LookUp(r, x, doc)
  PROVE  /\ req' \in [Requests -> Request]
         /\ known' \subseteq Kids
         /\ \A q \in Requests : RequestOK(q)'
         /\ \A q \in Requests \ {r} : req'[q] = req[q]
         /\ req'[r].pc = "unknown" => x.at = "forced" /\ x.kid \notin doc
<1>1. known' \subseteq Kids
  BY DEF LookUp, ValidatorInv, TypeOK
<1>2. CASE x.kid \in doc /\ x.at = "check" /\ Enter(r, x, "read", "resolve")
  BY <1>1, <1>2, EnterKeeps DEF Enter, ValidatorInv, TypeOK, Request
<1>3. CASE x.kid \in doc /\ x.at # "check" /\ req' = [req EXCEPT ![r] = Idle]
  BY <1>1, <1>3, IdleKeeps DEF ValidatorInv, TypeOK, Idle
<1>4. CASE x.kid \notin doc
  <2>1. \/ x.at = "check" /\ Enter(r, x, "claim", "check")
        \/ x.at = "resolve" /\ Enter(r, x, "wait", "forced")
        \/ x.at = "forced" /\ Enter(r, x, "unknown", "forced")
    BY <1>4 DEF LookUp, Request
  <2>2. CASE x.at = "check" /\ Enter(r, x, "claim", "check")
    BY <1>1, <1>4, <2>2, EnterKeeps DEF Enter, ValidatorInv, TypeOK, Request
  <2>3. CASE x.at = "resolve" /\ Enter(r, x, "wait", "forced")
    BY <1>1, <1>4, <2>3, EnterKeeps DEF Enter, ValidatorInv, TypeOK, Request
  <2>4. CASE x.at = "forced" /\ Enter(r, x, "unknown", "forced")
    BY <1>1, <1>4, <2>4, EnterKeeps DEF Enter, ValidatorInv, TypeOK, Request
  <2> QED
    BY <2>1, <2>2, <2>3, <2>4
<1> QED
  BY <1>1, <1>2, <1>3, <1>4 DEF LookUp

LEMMA ReadCacheKeeps ==
  ASSUME ValidatorInv, NEW r \in Requests, NEW x \in Request, x.kid \in Kids,
         x.at # "forced", x.genuine => row[x.kid].st # "absent", ReadCache(r, x)
  PROVE  /\ ValidatorInv'
         /\ \A q \in Requests \ {r} : req'[q] = req[q]
         /\ req'[r].pc # "unknown"
<1>1. UNCHANGED <<keys, cache, permit, guard>> /\ KeysInv' /\ KeysTypeOK'
  BY KeysStay DEF ReadCache
<1>2. CASE LookUp(r, x, cache.doc)
  BY <1>1, <1>2, LookUpKeeps DEF ValidatorInv, TypeOK
<1>3. CASE Enter(r, x, "wait", x.at) /\ UNCHANGED known
  <2>1. x.at \in {"check", "resolve", "forced"}
    BY DEF Request
  <2> QED
    BY <1>1, <1>3, <2>1, EnterKeeps DEF Enter, ValidatorInv, TypeOK, Request
<1> QED
  BY <1>2, <1>3 DEF ReadCache

\* A step of one request, and what it says of an answer that the key is unknown.
Moved(r) ==
  /\ ValidatorInv'
  /\ \A q \in Requests \ {r} : req'[q] = req[q]
  /\ req'[r].pc = "unknown" => ~(req[r].genuine /\ live[req[r].kid] > 0)

LEMMA PresentMoves ==
  ASSUME ValidatorInv, NEW r \in Requests, NEW k \in Kids, Present(r, k)
  PROVE  Moved(r)
<1> DEFINE x == [Idle EXCEPT !.at = IF k \in known THEN "resolve" ELSE "check",
                             !.kid = k, !.genuine = live[k] > 0]
<1> DEFINE b == live[k] > 0
           at == IF k \in known THEN "resolve" ELSE "check"
<1>0. /\ x = [Idle EXCEPT !.at = at, !.kid = k, !.genuine = b]
      /\ b \in BOOLEAN /\ at \in {"check", "resolve"} /\ (b <=> live[k] > 0)
  OBVIOUS
<1> HIDE DEF b, at
<1>1. x.pc = "idle" /\ x.kid = k /\ x.genuine = b /\ x.at = at /\ x \in Request
  BY <1>0 DEF Idle, Request
<1>3. x.genuine => row[k].st # "absent"
  BY <1>0, <1>1 DEF ValidatorInv, KeysInv, RowOK
<1>4. ReadCache(r, x)
  BY DEF Present
<1> HIDE DEF x
<1> QED
  BY <1>0, <1>1, <1>3, <1>4, ReadCacheKeeps DEF Moved

LEMMA ResolveMoves ==
  ASSUME ValidatorInv, NEW r \in Requests, Resolve(r)
  PROVE  Moved(r)
<1>1. req[r] \in Request /\ req[r].kid \in Kids /\ req[r].at = "resolve"
      /\ (req[r].genuine => row[req[r].kid].st # "absent")
  BY DEF ValidatorInv, TypeOK, RequestOK, Resolve
<1> QED
  BY <1>1, ReadCacheKeeps DEF Resolve, Moved

LEMMA ClaimMoves ==
  ASSUME ValidatorInv, NEW r \in Requests, ClaimRefresh(r)
  PROVE  Moved(r)
<1>1. KeysInv' /\ KeysTypeOK' /\ UNCHANGED <<keys, cache, known, guard>> /\ permit' \in BOOLEAN
  BY KeysStay DEF ClaimRefresh
<1>2. req[r] \in Request /\ req[r].kid \in Kids
      /\ (req[r].genuine => row[req[r].kid].st # "absent")
  BY DEF ValidatorInv, TypeOK, RequestOK, ClaimRefresh
<1>3. CASE Enter(r, req[r], "read", "resolve")
  BY <1>1, <1>2, <1>3, EnterKeeps DEF Enter, ValidatorInv, TypeOK, Request, Moved
<1>4. CASE req' = [req EXCEPT ![r] = Idle]
  BY <1>1, <1>4, IdleKeeps DEF ValidatorInv, TypeOK, Moved, Idle
<1> QED
  BY <1>3, <1>4 DEF ClaimRefresh

LEMMA TakeGuardMoves ==
  ASSUME ValidatorInv, NEW r \in Requests, TakeGuard(r)
  PROVE  Moved(r)
<1>1. KeysInv' /\ KeysTypeOK' /\ UNCHANGED <<keys, cache, permit>>
  BY KeysStay DEF TakeGuard
<1>2. req[r] \in Request /\ req[r].kid \in Kids
      /\ (req[r].genuine => row[req[r].kid].st # "absent")
  BY DEF ValidatorInv, TypeOK, RequestOK, TakeGuard
<1>3. CASE guard' = r /\ req' = [req EXCEPT ![r].pc = "fetch", ![r].doc = Document]
           /\ UNCHANGED known
  <2>1. /\ req'[r] = [req[r] EXCEPT !.pc = "fetch", !.doc = Document]
        /\ \A q \in Requests \ {r} : req'[q] = req[q]
        /\ req' \in [Requests -> Request]
    BY <1>2, <1>3 DEF ValidatorInv, TypeOK, Request, Document
  <2>2. row[req[r].kid].st \in {"absent", "active", "retired"} /\ row[req[r].kid].left \in Nat
    BY <1>2 DEF ValidatorInv, KeysInv, KeysTypeOK, Row
  <2>3. RequestOK(r)'
    BY <1>1, <1>2, <2>1, <2>2 DEF keys, RequestOK, Request, Document, Published
  <2>4. ASSUME NEW q \in Requests \ {r} PROVE RequestOK(q)'
    BY <1>1, <2>1 DEF keys, ValidatorInv, RequestOK
  <2> QED
    BY <1>1, <1>2, <1>3, <2>1, <2>3, <2>4 DEF ValidatorInv, TypeOK, Moved, Request
<1>4. CASE ~MustFetch(r) /\ LookUp(r, req[r], cache.doc) /\ UNCHANGED guard
  BY <1>1, <1>2, <1>4, LookUpKeeps DEF ValidatorInv, TypeOK, MustFetch, Moved
<1> QED
  BY <1>3, <1>4 DEF TakeGuard

LEMMA StoreMoves ==
  ASSUME ValidatorInv, NEW r \in Requests, Store(r)
  PROVE  Moved(r)
<1>1. KeysInv' /\ KeysTypeOK' /\ UNCHANGED <<keys, permit>>
  BY KeysStay DEF Store
<1>2. /\ req[r] \in Request /\ req[r].kid \in Kids
      /\ req[r].genuine => row[req[r].kid].st # "absent"
      /\ req[r].genuine =>
           \/ req[r].kid \in req[r].doc
           \/ row[req[r].kid].st = "retired" /\ row[req[r].kid].left = 0
  BY DEF ValidatorInv, TypeOK, RequestOK, Store
<1>3. req[r].genuine /\ live[req[r].kid] > 0 => req[r].kid \in req[r].doc
  BY <1>2 DEF ValidatorInv, KeysInv, KeysTypeOK, RowOK
<1>4. LookUp(r, req[r], req[r].doc)
  BY DEF Store
<1>5. guard' = None /\ cache' \in [doc: SUBSET Kids, fresh: BOOLEAN]
  BY <1>2 DEF Store, Request
<1> QED
  BY <1>1, <1>2, <1>3, <1>4, <1>5, LookUpKeeps DEF ValidatorInv, TypeOK, Moved

LEMMA EndMoves ==
  ASSUME ValidatorInv, NEW r \in Requests, FetchFails(r) \/ Reject(r)
  PROVE  Moved(r)
<1>1. /\ UNCHANGED <<keys, cache, known, permit>> /\ req' = [req EXCEPT ![r] = Idle]
      /\ guard' \in {guard, None} /\ KeysInv' /\ KeysTypeOK'
  BY KeysStay DEF FetchFails, Reject
<1> QED
  BY <1>1, IdleKeeps DEF ValidatorInv, TypeOK, Moved, Idle

LEMMA ServeMoves ==
  ASSUME ValidatorInv, NEW r \in Requests, Serve(r)
  PROVE  Moved(r)
BY PresentMoves, ResolveMoves, ClaimMoves, TakeGuardMoves, StoreMoves, EndMoves DEF Serve

LEMMA OthersKeep ==
  ASSUME ValidatorInv, EntryAges \/ PermitReturns \/ Restart
  PROVE  ValidatorInv' /\ UNCHANGED keys
         /\ \A r \in Requests : req'[r].pc = "unknown" => req[r].pc = "unknown"
<1>1. UNCHANGED keys /\ KeysInv' /\ KeysTypeOK'
  BY KeysStay DEF EntryAges, PermitReturns, Restart
<1>2. CASE EntryAges \/ PermitReturns
  BY <1>1, <1>2 DEF keys, EntryAges, PermitReturns, ValidatorInv, TypeOK, RequestOK
<1>3. CASE Restart
  BY <1>1, <1>3 DEF Restart, ValidatorInv, TypeOK, RequestOK, Idle, Request
<1> QED
  BY <1>2, <1>3

LEMMA NextKeeps == ASSUME ValidatorInv, [Next]_vars PROVE ValidatorInv'
<1>1. CASE [KeysNext]_keys /\ UNCHANGED validator
  BY <1>1, KeysStep
<1>2. CASE \E r \in Requests : Serve(r)
  BY <1>2, ServeMoves DEF Moved
<1> QED
  BY <1>1, <1>2, OthersKeep DEF Next, vars

LEMMA Always == Spec => []ValidatorInv
BY InitInv, NextKeeps, PTL DEF Spec

(* The rows, the replicas and the validator keep their types. *)
THEOREM SigningTypes == Spec => []TypeOK
BY Always, PTL DEF ValidatorInv

(* While a token verifies its key is published, for every ROTATION_OVERLAP that covers *)
(* the life of a token, a slow announcement and a replica that is slow to go.          *)
THEOREM TokensAreVerifiable == Spec => []KeyOutlivesItsTokens
<1>1. ValidatorInv => KeyOutlivesItsTokens
  BY DEF ValidatorInv, KeysInv, KeysTypeOK, Row, RowOK, KeyOutlivesItsTokens, Published
<1> QED
  BY <1>1, Always, PTL

(* No announcement fails on another's (ensure_active_signing_key under the lock). *)
THEOREM AnnouncementsDoNotClash == Spec => []ReplicasBootTogether
<1>1. ValidatorInv => ReplicasBootTogether
  BY DEF ValidatorInv, KeysInv, ProcOK, ReplicasBootTogether
<1> QED
  BY <1>1, Always, PTL

(* A retired key is never brought back (refuse_retired_kid). *)
THEOREM RetirementIsFinal == Spec => RetiredForGood
<1>1. ValidatorInv /\ [Next]_vars =>
        [\A k \in Kids : row[k].st = "retired" =>
           row'[k].st = "retired" /\ row'[k].left <= row[k].left]_keys
  <2> SUFFICES ASSUME ValidatorInv, [Next]_vars, keys' # keys
               PROVE  Onward
    BY DEF Onward
  <2>1. [KeysNext]_keys
    <3>1. ASSUME NEW r \in Requests, Serve(r) PROVE UNCHANGED keys
      BY <3>1 DEF Serve, Present, Resolve, ReadCache, ClaimRefresh, TakeGuard, Store, FetchFails,
         Reject
    <3> QED
      BY <3>1, OthersKeep DEF Next, vars
  <2> QED
    BY <2>1, KeysKeep DEF ValidatorInv
<1> QED
  BY <1>1, Always, PTL DEF Spec, RetiredForGood

(* A genuine token that reaches the forced refresh finds its key (get_key, refresh). *)
THEOREM GenuineTokensFindTheirKey == Spec => GenuineIsKnown
<1>1. ValidatorInv /\ [Next]_vars =>
        [\A r \in Requests :
           req[r].pc # "unknown" /\ req'[r].pc = "unknown" =>
             ~(req[r].genuine /\ live[req[r].kid] > 0)]_vars
  <2> SUFFICES ASSUME ValidatorInv, Next, NEW r \in Requests,
                      req[r].pc # "unknown", req'[r].pc = "unknown"
               PROVE  ~(req[r].genuine /\ live[req[r].kid] > 0)
    OBVIOUS
  <2>1. PICK q \in Requests : Serve(q)
    BY OthersKeep DEF Next, validator
  <2>2. q = r
    BY <2>1, ServeMoves DEF Moved
  <2> QED
    BY <2>1, <2>2, ServeMoves DEF Moved
<1> QED
  BY <1>1, Always, PTL DEF Spec, GenuineIsKnown
=============================================================================
