------------------------------ MODULE JobLease ------------------------------
(* What a handler may rely on of the queue its job is a row of, with no time, *)
(* lease, drain or process that starts and stops in sight: a row that is       *)
(* there is claimed by one loop, ended by a write of that loop's process, and  *)
(* given to another loop only when the first is no longer at work on it,       *)
(* unless the process of the first has stalled.                                *)

CONSTANTS
  Jobs,    \* job rows
  Loops,   \* claim loops
  Home     \* the name a loop's claims and settling writes carry: its process's

VARIABLES
  job,     \* no row, a row nobody holds, a dead letter, or the loop that claimed it
  at,      \* the job each loop has in hand, if any
  gone,    \* loops that died with their last write on its way to the row
  stalled  \* the names under which a handler has outlasted its lease

leased == <<job, at, gone, stalled>>

Init ==
  /\ job  \in [Jobs -> {"absent", "queued"}]
  /\ at   = [w \in Loops |-> {}]
  /\ gone = {}
  /\ stalled \subseteq {Home[w] : w \in Loops}

Held(j) == job[j] \in Loops

\* The loop that holds the row is at work on it.
Worked(j) == Held(j) /\ j \in at[job[j]] /\ job[j] \notin gone

Enqueue(S) ==
  /\ \A j \in S : job[j] = "absent"
  /\ job' = [j \in Jobs |-> IF j \in S THEN "queued" ELSE job[j]]
  /\ UNCHANGED <<at, gone, stalled>>

\* The loop hears of its claim, or has died and leaves a row that nobody works on.
Claim(w, j) ==
  /\ job[j] = "queued"
  /\ at[w] = {}
  /\ job' = [job EXCEPT ![j] = w]
  /\ at' \in {at, [at EXCEPT ![w] = {j}]}
  /\ UNCHANGED <<gone, stalled>>

\* The answer of a loop reaches a row that its process holds: no loop that is at work
\* on the row has it ended by another, unless that process has stalled.
Settle(w, j) ==
  /\ j \in at[w]
  /\ Held(j) /\ Home[job[j]] = Home[w]
  /\ Home[w] \in stalled \/ job[j] = w \/ ~Worked(j)
  /\ \E v \in {"absent", "queued", "parked"} : job' = [job EXCEPT ![j] = v]
  /\ at'   = [at EXCEPT ![w] = {}]
  /\ gone' = gone \ {w}
  /\ UNCHANGED stalled

\* Loops lose what they had in hand, by an answer that reached no row or by their
\* death; those of G die with a write on its way.
Leave(W, G) ==
  /\ W \cap G = {}
  /\ job'  = job
  /\ at'   = [w \in Loops |-> IF w \in W THEN {} ELSE at[w]]
  /\ gone' = (gone \cup {w \in G : at[w] # {}}) \ W
  /\ UNCHANGED stalled

\* The loops of W outlast their leases.
Stall(W) ==
  /\ stalled' = stalled \cup {Home[w] : w \in W}
  /\ UNCHANGED <<job, at, gone>>

\* Leases end.
Free(S) ==
  /\ \A j \in S : Held(j) /\ (Home[job[j]] \in stalled \/ ~Worked(j))
  /\ job' = [j \in Jobs |-> IF j \in S THEN "queued" ELSE job[j]]
  /\ UNCHANGED <<at, gone, stalled>>

Next ==
  \/ \E S \in SUBSET Jobs : Enqueue(S) \/ Free(S)
  \/ \E w \in Loops, j \in Jobs : Claim(w, j) \/ Settle(w, j)
  \/ \E W, G \in SUBSET Loops : Leave(W, G) \/ Stall(W)

Spec == Init /\ [][Next]_leased
=============================================================================
