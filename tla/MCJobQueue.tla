----------------------------- MODULE MCJobQueue -----------------------------
(* Instances of JobQueue for TLC, and a statement of a doc of the           *)
(* repository that holds of one loop per process only.                        *)
EXTENDS JobQueue, TLC

CONSTANTS p1, p2, s1, s2, s3

\* Two processes, with two loops in the first and one in the second, and with one
\* loop in each.
Together == s1 :> p1 @@ s2 :> p1 @@ s3 :> p2
Pair     == s1 :> p1 @@ s2 :> p2

\* vpay-worker.md:113: "A worker whose lease was reaped mid-run discards its
\* answer instead of stamping it over whoever holds the job now".
StaleAnswerDiscarded ==
  \A s \in Slots : slot[s].pc = "settling" /\ Matches(s) => holder[slot[s].job] = s
=============================================================================
