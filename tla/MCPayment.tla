----------------------------- MODULE MCPayment -----------------------------
(* Instances of Payment for TLC: one intent at a time, since intents share no *)
(* row, on each kind of rail.                                                 *)
EXTENDS Payment, TLC

Symmetry == Permutations(Runners) \cup Permutations(Requests)
=============================================================================
