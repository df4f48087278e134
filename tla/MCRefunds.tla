----------------------------- MODULE MCRefunds -----------------------------
(* Instances of Refunds for TLC. *)
EXTENDS Refunds, TLC
=============================================================================
