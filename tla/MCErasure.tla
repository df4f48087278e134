----------------------------- MODULE MCErasure -----------------------------
(* Instances of Erasure for TLC. *)
EXTENDS Erasure, TLC
=============================================================================
