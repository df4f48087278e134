--------------------------- MODULE MCIdempotency ---------------------------
(* Instances of Idempotency for TLC. *)
EXTENDS Idempotency, TLC

CONSTANTS r1, r2, r3, a, b

\* Retries of one request, and one with another body under the same key.
OneOther == r1 :> a @@ r2 :> a @@ r3 :> b
=============================================================================
