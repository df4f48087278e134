----------------------------- MODULE MCWebhooks -----------------------------
(* An instance of Webhooks for TLC, and what a doc of the repository says of *)
(* the erasure of a customer.                                                *)
EXTENDS Webhooks, TLC

CONSTANTS w1, w2

\* outbox-transactions.md:103: the digests are cleared "in the same transaction —
\* and the next attempt signs and sends the redacted body", so that no delivery is
\* dead-lettered for it.
ErasureNeverDeadLetters == \A e \in Endpoints : job[e] # "parked"
=============================================================================
