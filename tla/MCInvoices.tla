----------------------------- MODULE MCInvoices -----------------------------
(* Instances of Invoices for TLC, and a statement of the documents about the  *)
(* lines of an issued invoice that the code does not keep.                    *)
EXTENDS Invoices, Functions, TLC

Amount(bill) == FoldFunction(+, 0, bill)

\* "there is no instant at which the invoice is `open` with a total that does not
\* match its (now frozen) lines" (vpay-db/src/invoices.rs:1517-1518).
IssuedTotalIsItsLines == status \in Issued => Amount(due) = Amount(line)
=============================================================================
