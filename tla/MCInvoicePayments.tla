-------------------------- MODULE MCInvoicePayments --------------------------
(* Instances of InvoicePayments for TLC.                                      *)
EXTENDS InvoicePayments, TLC

CONSTANTS s1, s2, s3, p1, p2, p3

Symmetry == Permutations(Session) \cup Permutations(Payment)
==============================================================================
