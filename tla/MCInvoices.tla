----------------------------- MODULE MCInvoices -----------------------------
(* Instances of Invoices for TLC. *)
EXTENDS Invoices, TLC

\* Workers and invoice ids are interchangeable.
Symmetry == Permutations(Worker) \cup Permutations(Inv)
=============================================================================
