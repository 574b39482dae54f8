--------------------------- MODULE MCBankBooking ---------------------------
(* Instances of BankBooking for TLC. *)
EXTENDS BankBooking, TLC

Symmetry == Permutations(Worker)
=============================================================================
