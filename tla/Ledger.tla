------------------------------- MODULE Ledger -------------------------------
(***************************************************************************)
(* Package ledger: amounts, the lines of a voucher, Validate and Reverse.  *)
(* Amounts are integers of the machine's width: every sum and product that *)
(* the code computes in an int64 goes through Wrap.  BAS account numbers   *)
(* are numbers here, 0 for the empty string.                               *)
(***************************************************************************)
EXTENDS Integers, SequencesExt

CONSTANT MaxAmount    \* the largest Amount, 2^63 - 1 in the program

ASSUME AccountingAssumption == MaxAmount \in Nat \ {0}

Amount == -MaxAmount - 1 .. MaxAmount

Wrap(n) == ((n + MaxAmount + 1) % (2 * (MaxAmount + 1))) - (MaxAmount + 1)

Quotient(n, d) == IF n >= 0 THEN n \div d ELSE -((-n) \div d)

\* n / d to the nearest integer, half away from zero.
Round(n, d) ==
  IF n >= 0 THEN Quotient(Wrap(n + d \div 2), d) ELSE Quotient(Wrap(n - d \div 2), d)

Abs(n) == IF n < 0 THEN Wrap(-n) ELSE n

-----------------------------------------------------------------------------
(* Vouchers *)

Line == [account : Nat, debit : Amount, credit : Amount]

Debit(a, n) == [account |-> a, debit |-> n, credit |-> 0]

Credit(a, n) == [account |-> a, debit |-> 0, credit |-> n]

\* The running totals of Validate: before the first line, and after each.
RunningTotal(x) ==
  LET t[i \in 0 .. Len(x)] == IF i = 0 THEN 0 ELSE Wrap(t[i - 1] + x[i])
  IN  t

DebitTotal(lines) == RunningTotal([i \in 1 .. Len(lines) |-> lines[i].debit])

CreditTotal(lines) == RunningTotal([i \in 1 .. Len(lines) |-> lines[i].credit])

WellFormed(l) ==
  /\ l.account # 0
  /\ l.debit >= 0 /\ l.credit >= 0
  /\ (l.debit = 0) # (l.credit = 0)

\* Fault: the totals are compared without a look at their sign.
ValidateFinalTotals(lines) ==
  /\ Len(lines) >= 2
  /\ \A i \in 1 .. Len(lines) : WellFormed(lines[i])
  /\ DebitTotal(lines)[Len(lines)] = CreditTotal(lines)[Len(lines)]

\* Validate returns no error.
Validate(lines) ==
  LET d == DebitTotal(lines)
      c == CreditTotal(lines)
  IN  /\ Len(lines) >= 2
      /\ \A i \in 1 .. Len(lines) : WellFormed(lines[i]) /\ d[i] >= 0 /\ c[i] >= 0
      /\ d[Len(lines)] = c[Len(lines)]

ReverseLines(lines) ==
  [i \in 1 .. Len(lines) |->
     [account |-> lines[i].account, debit |-> lines[i].credit, credit |-> lines[i].debit]]
=============================================================================
