----------------------------- MODULE MCPrivacy -----------------------------
(* Instances of Privacy for TLC. *)
EXTENDS Privacy

\* With a width of 11 bits and a ceiling of 300: at the ceiling, and debits whose
\* sum, 2058, wraps to 10.
MCAiLines ==
  {<<Debit(1930, 300), Credit(3001, 300)>>,
   <<Debit(1930, 1000), Debit(1930, 1000), Debit(1910, 58), Credit(3001, 10)>>}

Pay(currency, gross, paid, received) ==
  [currency |-> currency, gross |-> gross, paid |-> paid, received |-> received]

\* A payment over the ceiling, one at it with a rest of 99 written off, and one in
\* foreign currency, settled with a loss.
MCAiPayments ==
  {Pay("SEK", 500, 0, 301), Pay("SEK", 499, 100, 300), Pay("EUR", 301, 0, 1)}
=============================================================================
