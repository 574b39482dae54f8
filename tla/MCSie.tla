------------------------------ MODULE MCSie ------------------------------
(* Instances of Sie for TLC. *)
EXTENDS Sie

MCChart == {1930, 2010, 3001}

Sale(n) == <<Debit(1930, n), Credit(3001, n)>>
Paid(n) == <<Debit(2010, n), Credit(1930, n)>>

\* Years 1 and 2, the first day of year 2, a series of two words, a text that
\* CP437 cannot write, amounts with a zero before the ore.
MCVouchers ==
  { [series |-> <<"A">>, date |-> 20, text |-> "plain", lines |-> Paid(105)],
    [series |-> <<"A">>, date |-> 15, text |-> "plain", lines |-> Paid(30)],
    [series |-> <<"B", "x">>, date |-> 22, text |-> "plain", lines |-> Sale(1250)],
    [series |-> <<"A">>, date |-> 31, text |-> "outside CP437", lines |-> Sale(7)] }

MCOwnPosts == {[series |-> <<"A">>, date |-> 20, lines |-> Sale(100)]}

ver(s, d, ns) ==
  [head |-> <<Field("word", s), Field("number", 9), Field("date", d)>>,
   trans |-> [i \in DOMAIN ns |-> [account |-> IF i = 1 THEN 1930 ELSE 3001, amount |-> amount(ns[i])]]]

none == [a \in {} |-> amount(0)]

\* Two series in both orders, one of them with opening balances and an account of
\* its own; a line of zero after a good voucher.
MCForeign ==
  { [year |-> 2, konto |-> {}, ib |-> none, ub |-> none,
     vers |-> <<ver("B", 21, <<5, -5>>), ver("", 22, <<6, -6>>)>>],
    [year |-> 2, konto |-> {2081}, ib |-> (1930 :> amount(900) @@ 2081 :> amount(-900)), ub |-> none,
     vers |-> <<ver("A", 21, <<5, -5>>), ver("B", 22, <<6, -6>>)>>],
    [year |-> 2, konto |-> {3001}, ib |-> none, ub |-> none,
     vers |-> <<ver("A", 21, <<5, -5>>), ver("A", 22, <<6, -6, 0>>)>>] }
=============================================================================
