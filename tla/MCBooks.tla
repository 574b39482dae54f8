------------------------------ MODULE MCBooks ------------------------------
(* Instances of Books for TLC.  Amounts are 30 bits wide, so that four of   *)
(* the largest still add up in TLC's integers.                             *)
EXTENDS Books

MCMaxAmount == 536870911

Row(price, qty, code) == [price |-> price, qty |-> qty, code |-> code]

\* Three quarters of a unit at 5.46 kr, a rebate of an ore (the VAT is rounded
\* line by line) and a line whose VAT rounds to nothing, 520 in all; and a
\* foreign invoice whose parts are converted one by one, 282 in all.
MCDrafts ==
  {[currency |-> "SEK", rate |-> 1000000,
    lines |-> <<Row(546, 750, "SE25"), Row(-1, 1000, "SE25"), Row(8, 1000, "SE06")>>],
   [currency |-> "EUR", rate |-> 1234567,
    lines |-> <<Row(101, 1000, "SE25"), Row(102, 1000, "RCEU")>>]}

\* Domestic with half an ore of VAT (513 in all), reverse charge, and an amount
\* that is refused.
MCPurchases ==
  {[net |-> 410, code |-> "PD25"], [net |-> 300, code |-> "PEU"],
   [net |-> 0, code |-> "PNONE"]}

\* An instalment of the SEK invoice (two leave 20 to write off), or a little less
\* than the reverse-charge bill; a little more than the SEK invoice or the
\* domestic bill.  The foreign invoice has a loss with one and a gain with the
\* other.
MCPayments == {250, 530}

\* A voucher at the limit, and one that only balances modulo 2^30.
MCManual ==
  {<<Debit(5410, MCMaxAmount), Credit(1930, MCMaxAmount)>>,
   <<Debit(1930, MCMaxAmount), Debit(1910, MCMaxAmount), Debit(5410, 7), Credit(3001, 5)>>}

\* A cost and an income of a year.
MCYearManual == {<<Debit(5410, 7), Credit(1930, 7)>>, <<Debit(1930, 5), Credit(3001, 5)>>}

MCAllManual == MCManual \cup MCYearManual

\* A behaviour is about the documents of one year, beside one voucher by hand or
\* undone, or about the ends of two years: all of it at once is beyond TLC.
ByHand(v) == v.series = "R" \/ v.lines \in MCManual

Documents ==
  /\ \A w \in Worker : task[w].step # "close"
  /\ \A k \in DOMAIN book :
       book[k].year = 1 /\ book[k].series # "O" /\ book[k].lines \notin MCYearManual
  /\ \A j, k \in DOMAIN book : ByHand(book[j]) /\ ByHand(book[k]) => j = k

YearEnds ==
  /\ \A i \in Inv : sale[i].status = "none"
  /\ \A b \in Bill : bill[b].status = "none"
  /\ \A k \in DOMAIN book : book[k].lines \notin MCManual

OneSubject == Documents \/ YearEnds

\* Spec, every step of which stays with its subject.
MCSpec == Init /\ [][Next /\ OneSubject']_vars

Symmetry == Permutations(Worker)
=============================================================================
