---------------------------- MODULE Accounting ----------------------------
(***************************************************************************)
(* The arithmetic of the books: VAT, rounding, the vouchers an invoice, a  *)
(* bill, a payment and a year end give rise to, and the reports (packages  *)
(* moms and invoice, reports of package ledger, the line builders of the   *)
(* store), in the machine's integers of module Ledger.                     *)
(***************************************************************************)
EXTENDS Ledger

-----------------------------------------------------------------------------
(* VAT and customer invoices: [currency, rate, lines], a line has a price, *)
(* a quantity in thousandths and a VAT code.                               *)

codeOrder == <<"SE25", "SE12", "SE06", "RCEU", "EXP">>

Rate(c) == CASE c = "SE25" -> 25 [] c = "SE12" -> 12 [] c = "SE06" -> 6 [] OTHER -> 0

OutputAccount == [SE25 |-> 2611, SE12 |-> 2621, SE06 |-> 2631]

SalesAccountForCode ==
  [SE25 |-> 3001, SE12 |-> 3002, SE06 |-> 3003, RCEU |-> 3308, EXP |-> 3305]

VAT(net, rate) == Round(Wrap(net * rate), 100)

Net(l) == Round(Wrap(l.price * l.qty), 1000)

LineVAT(l) == VAT(Net(l), Rate(l.code))

convertToSEK(x, ppm) == Round(Wrap(x * ppm), 1000000)

CodesOf(inv) == {inv.lines[i].code : i \in DOMAIN inv.lines}

SumOfCode(inv, c, F(_)) ==
  Wrap(SumFunction([i \in {j \in DOMAIN inv.lines : inv.lines[j].code = c} |-> F(inv.lines[i])]))

NetSEK(inv, c) == convertToSEK(SumOfCode(inv, c, Net), inv.rate)

VatSEK(inv, c) == convertToSEK(SumOfCode(inv, c, LineVAT), inv.rate)

\* The gross of the lines with the codes C.
GrossOf(inv, C) == Wrap(SumFunction([c \in C |-> NetSEK(inv, c) + VatSEK(inv, c)]))

GrossSEK(inv) == GrossOf(inv, CodesOf(inv))

SalesLines(inv, c) ==
  IF c \notin CodesOf(inv) THEN << >>
  ELSE <<Credit(SalesAccountForCode[c], NetSEK(inv, c))>>
       \o IF VatSEK(inv, c) # 0 THEN <<Credit(OutputAccount[c], VatSEK(inv, c))>> ELSE << >>

VerificationLines(inv) ==
  <<Debit(1510, GrossOf(inv, CodesOf(inv) \cap Range(codeOrder)))>>
  \o SalesLines(inv, codeOrder[1]) \o SalesLines(inv, codeOrder[2]) \o SalesLines(inv, codeOrder[3])
  \o SalesLines(inv, codeOrder[4]) \o SalesLines(inv, codeOrder[5])

-----------------------------------------------------------------------------
(* Supplier invoices *)

PurchaseCodes == {"PD25", "PD12", "PD06", "PEU", "PIMP", "PNONE"}

domesticRate == [PD25 |-> 25, PD12 |-> 12, PD06 |-> 6]

\* Fault: the fictitious output VAT of a reverse charge is left out.
PurchaseLinesNoOutputVAT(cost, net, code) ==
  IF code \in DOMAIN domesticRate
  THEN LET vat == VAT(net, domesticRate[code])
       IN  <<Debit(cost, net), Debit(2640, vat), Credit(2440, Wrap(net + vat))>>
  ELSE IF code \in {"PEU", "PIMP"}
  THEN LET vat == VAT(net, 25)
       IN  <<Debit(IF code = "PIMP" THEN 4531 ELSE 4535, net),
             Credit(2440, Wrap(net + vat)), Debit(2645, vat)>>
  ELSE <<Debit(cost, net), Credit(2440, net)>>

PurchaseLines(cost, net, code) ==
  IF code \in DOMAIN domesticRate
  THEN LET vat == VAT(net, domesticRate[code])
       IN  <<Debit(cost, net), Debit(2640, vat), Credit(2440, Wrap(net + vat))>>
  ELSE IF code \in {"PEU", "PIMP"}
  THEN LET vat == VAT(net, 25)
       IN  <<Debit(IF code = "PIMP" THEN 4531 ELSE 4535, net), Credit(2440, net),
             Credit(2614, vat), Debit(2645, vat)>>
  ELSE <<Debit(cost, net), Credit(2440, net)>>

Payable(net, code) ==
  IF code \in DOMAIN domesticRate THEN Wrap(net + VAT(net, domesticRate[code])) ELSE net

-----------------------------------------------------------------------------
(* Payments *)

oresRoundingThreshold == 100

\* RecordPayment: whether it takes the amount, whether that settles the
\* invoice, and the voucher: a currency difference for a foreign invoice, a
\* write-off below the threshold for one in SEK.
Settlement(currency, gross, paid, amount) ==
  LET diff == Wrap(amount - gross)
      residual == Wrap(gross - Wrap(paid + amount))
      small == Abs(residual) < oresRoundingThreshold
      received == Debit(1930, amount)
  IN  IF currency # "SEK"
      THEN [take |-> paid = 0,
            full |-> TRUE,
            lines |-> <<received, Credit(1510, gross)>>
                      \o IF diff > 0 THEN <<Credit(3960, diff)>>
                         ELSE IF diff < 0 THEN <<Debit(7960, Wrap(-diff))>> ELSE << >>]
      ELSE [take |-> small \/ residual >= 0,
            full |-> small,
            lines |-> <<received, Credit(1510, amount)>>
                      \o IF residual = 0 \/ ~small THEN << >>
                         ELSE IF residual > 0
                         THEN <<Credit(1510, residual), Debit(3740, residual)>>
                         ELSE <<Debit(1510, Wrap(-residual)), Credit(3740, Wrap(-residual))>>]

\* RecordSupplierPayment: the whole debt, or an amount close to it.
SupplierPaymentLines(gross, amount) ==
  LET diff == Wrap(gross - amount)
  IN  <<Debit(2440, gross), Credit(1930, amount)>>
      \o IF diff > 0 THEN <<Credit(3740, diff)>>
         ELSE IF diff < 0 THEN <<Debit(3740, Wrap(-diff))>> ELSE << >>

SupplierPaymentTaken(gross, amount) ==
  amount > 0 /\ Abs(Wrap(gross - amount)) < oresRoundingThreshold

-----------------------------------------------------------------------------
(* Balances and reports.  A trial balance is a function on the accounts    *)
(* that have lines; BIGINT sums fail instead of wrapping (SumsFit).        *)

\* What the lines add to an account, debit-positive.
NetOn(lines, a) ==
  SumFunction([i \in {j \in DOMAIN lines : lines[j].account = a} |-> lines[i].debit - lines[i].credit])

\* The accounts on the vouchers vs[k] with k in K, and what these add to an account.
AccountsIn(vs, K) == UNION {{vs[k].lines[i].account : i \in DOMAIN vs[k].lines} : k \in K}

TotalOn(vs, K, a) == SumFunction([k \in K |-> NetOn(vs[k].lines, a)])

\* The trial balance of the vouchers vs[k] with k in K, and of all of them.
BalancesOf(vs, K) == [a \in AccountsIn(vs, K) |-> TotalOn(vs, K, a)]

Balances(vs) == BalancesOf(vs, DOMAIN vs)

SumsFit(tb) == \A a \in DOMAIN tb : tb[a] \in Amount

\* bal[account] of a Go map: 0 for an account without lines.
BalanceOf(tb, a) == IF a \in DOMAIN tb THEN tb[a] ELSE 0

\* Kontoklass, the first digit of the account.
Classify(a) == a \div 1000

IsResult(a) == Classify(a) \in 3 .. 8

IsAsset(a) == Classify(a) = 1

IsEquity(a) == a \div 100 = 20

IsLiability(a) == Classify(a) = 2 /\ ~IsEquity(a)

SumOn(tb, P(_)) == SumFunction([a \in {x \in DOMAIN tb : P(x)} |-> tb[a]])

\* Profit is positive.
ResultOf(tb) == Wrap(-SumOn(tb, IsResult))

\* The row "Arets resultat (beraknat)" of BuildStatementsPeriod: what makes the
\* balance sheet balance.
SyntheticResult(tb) ==
  Wrap(SumOn(tb, IsAsset) + SumOn(tb, IsEquity) + SumOn(tb, IsLiability))

\* The bokslut voucher of a year with the trial balance tb.
CloseLines(tb) ==
  LET open == {a \in DOMAIN tb : IsResult(a) /\ tb[a] # 0}
      result == ResultOf(tb)
      zero(a) == IF tb[a] > 0 THEN Credit(a, tb[a]) ELSE Debit(a, Wrap(-tb[a]))
      account(i) == CHOOSE a \in open : Cardinality({b \in open : b <= a}) = i  \* ascending
  IN  [i \in 1 .. Cardinality(open) |-> zero(account(i))]
      \o <<IF result > 0 THEN Credit(2099, result) ELSE Debit(2099, Wrap(-result))>>

\* The momsdeklaration of a period with the trial balance tb.
Report(tb) ==
  LET cr(a) == -BalanceOf(tb, a)
      dr(a) == BalanceOf(tb, a)
      output == cr(2611) + cr(2621) + cr(2631)
      acquired == Wrap(cr(2614) + cr(2615))
      input == Wrap(dr(2640) + dr(2641) + dr(2645))
  IN  [box05 |-> Wrap(cr(3001) + cr(3002) + cr(3003)), box10 |-> cr(2611), box11 |-> cr(2621),
       box12 |-> cr(2631), box21 |-> dr(4535), box22 |-> dr(4531), box30 |-> acquired,
       box39 |-> cr(3308), box48 |-> input, box49 |-> Wrap(output + acquired - input)]
=============================================================================
