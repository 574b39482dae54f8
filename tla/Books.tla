------------------------------- MODULE Books -------------------------------
(***************************************************************************)
(* What the documents of a company put in its books over several fiscal    *)
(* years, to the ore: customer invoices, supplier invoices, payments,      *)
(* hand-written vouchers, undo, the bokslut, and the reports on top.       *)
(*                                                                         *)
(* Documents and the trial balance of a year are read before the           *)
(* transaction that books, pays or closes them, by concurrent handlers, so *)
(* a transaction may act on what is no longer so; the statements of one    *)
(* transaction are one step (Posting has them apart).                      *)
(* A posting date is known by its year only, and a step may bear any year  *)
(* that is not locked.  A refused request changes nothing and is no step.  *)
(* LockPeriod posts nothing and is in Posting; all accounts are in the     *)
(* chart.                                                                  *)
(***************************************************************************)
EXTENDS Accounting

CONSTANTS Worker,       \* concurrent handlers of documents and year ends
          Years,        \* fiscal years, positive integers
          Inv,          \* customer invoice ids
          Drafts,       \* what a customer invoice may say
          Bill,         \* supplier invoice ids
          Purchases,    \* what a supplier invoice may say: [net, code]
          Payments,     \* amounts a payment may have
          Manual,       \* hand-written vouchers, as typed
          ManualSeries, \* the series they may be given, any at all
          CostAccount,  \* the cost account of the bills
          MaxVouchers   \* bound on the vouchers of a behaviour

ASSUME BooksAssumption ==
  /\ Years \subseteq Nat \ {0}
  /\ IsFiniteSet(Inv) /\ IsFiniteSet(Bill)
  /\ \A d \in Drafts : /\ d.rate \in Amount
                       /\ d.lines \in Seq([price : Amount, qty : Amount, code : STRING])
  /\ \A p \in Purchases : p.net \in Amount
  /\ Payments \subseteq Amount
  /\ Manual \subseteq Seq(Line)
  /\ CostAccount \in Nat \ {0}
  /\ MaxVouchers \in Nat

VARIABLES
  book,    \* verifications in the order of their commits
  locked,  \* companies.locked_through: the last locked year, 0 for NULL
  closed,  \* the fiscal years with closed_at set
  sale,    \* customer invoices: status, what they say, amount paid, settled
  bill,    \* supplier invoices: status, what they say
  task,    \* task[w]: what w has read and is about to do with it
  astray,  \* history: invoices on which two payments went past each other
  missed   \* history: years closed on a trial balance that was no longer theirs

vars == <<book, locked, closed, sale, bill, task, astray, missed>>

history == <<astray, missed>>

\* applied: the row of its document or fiscal year took the voucher.
Voucher == [series : {"F", "B", "L", "LB", "R", "O"} \cup ManualSeries, year : Years,
            lines : Seq(Line), applied : BOOLEAN]

Sale == [status : {"none", "draft", "deleted", "finalized", "paid", "credited"},
         says : Drafts \cup {<< >>}, paid : 0 .. MaxAmount, settled : BOOLEAN]

BillRow == [status : {"none", "draft", "finalized", "paid"}, net : 0 .. MaxAmount,
            code : PurchaseCodes \cup {""}]

Idle == [step |-> "idle"]

Task == {Idle}
        \cup [step : {"finalize", "pay"}, bill : Bill, lines : Seq(Line)]
        \cup [step : {"issue", "credit"}, inv : Inv]
        \cup [step : {"settle"}, inv : Inv, amount : Payments, paid : 0 .. MaxAmount]
        \cup [step : {"close"}, year : Years, seen : Nat]

Init ==
  /\ book = << >>
  /\ locked = 0
  /\ closed = {}
  /\ sale = [i \in Inv |-> [status |-> "none", says |-> << >>, paid |-> 0, settled |-> FALSE]]
  /\ bill = [b \in Bill |-> [status |-> "none", net |-> 0, code |-> ""]]
  /\ task = [w \in Worker |-> Idle]
  /\ astray = {}
  /\ missed = {}

-----------------------------------------------------------------------------
\* postVerification: the lines are valid and the year is not locked.
postVerification(series, y, lines, applied) ==
  /\ Len(book) < MaxVouchers
  /\ y > locked
  /\ Validate(lines)
  /\ book' = Append(book, [series |-> series, year |-> y, lines |-> lines, applied |-> applied])

PostVerification ==
  /\ \E y \in Years, series \in ManualSeries, lines \in Manual : postVerification(series, y, lines, FALSE)
  /\ UNCHANGED <<locked, closed, sale, bill, task, history>>

UndoVerification ==
  /\ \E y \in Years, k \in DOMAIN book : postVerification("R", y, ReverseLines(book[k].lines), FALSE)
  /\ UNCHANGED <<locked, closed, sale, bill, task, history>>

\* The way back in after a bokslut: the lock is cleared.
UnlockPeriod ==
  /\ locked' = 0
  /\ UNCHANGED <<book, closed, sale, bill, task, history>>

\* A handler has read what it needs, and is done.
reads(w, t) ==
  /\ task[w] = Idle
  /\ task' = [task EXCEPT ![w] = t]
  /\ UNCHANGED <<book, locked, closed, sale, bill, history>>

done(w) == task' = [task EXCEPT ![w] = Idle]

\* The transaction fails: no row, a locked period, invalid lines, a conflict.
Fail(w) ==
  /\ task[w] # Idle
  /\ done(w)
  /\ UNCHANGED <<book, locked, closed, sale, bill, history>>

-----------------------------------------------------------------------------
(* The year end.  A trial balance is of the first n vouchers. *)

\* Fault: the balance of the year end is taken instead of the year's.
TrialBalanceOfYearEnd(y, n) ==
  BalancesOf(book, {k \in 1 .. n : book[k].year <= y /\ book[k].series # "O"})

\* TrialBalanceBetweenExclSeries over a fiscal year, without the bokslut.
TrialBalanceOfYear(y, n) ==
  BalancesOf(book, {k \in 1 .. n : book[k].year = y /\ book[k].series # "O"})

\* The vouchers a query selects.
TrialBalance(P(_)) == BalancesOf(book, {k \in DOMAIN book : P(book[k])})

\* Fault: the balance sheet leaves out the bokslut too.
TrialBalanceAsOfExclSeries(y) == TrialBalance(LAMBDA v : v.year <= y /\ v.series # "O")

TrialBalanceAsOf(y) == TrialBalance(LAMBDA v : v.year <= y)

\* CloseFiscalYear up to its transaction: an open year and its trial balance,
\* which has something to close.
ReadYear(w) ==
  \E y \in Years \ closed :
    LET tb == TrialBalanceOfYear(y, Len(book))
    IN  /\ SumsFit(tb)
        /\ \E a \in DOMAIN tb : IsResult(a) /\ tb[a] # 0
        /\ reads(w, [step |-> "close", year |-> y, seen |-> Len(book)])

\* A voucher of year y came between the reading of the trial balance and now.
Late(y, seen) == \E k \in seen + 1 .. Len(book) : book[k].year = y /\ book[k].series # "O"

CloseFiscalYear(w) ==
  /\ task[w].step = "close"
  /\ LET y == task[w].year
     IN  /\ postVerification("O", y, CloseLines(TrialBalanceOfYear(y, task[w].seen)), TRUE)
         /\ y \notin closed
         /\ closed' = closed \cup {y}
         /\ locked' = y
         /\ missed' = IF Late(y, task[w].seen) THEN missed \cup {y} ELSE missed
  /\ done(w)
  /\ UNCHANGED <<sale, bill, astray>>

-----------------------------------------------------------------------------
(* Customer invoices *)

CreateInvoice ==
  /\ \E i \in Inv, d \in Drafts :
       /\ sale[i].status = "none"
       /\ sale' = [sale EXCEPT ![i].status = "draft", ![i].says = d]
  /\ UNCHANGED <<book, locked, closed, bill, task, history>>

DeleteDraftInvoice ==
  /\ \E i \in Inv :
       /\ sale[i].status = "draft"
       /\ sale' = [sale EXCEPT ![i].status = "deleted"]
  /\ UNCHANGED <<book, locked, closed, bill, task, history>>

\* FinalizeInvoice, CreditInvoice and RecordPayment up to their transactions.
\* What an invoice says never changes, so the lines are determined here.
ReadDraftInvoice(w) ==
  \E i \in Inv : sale[i].status = "draft" /\ reads(w, [step |-> "issue", inv |-> i])

ReadCreditable(w) ==
  \E i \in Inv :
    sale[i].status \in {"finalized", "paid"} /\ reads(w, [step |-> "credit", inv |-> i])

\* What RecordPayment makes of an amount when that much had been paid.
SettlementOf(i, paid, amount) ==
  Settlement(sale[i].says.currency, GrossSEK(sale[i].says), paid, amount)

ReadPayable(w) ==
  \E i \in Inv, amount \in Payments :
    /\ sale[i].status = "finalized"
    /\ amount > 0
    /\ SettlementOf(i, sale[i].paid, amount).take
    /\ reads(w, [step |-> "settle", inv |-> i, amount |-> amount, paid |-> sale[i].paid])

\* Its transaction.  The UPDATE finds only a draft, and nobody looks at its row
\* count: the voucher is posted anyway.
FinalizeInvoice(w) ==
  /\ task[w].step = "issue"
  /\ LET i == task[w].inv
         found == sale[i].status = "draft"
     IN  /\ \E y \in Years : postVerification("F", y, VerificationLines(sale[i].says), found)
         /\ sale' = IF found THEN [sale EXCEPT ![i].status = "finalized"] ELSE sale
  /\ done(w)
  /\ UNCHANGED <<locked, closed, bill, history>>

\* The voucher of the invoice is reversed (the credit note and its number are in
\* Invoices); MarkInvoiceCredited finds an issued one, its row count is dropped.
CreditInvoice(w) ==
  /\ task[w].step = "credit"
  /\ LET i == task[w].inv
         found == sale[i].status \in {"finalized", "paid"}
     IN  /\ \E y \in Years :
              postVerification("F", y, ReverseLines(VerificationLines(sale[i].says)), found)
         /\ sale' = IF found THEN [sale EXCEPT ![i].status = "credited"] ELSE sale
  /\ done(w)
  /\ UNCHANGED <<locked, closed, bill, history>>

\* The amount is added to the column whatever the status, and BIGINTs do not
\* wrap; MarkInvoicePaid finds only a finalized invoice, and its count is looked at.
RecordPayment(w) ==
  /\ task[w].step = "settle"
  /\ LET t == task[w]
         row == sale[t.inv]
         s == SettlementOf(t.inv, t.paid, t.amount)
     IN  /\ \E y \in Years : postVerification("B", y, s.lines, TRUE)
         /\ row.paid + t.amount <= MaxAmount
         /\ s.full => row.status = "finalized"
         /\ sale' = [sale EXCEPT ![t.inv].paid = @ + t.amount,
                                 ![t.inv].settled = @ \/ s.full,
                                 ![t.inv].status = IF s.full THEN "paid" ELSE @]
         /\ astray' = IF (s.full /\ row.paid # t.paid) \/ (~s.full /\ row.settled)
                      THEN astray \cup {t.inv} ELSE astray
  /\ done(w)
  /\ UNCHANGED <<locked, closed, bill, missed>>

-----------------------------------------------------------------------------
(* Supplier invoices *)

CreateSupplierInvoice ==
  /\ \E b \in Bill, p \in Purchases :
       /\ bill[b].status = "none"
       /\ p.code \in PurchaseCodes
       /\ p.net > 0
       /\ bill' = [bill EXCEPT ![b] = [status |-> "draft", net |-> p.net, code |-> p.code]]
  /\ UNCHANGED <<book, locked, closed, sale, task, history>>

\* FinalizeSupplierInvoice and RecordSupplierPayment up to their transaction.
ReadDraftBill(w) ==
  \E b \in Bill :
    /\ bill[b].status = "draft"
    /\ reads(w, [step |-> "finalize", bill |-> b,
                 lines |-> PurchaseLines(CostAccount, bill[b].net, bill[b].code)])

ReadOpenBill(w) ==
  \E b \in Bill, amount \in Payments :
    LET gross == Payable(bill[b].net, bill[b].code)
    IN  /\ bill[b].status = "finalized"
        /\ SupplierPaymentTaken(gross, amount)
        /\ reads(w, [step |-> "pay", bill |-> b, lines |-> SupplierPaymentLines(gross, amount)])

\* Fault: the row count of the UPDATE is not looked at.
SetBillUncounted(b, from, to) ==
  bill' = [bill EXCEPT ![b].status = IF @ = from THEN to ELSE @]

\* UPDATE supplier_invoices SET status ... WHERE status = ...; no row is an error.
SetBill(b, from, to) ==
  /\ bill[b].status = from
  /\ bill' = [bill EXCEPT ![b].status = to]

FinalizeSupplierInvoice(w) ==
  /\ task[w].step = "finalize"
  /\ \E y \in Years : postVerification("L", y, task[w].lines, TRUE)
  /\ SetBill(task[w].bill, "draft", "finalized")
  /\ done(w)
  /\ UNCHANGED <<locked, closed, sale, history>>

RecordSupplierPayment(w) ==
  /\ task[w].step = "pay"
  /\ \E y \in Years : postVerification("LB", y, task[w].lines, TRUE)
  /\ SetBill(task[w].bill, "finalized", "paid")
  /\ done(w)
  /\ UNCHANGED <<locked, closed, sale, history>>

Next ==
  \/ PostVerification \/ UndoVerification \/ UnlockPeriod
  \/ CreateInvoice \/ DeleteDraftInvoice \/ CreateSupplierInvoice
  \/ \E w \in Worker :
       \/ ReadYear(w) \/ CloseFiscalYear(w)
       \/ ReadDraftInvoice(w) \/ FinalizeInvoice(w)
       \/ ReadCreditable(w) \/ CreditInvoice(w)
       \/ ReadPayable(w) \/ RecordPayment(w)
       \/ ReadDraftBill(w) \/ FinalizeSupplierInvoice(w)
       \/ ReadOpenBill(w) \/ RecordSupplierPayment(w)
       \/ Fail(w)

Spec == Init /\ [][Next]_vars
-----------------------------------------------------------------------------
(* Properties *)

\* The types of the tables: a bill has a positive amount, an amount paid is
\* never negative, every line and sum fits in its column.
TypeOK ==
  /\ book \in Seq(Voucher)
  /\ locked \in Years \cup {0}
  /\ closed \subseteq Years
  /\ sale \in [Inv -> Sale]
  /\ bill \in [Bill -> BillRow]
  /\ \A b \in Bill : bill[b].status # "none" => bill[b].net > 0
  /\ task \in [Worker -> Task]
  /\ astray \subseteq Inv /\ missed \subseteq closed

Exact(lines, F(_)) == SumFunction([i \in DOMAIN lines |-> F(lines[i])])

\* Every posted voucher balances in exact arithmetic, not just modulo the width
\* of an int64, whatever amounts were typed (Validate, the choke point of every
\* posting), and its total is an amount again.
BalancedExactly ==
  \A k \in DOMAIN book :
    /\ Exact(book[k].lines, LAMBDA l : l.debit) = Exact(book[k].lines, LAMBDA l : l.credit)
    /\ Exact(book[k].lines, LAMBDA l : l.debit) \in Amount

\* The vouchers of documents: not those of the same series that were typed in, nor
\* the second one of an invoice that two handlers finalized or credited, nor that
\* of a draft deleted meanwhile.
OfSeries(S) == TrialBalance(LAMBDA v : v.series \in S /\ v.applied)

\* What the customer of invoice i owes: the outstanding amount of a finalized
\* invoice (handleReskontra lists it; it leaves out the negative one that two
\* instalments may leave, each within the rest it read); for a credited one, the
\* negative of what had been paid (all of it when a payment had settled it).
Receivable(i) ==
  LET gross == GrossSEK(sale[i].says)
  IN  IF sale[i].status = "finalized" THEN gross - sale[i].paid
      ELSE IF sale[i].status = "credited" THEN -(IF sale[i].settled THEN gross ELSE sale[i].paid)
      ELSE 0

\* The kundreskontra agrees with account 1510: after any mix of instalments,
\* write-offs to 3740, currency differences and credits by concurrent handlers,
\* what the invoice and payment vouchers leave on 1510 is the sum of what the
\* invoices still owe (GrossSEK and VerificationLines compute the total
\* separately), unless a settling payment and an instalment went past each other.
ReceivablesTie ==
  astray = {} =>
    BalanceOf(OfSeries({"F", "B"}), 1510) = SumFunction([i \in Inv |-> Receivable(i)])

Owed(b) ==
  IF bill[b].status = "finalized" THEN Payable(bill[b].net, bill[b].code) ELSE 0

\* The leverantorsreskontra agrees with account 2440, whatever two handlers do
\* with the same bill: each bill is booked once and its debt cleared once
\* (the row counts in FinalizeSupplierInvoice and RecordSupplierPayment).
PayablesTie ==
  -BalanceOf(OfSeries({"L", "LB"}), 2440) = SumFunction([b \in Bill |-> Owed(b)])

InvoiceVAT(i) ==
  IF sale[i].status \in {"finalized", "paid"}
  THEN SumFunction([c \in CodesOf(sale[i].says) |-> VatSEK(sale[i].says, c)])
  ELSE 0

BillVAT(b) ==
  IF bill[b].status \in {"finalized", "paid"} /\ bill[b].code \in DOMAIN domesticRate
  THEN VAT(bill[b].net, domesticRate[bill[b].code]) ELSE 0

Acquired(b) ==
  IF bill[b].status \in {"finalized", "paid"} /\ bill[b].code \in {"PEU", "PIMP"}
  THEN bill[b].net ELSE 0

\* The momsdeklaration agrees with the documents: what is to be paid (ruta 49)
\* is the VAT of the invoices issued less the deductible VAT of the bills booked,
\* a reverse charge adds nothing to it and its net is in ruta 21 or 22 (Report,
\* PurchaseLines; the vouchers OfSeries leaves out aside).
MomsMatchesDocuments ==
  LET d == Report(OfSeries({"F", "L"}))
  IN  /\ d.box49 = SumFunction([i \in Inv |-> InvoiceVAT(i)]) - SumFunction([b \in Bill |-> BillVAT(b)])
      /\ d.box21 + d.box22 = SumFunction([b \in Bill |-> Acquired(b)])
      /\ d.box30 = SumFunction([b \in Bill |-> VAT(Acquired(b), 25)])

\* Nothing has been posted in year y since its bokslut (it takes an unlock).
ClosedAndLeft(y) ==
  \E k \in DOMAIN book :
    /\ book[k].series = "O" /\ book[k].year = y /\ book[k].applied
    /\ \A j \in k + 1 .. Len(book) : book[j].year # y

\* Series O of year y holds the bokslut only: the query leaves out whatever else
\* somebody typed into it.
OnlyBokslut(y) ==
  \A k \in DOMAIN book : book[k].series = "O" /\ book[k].year = y => book[k].applied

ZeroInYear(y) ==
  LET tb == TrialBalance(LAMBDA v : v.year = y)
  IN  \A a \in DOMAIN tb : IsResult(a) => tb[a] = 0

\* The bokslut leaves every result account of its year at zero, open earlier
\* years and undone vouchers notwithstanding (CloseFiscalYear), unless a voucher of
\* the year came between the trial balance and the transaction.
CloseZeroesYear ==
  \A y \in closed \ missed : ClosedAndLeft(y) /\ OnlyBokslut(y) => ZeroInYear(y)

\* The result row of the balance sheet, as the comment on BuildStatementsPeriod
\* puts it: the live result of an open year, nothing for a closed one.
ResultRow(y) ==
  SyntheticResult(TrialBalanceAsOf(y))
    = IF ClosedAndLeft(y) THEN 0 ELSE ResultOf(TrialBalanceOfYear(y, Len(book)))

\* Where all earlier years are closed or empty the balance sheet of a year that
\* is open, or closed and left alone, shows the result of that year (series O
\* being the bokslut, and no bokslut having missed a voucher).
ResultRowAfterCloses ==
  \A y \in Years :
    /\ y \in closed => ClosedAndLeft(y)
    /\ \A z \in Years : z < y => ClosedAndLeft(z) \/ \A k \in DOMAIN book : book[k].year # z
    /\ \A z \in Years : z <= y => z \notin missed /\ OnlyBokslut(z)
    => ResultRow(y)

\* Every row and voucher keeps its kind, and every voucher balances, whatever
\* amounts were typed and whichever handler posts (Validate and the columns).
VouchersSound == TypeOK /\ BalancedExactly

\* Both sub-ledgers agree with their control accounts at every moment (see
\* ReceivablesTie for the payments that go past each other).
ReskontraTies == ReceivablesTie /\ PayablesTie
=============================================================================
