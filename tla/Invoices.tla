------------------------------ MODULE Invoices ------------------------------
(***************************************************************************)
(* Customer invoices: CreateInvoice, FinalizeInvoice, DeleteDraftInvoice,  *)
(* RecordPayment and CreditInvoice, called by concurrent request handlers. *)
(*                                                                         *)
(* Each of them reads the invoice before its transaction and decides on    *)
(* that reading; the transaction then locks the invoice row with its first *)
(* UPDATE and holds it to the commit, so it is one action here, taken on   *)
(* the row as it is THEN (Posting has the statements inside it: numbers,   *)
(* audit chain, rollbacks).  A transaction may also fail for a reason of   *)
(* its own (Fail): a locked period, a number or audit conflict, a lost     *)
(* connection.  One fiscal year, one company.                              *)
(***************************************************************************)
EXTENDS Integers, FiniteSetsExt

CONSTANTS Worker,       \* concurrent request handlers
          Inv,          \* invoice ids
          None,         \* no invoice
          Gross,        \* GrossSEK of an invoice: the receivable it books
          Payments,     \* amounts a payment may have
          oresRoundingThreshold,
          MaxVouchers   \* bound on the vouchers of a behaviour

ASSUME InvoicesAssumption ==
  /\ None \notin Inv
  /\ Gross \in Nat \ {0}
  /\ Payments \subseteq Nat \ {0}
  /\ oresRoundingThreshold \in Nat
  /\ MaxVouchers \in Nat

VARIABLES
  inv,    \* invoices: status, currency, number, voucher, amount paid, credited invoice
  seqNo,  \* invoice_number_seq.next_no
  book,   \* vouchers: kind, invoice, effect on account 1510, money received
  task    \* task[w]: what worker w has read and is about to do

vars == <<inv, seqNo, book, task>>

Statuses == {"none", "deleted", "draft", "finalized", "paid", "credited"}
Currencies == {"SEK", "EUR"}

Invoice == [status : Statuses, currency : Currencies, number : Nat, voucher : Nat,
            paid : Nat, credits : Inv \cup {None}]

Voucher == [id : Nat, kind : {"invoice", "payment", "credit"}, inv : Inv, ar : Int, sek : Nat]

Idle == [step |-> "idle"]

Task ==
  {Idle}
  \cup [step : {"finalize"}, inv : Inv]
  \cup [step : {"pay"}, inv : Inv, amount : Payments, ar : Int, full : BOOLEAN]
  \cup [step : {"credit"}, inv : Inv, ar : Int]
  \cup [step : {"link", "issue"}, inv : Inv, ar : Int, note : Inv]

Blank == [status |-> "none", currency |-> "SEK", number |-> 0, voucher |-> 0, paid |-> 0,
          credits |-> None]

Init ==
  /\ inv = [i \in Inv |-> Blank]
  /\ seqNo = 0
  /\ book = {}
  /\ task = [w \in Worker |-> Idle]

-----------------------------------------------------------------------------
Set(w, t) == task' = [task EXCEPT ![w] = t]

\* The vouchers of a behaviour are identified by the order of their commits.
Post(kind, i, ar, sek) ==
  /\ Cardinality(book) < MaxVouchers
  /\ book' = book \cup {[id |-> Cardinality(book) + 1, kind |-> kind, inv |-> i,
                         ar |-> ar, sek |-> sek]}

\* Fault: the UPDATE has no WHERE status = 'draft'.
FinalizeRowUnguarded(row) ==
  [row EXCEPT !.status = "finalized", !.number = seqNo + 1, !.voucher = Cardinality(book) + 1]

\* Fault: the number is the counter as it was before the allocation.
FinalizeRowOldCounter(row) ==
  IF row.status = "draft"
  THEN [row EXCEPT !.status = "finalized", !.number = seqNo, !.voucher = Cardinality(book) + 1]
  ELSE row

\* UPDATE invoices SET status = 'finalized', number, verification_id ... WHERE
\* status = 'draft'; the caller does not look at the row count.
FinalizeRow(row) ==
  IF row.status = "draft"
  THEN [row EXCEPT !.status = "finalized", !.number = seqNo + 1,
                   !.voucher = Cardinality(book) + 1]
  ELSE row

CreateInvoice(w) ==
  /\ task[w] = Idle
  /\ \E i \in Inv, c \in Currencies :
       /\ inv[i].status = "none"
       /\ inv' = [inv EXCEPT ![i] = [Blank EXCEPT !.status = "draft", !.currency = c]]
  /\ UNCHANGED <<seqNo, book, task>>

\* DELETE ... WHERE status = 'draft'.
DeleteDraftInvoice(w) ==
  /\ task[w] = Idle
  /\ \E i \in Inv : /\ inv[i].status = "draft"
                    /\ inv' = [inv EXCEPT ![i].status = "deleted"]
  /\ UNCHANGED <<seqNo, book, task>>

\* FinalizeInvoice reads the invoice (ErrNotDraft otherwise) and its lines.
ReadDraft(w) ==
  /\ task[w] = Idle
  /\ \E i \in Inv : /\ inv[i].status = "draft"
                    /\ Set(w, [step |-> "finalize", inv |-> i])
  /\ UNCHANGED <<inv, seqNo, book>>

\* Its transaction: AllocInvoiceNumber, postVerification, FinalizeInvoice.
FinalizeInvoice(w) ==
  /\ task[w].step = "finalize"
  /\ LET i == task[w].inv
     IN  /\ Post("invoice", i, Gross, 0)
         /\ inv' = [inv EXCEPT ![i] = FinalizeRow(@)]
  /\ seqNo' = seqNo + 1
  /\ Set(w, Idle)

abs(a) == IF a < 0 THEN -a ELSE a

\* What RecordPayment decides on the amount paid it has read: whether it takes
\* the payment, whether that settles the invoice, and what it books on 1510.
Settlement(currency, paid, amount) ==
  LET residual == Gross - (paid + amount)
      small == abs(residual) < oresRoundingThreshold
  IN  IF currency # "SEK"
      THEN [take |-> paid = 0, full |-> TRUE, ar |-> -Gross]
      ELSE [take |-> residual >= 0 \/ small, full |-> residual = 0 \/ small,
            ar |-> IF small THEN -(amount + residual) ELSE -amount]

\* RecordPayment up to its transaction (ErrNotFinalized, ErrPaymentMismatch).
ReadPayable(w) ==
  /\ task[w] = Idle
  /\ \E i \in Inv, amount \in Payments :
       LET s == Settlement(inv[i].currency, inv[i].paid, amount)
       IN  /\ inv[i].status = "finalized"
           /\ s.take
           /\ Set(w, [step |-> "pay", inv |-> i, amount |-> amount, ar |-> s.ar,
                      full |-> s.full])
  /\ UNCHANGED <<inv, seqNo, book>>

\* Fault: MarkInvoicePaid's row count is not looked at.
RecordPaymentUnchecked(w) ==
  /\ task[w].step = "pay"
  /\ LET t == task[w]
     IN  /\ Post("payment", t.inv, t.ar, t.amount)
         /\ inv' = [inv EXCEPT ![t.inv].paid = @ + t.amount,
                               ![t.inv].status = IF t.full THEN "paid" ELSE @]
  /\ Set(w, Idle)
  /\ UNCHANGED seqNo

\* Fault: the amount paid is overwritten instead of increased.
RecordPaymentOverwrites(w) ==
  /\ task[w].step = "pay"
  /\ LET t == task[w]
     IN  IF t.full /\ inv[t.inv].status # "finalized"
         THEN UNCHANGED <<inv, book>>
         ELSE /\ Post("payment", t.inv, t.ar, t.amount)
              /\ inv' = [inv EXCEPT ![t.inv].paid = t.amount,
                                    ![t.inv].status = IF t.full THEN "paid" ELSE @]
  /\ Set(w, Idle)
  /\ UNCHANGED seqNo

\* Its transaction: postVerification, AddInvoicePayment, and for a settling
\* payment MarkInvoicePaid ... WHERE status = 'finalized', rolled back on 0 rows.
RecordPayment(w) ==
  /\ task[w].step = "pay"
  /\ LET t == task[w]
         row == inv[t.inv]
     IN  IF t.full /\ row.status # "finalized"
         THEN UNCHANGED <<inv, book>>
         ELSE /\ Post("payment", t.inv, t.ar, t.amount)
              /\ inv' = [inv EXCEPT ![t.inv].paid = @ + t.amount,
                                    ![t.inv].status = IF t.full THEN "paid" ELSE @]
  /\ Set(w, Idle)
  /\ UNCHANGED seqNo

\* CreditInvoice reads the invoice and the lines of its voucher, to reverse them.
\* (It reads the voucher's lines later; they are immutable.)
ReadCreditable(w) ==
  /\ task[w] = Idle
  /\ \E i \in Inv, v \in book :
       /\ inv[i].status \in {"finalized", "paid"}
       /\ v.id = inv[i].voucher
       /\ Set(w, [step |-> "credit", inv |-> i, ar |-> -v.ar])
  /\ UNCHANGED <<inv, seqNo, book>>

\* The draft of the credit note is committed on its own (CreateInvoice).
CreateCreditNote(w) ==
  /\ task[w].step = "credit"
  /\ \E c \in Inv :
       LET t == task[w]
       IN  /\ inv[c].status = "none"
           /\ inv' = [inv EXCEPT ![c] = [Blank EXCEPT !.status = "draft",
                                                      !.currency = inv[t.inv].currency]]
           /\ Set(w, [step |-> "link", inv |-> t.inv, ar |-> t.ar, note |-> c])
  /\ UNCHANGED <<seqNo, book>>

\* SetInvoiceCredits, committed on its own; no row is no error.
SetInvoiceCredits(w) ==
  /\ task[w].step = "link"
  /\ inv' = [inv EXCEPT ![task[w].note].credits =
               IF inv[task[w].note].status = "deleted" THEN @ ELSE task[w].inv]
  /\ Set(w, [task[w] EXCEPT !.step = "issue"])
  /\ UNCHANGED <<seqNo, book>>

\* The transaction of CreditInvoice: a number, the reversing voucher, the note
\* finalized, the original credited; neither row count is looked at.
CreditInvoice(w) ==
  /\ task[w].step = "issue"
  /\ LET t == task[w]
     IN  /\ Post("credit", t.inv, t.ar, 0)
         /\ inv' = [inv EXCEPT
              ![t.note] = FinalizeRow(@),
              ![t.inv].status = IF @ \in {"finalized", "paid"} THEN "credited" ELSE @]
  /\ seqNo' = seqNo + 1
  /\ Set(w, Idle)

\* A statement fails: what had been committed stays, the rest is rolled back.
Fail(w) ==
  /\ task[w] # Idle
  /\ Set(w, Idle)
  /\ UNCHANGED <<inv, seqNo, book>>

Next ==
  \E w \in Worker :
    \/ CreateInvoice(w) \/ DeleteDraftInvoice(w)
    \/ ReadDraft(w) \/ FinalizeInvoice(w)
    \/ ReadPayable(w) \/ RecordPayment(w)
    \/ ReadCreditable(w) \/ CreateCreditNote(w) \/ SetInvoiceCredits(w) \/ CreditInvoice(w)
    \/ Fail(w)

Spec == Init /\ [][Next]_vars

-----------------------------------------------------------------------------
Issued(i) == inv[i].status \in {"finalized", "paid", "credited"}

VouchersOf(i, kind) == {v \in book : v.inv = i /\ v.kind = kind}

TypeOK ==
  /\ inv \in [Inv -> Invoice]
  /\ seqNo \in Nat
  /\ book \subseteq Voucher
  /\ task \in [Worker -> Task]

\* No two invoices bear the same number, and a number is an allocated one,
\* whatever finalizations and credits race (AllocInvoiceNumber's row lock).
NumbersUnique ==
  \A i, j \in Inv : Issued(i) =>
    /\ inv[i].number \in 1 .. seqNo
    /\ Issued(j) /\ inv[i].number = inv[j].number => i = j

\* The amount paid of an invoice is the sum of the payments in the books: no
\* payment is lost or counted twice when two of them race (AddInvoicePayment).
PaidMatchesBook ==
  \A i \in Inv : inv[i].paid = SumFunction([v \in VouchersOf(i, "payment") |-> v.sek])

\* A foreign-currency invoice is settled by one payment only, also when two
\* handlers pay it at once, and that payment clears exactly its receivable.
ForeignPaidOnce ==
  \A i \in Inv : inv[i].currency # "SEK" =>
    \A v, u \in VouchersOf(i, "payment") : v = u /\ v.ar = -Gross

\* An invoice marked paid has no receivable left on 1510, even when the payment
\* that settled it had decided on an older amount paid: the instalments, the
\* write-off to 3740 and the currency difference cover at least its total.
PaidOwesNothing ==
  \A i \in Inv : inv[i].status = "paid" =>
    SumFunction([v \in VouchersOf(i, "payment") |-> -v.ar]) >= Gross

\* An issued invoice keeps its number and its voucher and is never a draft
\* again nor deleted: a late finalization or delete finds no draft.
IssuedIsFinal ==
  [][\A i \in Inv : Issued(i) =>
       /\ Issued(i)'
       /\ inv'[i].number = inv[i].number /\ inv'[i].voucher = inv[i].voucher
       /\ inv[i].status = "credited" => inv'[i].status = "credited"]_vars

\* The register is sound whatever handlers race and whatever fails between two
\* transactions: rows of their kind, and every issued number its own.
RegisterSound == TypeOK /\ NumbersUnique

\* An invoice that has been settled owes nothing, in either currency, also when
\* two payments had decided on the same amount paid (RecordPayment).
SettledOwesNothing == ForeignPaidOnce /\ PaidOwesNothing

-----------------------------------------------------------------------------
(* The inductive invariant behind RegisterSound, IssuedIsFinal and         *)
(* ForeignPaidOnce.                                                        *)

\* What a handler has read stays true of the rows in this: an invoice it pays
\* or credits is issued, and a foreign one is paid in full.
Held(rows, t) ==
  /\ t.step # "idle" => rows[t.inv].status # "none"
  /\ t.step \in {"pay", "credit", "link", "issue"} =>
       rows[t.inv].status \in {"finalized", "paid", "credited"}
  /\ t.step = "pay" /\ rows[t.inv].currency # "SEK" => t.full /\ t.ar = -Gross
  /\ t.step \in {"link", "issue"} => t.note # t.inv /\ rows[t.note].status # "none"

TasksHeld == \A w \in Worker : Held(inv, task[w])

\* A payment belongs to an issued invoice; a foreign one has left "finalized".
PaymentsHeld ==
  \A v \in book : v.kind = "payment" =>
    /\ Issued(v.inv)
    /\ inv[v.inv].currency # "SEK" => inv[v.inv].status \in {"paid", "credited"}

InvoicesInv ==
  /\ TypeOK /\ IsFiniteSet(book) /\ NumbersUnique
  /\ TasksHeld /\ PaymentsHeld /\ ForeignPaidOnce

(* And the one behind PaidMatchesBook and PaidOwesNothing.                 *)

\* What a handler is about to book covers all the invoice still owes, if it is to
\* settle it, and is the amount received if not.
PayHeld(rows, t) ==
  t.step = "pay" =>
    /\ t.full => -t.ar >= Gross - rows[t.inv].paid
    /\ ~t.full => t.ar = -t.amount

\* The vouchers are numbered in order, and all that has been received for an
\* invoice that is not settled was credited to 1510.
SettlementInv ==
  /\ \A v \in book : v.id <= Cardinality(book)
  /\ \A w \in Worker : PayHeld(inv, task[w])
  /\ \A v \in book : v.kind = "payment" /\ inv[v.inv].status = "finalized" => v.ar = -v.sek
  /\ PaidMatchesBook /\ PaidOwesNothing
=============================================================================
