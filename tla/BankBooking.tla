---------------------------- MODULE BankBooking ----------------------------
(***************************************************************************)
(* Reconciling bank statement lines: ImportBankStatement,                  *)
(* BookBankTxnToInvoice (claim, pay, mark or unclaim), BookBankTxnToAccount*)
(* and IgnoreBankTxn, called by concurrent handlers (web and MCP).         *)
(*                                                                         *)
(* BookBankTxnToInvoice is not a transaction: the claim, RecordPayment's   *)
(* transaction and the mark are committed one by one, and a handler can    *)
(* stop between any two of them.  RecordPayment is seen here by its        *)
(* outcome: the voucher is posted, or it is not, or it is posted and the   *)
(* commit's answer is lost, which the caller cannot tell from a failure.   *)
(***************************************************************************)
EXTENDS Integers, FiniteSets

CONSTANTS Worker,       \* concurrent request handlers
          Txn,          \* bank transactions, by fingerprint
          Credit,       \* those with a positive amount
          MaxVouchers   \* bound on the vouchers of a behaviour

ASSUME BankAssumption == Credit \subseteq Txn /\ MaxVouchers \in Nat

VARIABLES
  status,   \* bank_transactions.status; "absent" before its import
  voucher,  \* bank_transactions.verification_id, 0 for NULL
  book,     \* vouchers: the transaction they book, how, and whether the
            \* handler that posted it was told so
  task      \* task[w]: the next statement of worker w, and its transaction

bankVars == <<status, voucher, book, task>>

Statuses == {"absent", "unmatched", "booking", "booked", "ignored"}

Steps == {"claim", "pay", "mark", "unclaim", "account"}

Free == [step |-> "idle"]

Task == {Free} \cup [step : Steps, txn : Txn, voucher : Nat]

Voucher == [id : Nat, txn : Txn, kind : {"payment", "account"}, answer : {"ack", "lost"}]

BankInit ==
  /\ status = [t \in Txn |-> "absent"]
  /\ voucher = [t \in Txn |-> 0]
  /\ book = {}
  /\ task = [w \in Worker |-> Free]

-----------------------------------------------------------------------------
Set(w, step, t, v) == task' = [task EXCEPT ![w] = [step |-> step, txn |-> t, voucher |-> v]]

Done(w) == task' = [task EXCEPT ![w] = Free]

NextId == Cardinality(book) + 1

Post(t, kind, answer) ==
  /\ NextId <= MaxVouchers
  /\ book' = book \cup {[id |-> NextId, txn |-> t, kind |-> kind, answer |-> answer]}

\* MarkBankTxnBooked ... WHERE status IN ('unmatched', 'booking').
Bookable(t) == status[t] \in {"unmatched", "booking"}

\* Fault: the UPDATE leaves verification_id out.
MarkWithoutVoucher(t, v) ==
  /\ status' = [status EXCEPT ![t] = "booked"]
  /\ UNCHANGED voucher

MarkBankTxnBooked(t, v) ==
  /\ status' = [status EXCEPT ![t] = "booked"]
  /\ voucher' = [voucher EXCEPT ![t] = v]

\* INSERT ... ON CONFLICT (company_id, fingerprint) DO NOTHING, line by line: a
\* line that is already there stays as it is.
ImportLine(t) ==
  /\ status[t] = "absent"
  /\ status' = [status EXCEPT ![t] = "unmatched"]
  /\ UNCHANGED <<voucher, book, task>>

\* BookBankTxnToInvoice reads the transaction.
ReadForInvoice(w, t) ==
  /\ task[w] = Free
  /\ status[t] = "unmatched" /\ t \in Credit
  /\ Set(w, "claim", t, 0)
  /\ UNCHANGED <<status, voucher, book>>

\* Fault: the row count of the claim is not looked at.
ClaimUnchecked(w) ==
  /\ task[w].step = "claim"
  /\ LET t == task[w].txn
     IN  /\ status' = [status EXCEPT ![t] = IF @ = "unmatched" THEN "booking" ELSE @]
         /\ Set(w, "pay", t, 0)
  /\ UNCHANGED <<voucher, book>>

\* ClaimBankTxn ... WHERE status = 'unmatched'; 0 rows is ErrTxnNotOpen.
ClaimBankTxn(w) ==
  /\ task[w].step = "claim"
  /\ LET t == task[w].txn
     IN  IF status[t] = "unmatched"
         THEN status' = [status EXCEPT ![t] = "booking"] /\ Set(w, "pay", t, 0)
         ELSE Done(w) /\ UNCHANGED status
  /\ UNCHANGED <<voucher, book>>

PaymentPosted(w) ==
  /\ task[w].step = "pay"
  /\ Post(task[w].txn, "payment", "ack")
  /\ Set(w, "mark", task[w].txn, NextId)
  /\ UNCHANGED <<status, voucher>>

\* RecordPayment refuses the payment or its transaction is rolled back.
PaymentFails(w) ==
  /\ task[w].step = "pay"
  /\ Set(w, "unclaim", task[w].txn, 0)
  /\ UNCHANGED <<status, voucher, book>>

\* The connection is lost after the commit: tx.Commit returns an error.
PaymentAckLost(w) ==
  /\ task[w].step = "pay"
  /\ Post(task[w].txn, "payment", "lost")
  /\ Set(w, "unclaim", task[w].txn, 0)
  /\ UNCHANGED <<status, voucher>>

\* Fault: the release has no WHERE status = 'booking'.
UnclaimUnguarded(w) ==
  /\ task[w].step = "unclaim"
  /\ status' = [status EXCEPT ![task[w].txn] = "unmatched"]
  /\ Done(w)
  /\ UNCHANGED <<voucher, book>>

\* UnclaimBankTxn ... WHERE status = 'booking'.
UnclaimBankTxn(w) ==
  /\ task[w].step = "unclaim"
  /\ LET t == task[w].txn
     IN  status' = [status EXCEPT ![t] = IF @ = "booking" THEN "unmatched" ELSE @]
  /\ Done(w)
  /\ UNCHANGED <<voucher, book>>

\* MarkBankTxnBooked; 0 rows is ErrTxnNotOpen, with the payment posted.
MarkBooked(w) ==
  /\ task[w].step = "mark"
  /\ LET t == task[w].txn
     IN  IF Bookable(t) THEN MarkBankTxnBooked(t, task[w].voucher)
         ELSE UNCHANGED <<status, voucher>>
  /\ Done(w)
  /\ UNCHANGED book

\* BookBankTxnToAccount reads the transaction.
ReadForAccount(w, t) ==
  /\ task[w] = Free
  /\ status[t] = "unmatched"
  /\ Set(w, "account", t, 0)
  /\ UNCHANGED <<status, voucher, book>>

\* Fault: the row count of the mark is not looked at.
BookToAccountUnchecked(w) ==
  /\ task[w].step = "account"
  /\ LET t == task[w].txn
     IN  /\ Post(t, "account", "ack")
         /\ IF Bookable(t) THEN MarkBankTxnBooked(t, NextId) ELSE UNCHANGED <<status, voucher>>
  /\ Done(w)

\* Its transaction: post the voucher and mark, rolled back on 0 rows.
BookToAccount(w) ==
  /\ task[w].step = "account"
  /\ LET t == task[w].txn
     IN  IF Bookable(t) THEN Post(t, "account", "ack") /\ MarkBankTxnBooked(t, NextId)
         ELSE UNCHANGED <<status, voucher, book>>
  /\ Done(w)

\* IgnoreBankTxn ... WHERE status = 'unmatched'.
IgnoreBankTxn(w, t) ==
  /\ task[w] = Free
  /\ status[t] = "unmatched"
  /\ status' = [status EXCEPT ![t] = "ignored"]
  /\ UNCHANGED <<voucher, book, task>>

\* The next statement fails for good (the request is cancelled, so the release
\* of the claim fails with it), or the process stops and restarts.
HandlerStops(w) ==
  /\ task[w] # Free
  /\ Done(w)
  /\ UNCHANGED <<status, voucher, book>>

Step(w) ==
  \/ ClaimBankTxn(w) \/ PaymentPosted(w) \/ PaymentFails(w) \/ PaymentAckLost(w)
  \/ UnclaimBankTxn(w) \/ MarkBooked(w) \/ BookToAccount(w)

BankNext ==
  \/ \E t \in Txn : ImportLine(t)
  \/ \E w \in Worker : Step(w) \/ HandlerStops(w)
  \/ \E w \in Worker, t \in Txn : ReadForInvoice(w, t) \/ ReadForAccount(w, t) \/ IgnoreBankTxn(w, t)

BankSpec == BankInit /\ [][BankNext]_bankVars

-----------------------------------------------------------------------------
VouchersOf(t, kind) == {v \in book : v.txn = t /\ v.kind = kind}

\* w has claimed t and not yet released or booked it.
Holds(w, t) == task[w] # Free /\ task[w].txn = t /\ task[w].step \in {"pay", "mark", "unclaim"}

BankTypeOK ==
  /\ status \in [Txn -> Statuses]
  /\ voucher \in [Txn -> Nat]
  /\ book \subseteq Voucher
  /\ task \in [Worker -> Task]

\* "exactly one caller wins": two handlers never pay, mark or release the same
\* transaction at once, and while one does the transaction is not open to others.
OneClaim ==
  \A w \in Worker, t \in Txn : Holds(w, t) =>
    /\ status[t] \in {"booking", "booked"}
    /\ \A u \in Worker : Holds(u, t) => u = w

\* The claim keeps its promise whenever the outcome of a payment is known to its
\* handler: at most one such payment per transaction, and at most one booking to
\* an account, through any number of retries, restarts and races.
KnownPaymentOnce ==
  \A t \in Txn :
    /\ \A v, u \in VouchersOf(t, "payment") : v.answer = "ack" /\ u.answer = "ack" => v = u
    /\ \A v, u \in VouchersOf(t, "account") : v = u

\* A transaction shown as booked points to a posted voucher of its own.
BookedHasVoucher ==
  \A t \in Txn : status[t] = "booked" => \E v \in book : v.id = voucher[t] /\ v.txn = t

\* A booked transaction stays booked on its voucher: a late mark, release or
\* second booking finds 0 rows.
BookedIsFinal ==
  [][\A t \in Txn : status[t] = "booked" =>
       status'[t] = "booked" /\ voucher'[t] = voucher[t]]_bankVars

-----------------------------------------------------------------------------
(* The inductive invariant behind them.                                    *)

\* A transaction that may still be claimed, or whose payment is still open, has
\* no payment its handler knows of; an account voucher comes with the mark.
OpenIsUnpaid ==
  \A v \in book :
    /\ v.kind = "payment" /\ v.answer = "ack" =>
         /\ status[v.txn] \in {"booking", "booked"}
         /\ \A w \in Worker : Holds(w, v.txn) => task[w].step = "mark"
    /\ v.kind = "account" => status[v.txn] = "booked"

\* A handler about to mark a transaction has posted the voucher it marks it with.
MarkHasVoucher ==
  \A w \in Worker : task[w].step = "mark" =>
    \E v \in book : v.id = task[w].voucher /\ v.txn = task[w].txn

BankInv ==
  /\ BankTypeOK /\ IsFiniteSet(book)
  /\ OneClaim /\ OpenIsUnpaid /\ KnownPaymentOnce
  /\ MarkHasVoucher /\ BookedHasVoucher

=============================================================================
