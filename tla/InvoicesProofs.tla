--------------------------- MODULE InvoicesProofs ---------------------------
(***************************************************************************)
(* Proofs about Invoices, for any number of workers and invoices, any      *)
(* total, payments, threshold and number of vouchers.                      *)
(***************************************************************************)
EXTENDS Invoices, LedgerProofs

issued == {"finalized", "paid", "credited"}

\* What no step does to a row: it does not disappear, change its currency, or
\* leave the issued states, and an issued one keeps number and voucher.
RowsKeep ==
  \A i \in Inv :
    /\ inv[i].status # "none" =>
         inv'[i].status # "none" /\ inv'[i].currency = inv[i].currency
    /\ inv[i].status \in issued =>
         /\ inv'[i].status \in issued
         /\ inv'[i].number = inv[i].number /\ inv'[i].voucher = inv[i].voucher
         /\ inv[i].status \in {"paid", "credited"} => inv'[i].status \in {"paid", "credited"}
         /\ inv[i].status = "credited" => inv'[i].status = "credited"

\* No invoice is issued in the step.
NothingIssued == \A i \in Inv : inv'[i].status \in issued => inv[i].status \in issued

\* Numbers stay unique when at most one row is issued, with the next number.
NumbersGrow ==
  \/ /\ seqNo' = seqNo
     /\ NothingIssued
  \/ /\ seqNo' = seqNo + 1
     /\ \A i \in Inv : inv'[i].status \in issued /\ inv[i].status \notin issued =>
          inv'[i].number = seqNo + 1
     /\ \A i, j \in Inv :
          /\ inv'[i].status \in issued /\ inv[i].status \notin issued
          /\ inv'[j].status \in issued /\ inv[j].status \notin issued
          => i = j

\* What a handler has read of the rows survives every step that keeps them.
LEMMA HeldKept ==
  ASSUME TypeOK, RowsKeep, NEW t \in Task, Held(inv, t)
  PROVE  Held(inv', t)
<1>1. CASE t = Idle
  BY <1>1 DEF Held, Idle
<1>2. CASE t \in [step : {"finalize"}, inv : Inv]
  BY <1>2 DEF Held, RowsKeep, issued
<1>3. CASE t \in [step : {"pay"}, inv : Inv, amount : Payments, ar : Int, full : BOOLEAN]
  BY <1>3 DEF Held, RowsKeep, issued
<1>4. CASE t \in [step : {"credit"}, inv : Inv, ar : Int]
  BY <1>4 DEF Held, RowsKeep, issued
<1>5. CASE t \in [step : {"link", "issue"}, inv : Inv, ar : Int, note : Inv]
  BY <1>5 DEF Held, RowsKeep, issued
<1> QED
  BY <1>1, <1>2, <1>3, <1>4, <1>5 DEF Task

\* A step in which worker w goes on to t, the others stay where they are.
LEMMA TasksKept ==
  ASSUME InvoicesInv, RowsKeep, NEW w \in Worker, NEW t \in Task, Set(w, t), Held(inv', t)
  PROVE  task' \in [Worker -> Task] /\ TasksHeld'
<1>1. task' \in [Worker -> Task] /\ task'[w] = t
  BY DEF InvoicesInv, TypeOK, Set
<1>2. ASSUME NEW u \in Worker, u # w PROVE Held(inv', task'[u])
  <2>1. task'[u] = task[u] /\ task[u] \in Task /\ Held(inv, task[u])
    BY <1>2 DEF InvoicesInv, TypeOK, Set, TasksHeld
  <2> QED
    BY <2>1, HeldKept DEF InvoicesInv
<1> QED
  BY <1>1, <1>2 DEF TasksHeld

\* Numbers of issued rows stay their own.
LEMMA NumbersKept ==
  ASSUME TypeOK, NumbersUnique, RowsKeep, NumbersGrow
  PROVE  NumbersUnique'
<1>1. seqNo \in Nat /\ seqNo' \in Nat /\ seqNo <= seqNo'
  BY DEF TypeOK, NumbersGrow
<1> SUFFICES ASSUME NEW i \in Inv, NEW j \in Inv, inv'[i].status \in issued
             PROVE  /\ inv'[i].number \in 1 .. seqNo'
                    /\ inv'[j].status \in issued /\ inv'[i].number = inv'[j].number => i = j
  BY DEF NumbersUnique, Issued, issued
<1>2. \A k \in Inv : inv[k].status \in issued =>
        inv'[k].number = inv[k].number /\ inv[k].number \in 1 .. seqNo
  BY DEF RowsKeep, NumbersUnique, Issued, issued
<1>3. CASE seqNo' = seqNo /\ NothingIssued
  BY <1>1, <1>2, <1>3 DEF NumbersUnique, NothingIssued, Issued, issued
<1>4. CASE /\ seqNo' = seqNo + 1
           /\ \A k \in Inv : inv'[k].status \in issued /\ inv[k].status \notin issued =>
                inv'[k].number = seqNo + 1
           /\ \A k, l \in Inv :
                /\ inv'[k].status \in issued /\ inv[k].status \notin issued
                /\ inv'[l].status \in issued /\ inv[l].status \notin issued
                => k = l
  <2>1. inv'[i].number \in 1 .. seqNo'
    BY <1>1, <1>2, <1>4
  <2>2. ASSUME inv'[j].status \in issued, inv'[i].number = inv'[j].number PROVE i = j
    <3>1. CASE inv[i].status \in issued /\ inv[j].status \in issued
      BY <1>2, <2>2, <3>1 DEF NumbersUnique, Issued, issued
    <3>2. CASE inv[i].status \in issued /\ inv[j].status \notin issued
      BY <1>1, <1>2, <1>4, <2>2, <3>2
    <3>3. CASE inv[i].status \notin issued /\ inv[j].status \in issued
      BY <1>1, <1>2, <1>4, <2>2, <3>3
    <3>4. CASE inv[i].status \notin issued /\ inv[j].status \notin issued
      BY <1>4, <2>2, <3>4
    <3> QED
      BY <3>1, <3>2, <3>3, <3>4
  <2> QED
    BY <2>1, <2>2
<1> QED
  BY <1>3, <1>4 DEF NumbersGrow

\* The books as they were: payments keep their issued invoices.
LEMMA OldPaymentsHeld ==
  ASSUME TypeOK, PaymentsHeld, RowsKeep, NEW v \in book, v.kind = "payment"
  PROVE  /\ v.inv \in Inv /\ inv'[v.inv].currency = inv[v.inv].currency
         /\ inv'[v.inv].status \in issued
         /\ inv'[v.inv].currency # "SEK" => inv'[v.inv].status \in {"paid", "credited"}
<1>1. v.inv \in Inv
  BY DEF TypeOK, Voucher
<1> QED
  BY <1>1 DEF PaymentsHeld, RowsKeep, Issued, issued

\* A step that posts no payment keeps what is known of payments.
LEMMA NoPayment ==
  ASSUME TypeOK, PaymentsHeld, ForeignPaidOnce, RowsKeep,
         \A v \in book' : v.kind = "payment" => v \in book
  PROVE  PaymentsHeld' /\ ForeignPaidOnce'
<1>1. PaymentsHeld'
  BY OldPaymentsHeld DEF PaymentsHeld, Issued, issued
<1>2. ForeignPaidOnce'
  BY OldPaymentsHeld DEF ForeignPaidOnce, VouchersOf
<1> QED
  BY <1>1, <1>2

\* A voucher is added to the books.
LEMMA PostKept ==
  ASSUME TypeOK, IsFiniteSet(book), NEW kind \in {"invoice", "payment", "credit"},
         NEW i \in Inv, NEW ar \in Int, NEW sek \in Nat, Post(kind, i, ar, sek)
  PROVE  /\ Cardinality(book) \in Nat
         /\ book' \subseteq Voucher /\ IsFiniteSet(book')
         /\ \E n \in Nat : book' = book \cup {[id |-> n, kind |-> kind, inv |-> i, ar |-> ar, sek |-> sek]}
<1>1. Cardinality(book) \in Nat
  BY FS_CardinalityType
<1>2. book' = book \cup {[id |-> Cardinality(book) + 1, kind |-> kind, inv |-> i, ar |-> ar, sek |-> sek]}
  BY DEF Post
<1>3. IsFiniteSet(book')
  BY <1>2, FS_AddElement
<1>4. [id |-> Cardinality(book) + 1, kind |-> kind, inv |-> i, ar |-> ar, sek |-> sek] \in Voucher
  BY <1>1 DEF Voucher
<1> QED
  BY <1>1, <1>2, <1>3, <1>4 DEF TypeOK

\* The UPDATE of a finalization issues a draft and leaves any other row alone.
LEMMA FinalizeRowOf ==
  ASSUME NEW row \in Invoice, seqNo \in Nat, Cardinality(book) \in Nat
  PROVE  /\ FinalizeRow(row) \in Invoice
         /\ FinalizeRow(row).currency = row.currency
         /\ row.status = "draft" =>
              FinalizeRow(row).status = "finalized" /\ FinalizeRow(row).number = seqNo + 1
         /\ row.status # "draft" => FinalizeRow(row) = row
<1> DEFINE new == [row EXCEPT !.status = "finalized", !.number = seqNo + 1, !.voucher = Cardinality(book) + 1]
<1>1. \A m, n \in Nat : [row EXCEPT !.status = "finalized", !.number = m, !.voucher = n] \in Invoice
  BY DEF Invoice, Statuses
<1>a. seqNo + 1 \in Nat /\ Cardinality(book) + 1 \in Nat
  OBVIOUS
<1>2. new \in Invoice
  BY <1>1, <1>a
<1>3. new.currency = row.currency /\ new.status = "finalized" /\ new.number = seqNo + 1
  BY DEF Invoice
<1>4. FinalizeRow(row) = IF row.status = "draft" THEN new ELSE row
  BY DEF FinalizeRow
<1> HIDE DEF new
<1> QED
  BY <1>2, <1>3, <1>4

\* A new draft.
LEMMA DraftOf ==
  ASSUME NEW c \in Currencies
  PROVE  /\ [Blank EXCEPT !.status = "draft", !.currency = c] \in Invoice
         /\ [Blank EXCEPT !.status = "draft", !.currency = c].status = "draft"
  BY DEF Blank, Invoice, Statuses, Currencies

\* Nothing is issued and nothing is posted: only a row or the task of w changes.
LEMMA QuietStep ==
  ASSUME InvoicesInv, RowsKeep, inv' \in [Inv -> Invoice],
         NothingIssued,
         UNCHANGED <<seqNo, book>>, task' \in [Worker -> Task], TasksHeld'
  PROVE  InvoicesInv'
<1>1. TypeOK' /\ IsFiniteSet(book')
  BY DEF InvoicesInv, TypeOK
<1>2. NumbersUnique'
  BY NumbersKept DEF InvoicesInv, NumbersGrow, NothingIssued
<1>3. PaymentsHeld' /\ ForeignPaidOnce'
  BY NoPayment DEF InvoicesInv
<1> QED
  BY <1>1, <1>2, <1>3 DEF InvoicesInv

\* A row that is not issued is written, and stays so.
LEMMA RowWritten ==
  ASSUME TypeOK, NEW i \in Inv, NEW row \in Invoice, inv' = [inv EXCEPT ![i] = row],
         inv[i].status \notin issued, row.status \notin issued,
         inv[i].status # "none" => row.status # "none" /\ row.currency = inv[i].currency
  PROVE  /\ RowsKeep /\ inv' \in [Inv -> Invoice]
         /\ NothingIssued
<1>1. \A k \in Inv : inv'[k] = IF k = i THEN row ELSE inv[k]
  BY DEF TypeOK
<1>2. inv' \in [Inv -> Invoice]
  BY DEF TypeOK
<1>3. RowsKeep
  BY <1>1 DEF RowsKeep
<1> QED
  BY <1>1, <1>2, <1>3 DEF NothingIssued

\* The tasks when no worker goes on.
LEMMA TasksStay ==
  ASSUME InvoicesInv, RowsKeep, UNCHANGED task
  PROVE  task' \in [Worker -> Task] /\ TasksHeld'
  BY HeldKept DEF InvoicesInv, TypeOK, TasksHeld

\* The rows when none is written.
LEMMA RowsStay ==
  ASSUME TypeOK, UNCHANGED inv
  PROVE  /\ RowsKeep /\ inv' \in [Inv -> Invoice]
         /\ NothingIssued
  BY DEF TypeOK, RowsKeep, NothingIssued, issued

\* A step that only decides what w does next.
LEMMA ReadStep ==
  ASSUME InvoicesInv, NEW w \in Worker, NEW t \in Task, Set(w, t), Held(inv, t),
         UNCHANGED <<inv, seqNo, book>>
  PROVE  InvoicesInv' /\ RowsKeep
<1>0. TypeOK
  BY DEF InvoicesInv
<1>1. RowsKeep /\ inv' \in [Inv -> Invoice] /\ NothingIssued
  BY <1>0, RowsStay
<1>2. task' \in [Worker -> Task] /\ TasksHeld'
  BY <1>1, TasksKept
<1> QED
  BY <1>1, <1>2, QuietStep

\* A worker may always stop.
LEMMA IdleHeld == Idle \in Task /\ \A rows : Held(rows, Idle)
  BY DEF Idle, Task, Held

\* A new installation.
LEMMA InvoicesInit == Init => InvoicesInv
<1> SUFFICES ASSUME Init PROVE InvoicesInv
  OBVIOUS
<1>1. Blank \in Invoice /\ Blank.status = "none"
  BY DEF Blank, Invoice, Statuses, Currencies
<1>2. TypeOK
  BY <1>1, IdleHeld DEF Init, TypeOK
<1>3. IsFiniteSet(book) /\ PaymentsHeld /\ ForeignPaidOnce
  BY FS_EmptySet DEF Init, PaymentsHeld, ForeignPaidOnce, VouchersOf
<1>4. NumbersUnique
  BY <1>1 DEF Init, NumbersUnique, Issued
<1>5. TasksHeld
  BY IdleHeld DEF Init, TasksHeld
<1> QED
  BY <1>2, <1>3, <1>4, <1>5 DEF InvoicesInv

\* The step issues row n and no other; an issued row may become a credited one.
IssuesOnly(n) ==
  \A k \in Inv :
    \/ inv'[k] = inv[k]
    \/ k = n /\ inv'[k] = FinalizeRow(inv[k])
    \/ /\ inv[k].status \in {"finalized", "paid"} /\ inv'[k].status = "credited"
       /\ inv'[k].currency = inv[k].currency
       /\ inv'[k].number = inv[k].number /\ inv'[k].voucher = inv[k].voucher

\* One invoice or note is issued, with the next number.
LEMMA IssueStep ==
  ASSUME InvoicesInv, NEW w \in Worker, NEW i \in Inv, NEW n \in Inv, NEW ar \in Int,
         NEW kind \in {"invoice", "credit"}, Post(kind, i, ar, 0),
         inv[n].status # "none", inv' \in [Inv -> Invoice], seqNo' = seqNo + 1, Set(w, Idle),
         IssuesOnly(n)
  PROVE  InvoicesInv' /\ RowsKeep
<1>0. TypeOK /\ IsFiniteSet(book) /\ seqNo \in Nat /\ inv \in [Inv -> Invoice]
  BY DEF InvoicesInv, TypeOK
<1>1. /\ Cardinality(book) \in Nat /\ book' \subseteq Voucher /\ IsFiniteSet(book')
      /\ \E m \in Nat : book' = book \cup {[id |-> m, kind |-> kind, inv |-> i, ar |-> ar, sek |-> 0]}
  BY <1>0, PostKept
<1>2. \A k \in Inv :
        \/ inv'[k] = inv[k]
        \/ /\ k = n /\ inv[k].status = "draft" /\ inv'[k].status = "finalized"
           /\ inv'[k].number = seqNo + 1 /\ inv'[k].currency = inv[k].currency
        \/ /\ inv[k].status \in {"finalized", "paid"} /\ inv'[k].status = "credited"
           /\ inv'[k].currency = inv[k].currency
           /\ inv'[k].number = inv[k].number /\ inv'[k].voucher = inv[k].voucher
  BY <1>0, <1>1, FinalizeRowOf DEF IssuesOnly
<1>3. RowsKeep
  BY <1>2 DEF RowsKeep, issued
<1>4. NumbersGrow
  BY <1>2 DEF NumbersGrow, issued
<1>5. NumbersUnique'
  BY <1>0, <1>3, <1>4, NumbersKept DEF InvoicesInv
<1>6. task' \in [Worker -> Task] /\ TasksHeld'
  BY <1>3, IdleHeld, TasksKept
<1>7. TypeOK'
  BY <1>0, <1>1, <1>6 DEF TypeOK
<1>8. \A v \in book' : v.kind = "payment" => v \in book
  BY <1>1
<1>9. PaymentsHeld' /\ ForeignPaidOnce'
  BY <1>3, <1>8, NoPayment DEF InvoicesInv
<1> QED
  BY <1>1, <1>3, <1>5, <1>6, <1>7, <1>9 DEF InvoicesInv

\* A payment is booked on an issued invoice; one that settles it found it finalized.
LEMMA PayStep ==
  ASSUME InvoicesInv, NEW w \in Worker, RecordPayment(w)
  PROVE  InvoicesInv' /\ RowsKeep
<1> DEFINE t == task[w]
<1>0. /\ TypeOK /\ IsFiniteSet(book) /\ inv \in [Inv -> Invoice] /\ seqNo \in Nat
      /\ t.step = "pay" /\ t \in Task /\ Held(inv, t) /\ Set(w, Idle) /\ seqNo' = seqNo
  BY DEF InvoicesInv, TypeOK, TasksHeld, RecordPayment
<1>1. t.inv \in Inv /\ t.amount \in Nat /\ t.ar \in Int /\ t.full \in BOOLEAN
  <2>1. t \in [step : {"pay"}, inv : Inv, amount : Payments, ar : Int, full : BOOLEAN]
    BY <1>0 DEF Task, Idle
  <2>2. t.inv \in Inv /\ t.amount \in Payments /\ t.ar \in Int /\ t.full \in BOOLEAN
    BY <2>1
  <2> QED
    BY <2>2, InvoicesAssumption
<1>2. /\ inv[t.inv].status \in issued
      /\ inv[t.inv].currency # "SEK" => t.full /\ t.ar = -Gross
  BY <1>0 DEF Held, issued
<1>3. CASE t.full /\ inv[t.inv].status # "finalized"
  <2>1. UNCHANGED <<inv, seqNo, book>>
    BY <1>0, <1>3 DEF RecordPayment
  <2> QED
    BY <1>0, <2>1, IdleHeld, ReadStep
<1>4. CASE ~(t.full /\ inv[t.inv].status # "finalized")
  <2> DEFINE row == inv[t.inv]
             new == [[row EXCEPT !.paid = @ + t.amount] EXCEPT !.status = IF t.full THEN "paid" ELSE @]
  <2>1. Post("payment", t.inv, t.ar, t.amount)
    BY <1>4 DEF RecordPayment
  <2>2. inv' = [inv EXCEPT ![t.inv] = new]
    <3>1. inv' = [inv EXCEPT ![t.inv].paid = @ + t.amount,
                             ![t.inv].status = IF t.full THEN "paid" ELSE @]
      BY <1>4 DEF RecordPayment
    <3> QED
      BY <1>0, <1>1, <3>1 DEF Invoice
  <2>3. /\ new \in Invoice /\ new.currency = row.currency /\ new.number = row.number
        /\ new.voucher = row.voucher /\ new.status = IF t.full THEN "paid" ELSE row.status
    <3>1. row \in Invoice /\ row.paid + t.amount \in Nat /\ row.status \in Statuses
      BY <1>0, <1>1 DEF Invoice
    <3>2. \A n \in Nat, st \in Statuses :
            LET r == [[row EXCEPT !.paid = n] EXCEPT !.status = st]
            IN  /\ r \in Invoice /\ r.currency = row.currency /\ r.number = row.number
                /\ r.voucher = row.voucher /\ r.status = st
      BY <3>1 DEF Invoice
    <3>3. (IF t.full THEN "paid" ELSE row.status) \in Statuses
      BY <3>1 DEF Statuses
    <3>4. new = [[row EXCEPT !.paid = row.paid + t.amount]
                    EXCEPT !.status = IF t.full THEN "paid" ELSE row.status]
      BY <3>1 DEF Invoice
    <3> HIDE DEF new, t, row
    <3> QED
      BY <3>1, <3>2, <3>3, <3>4
  <2> HIDE DEF new, t
  <2>4. inv' \in [Inv -> Invoice] /\ \A k \in Inv : inv'[k] = IF k = t.inv THEN new ELSE inv[k]
    BY <1>0, <1>1, <2>2, <2>3
  <2>5. RowsKeep
    BY <1>1, <1>2, <1>4, <2>3, <2>4 DEF RowsKeep, issued
  <2>6. NumbersGrow
    BY <1>0, <1>1, <1>2, <2>4 DEF NumbersGrow, NothingIssued
  <2>7. NumbersUnique'
    BY <1>0, <2>5, <2>6, NumbersKept DEF InvoicesInv
  <2>8. task' \in [Worker -> Task] /\ TasksHeld'
    BY <1>0, <2>5, IdleHeld, TasksKept
  <2>9. book' \subseteq Voucher /\ IsFiniteSet(book')
    BY <1>0, <1>1, <2>1, PostKept
  <2>10. PICK m \in Nat : book' = book \cup {[id |-> m, kind |-> "payment", inv |-> t.inv, ar |-> t.ar,
                                              sek |-> t.amount]}
    BY <1>0, <1>1, <2>1, PostKept
  <2> DEFINE p == [id |-> m, kind |-> "payment", inv |-> t.inv, ar |-> t.ar, sek |-> t.amount]
  <2>11. p.inv = t.inv /\ p.ar = t.ar /\ book' = book \cup {p}
    BY <2>10
  <2> HIDE DEF p
  <2>12. inv'[t.inv].currency # "SEK" =>
           inv[t.inv].status = "finalized" /\ inv'[t.inv].status = "paid" /\ t.ar = -Gross
    BY <1>1, <1>2, <1>4, <2>3, <2>4
  <2>13. PaymentsHeld'
    <3>1. ASSUME NEW v \in book, v.kind = "payment"
          PROVE  /\ inv'[v.inv].status \in issued
                 /\ inv'[v.inv].currency # "SEK" => inv'[v.inv].status \in {"paid", "credited"}
      BY <1>0, <2>5, <3>1, OldPaymentsHeld DEF InvoicesInv
    <3>2. inv'[p.inv].status \in issued
      BY <1>1, <1>2, <2>5, <2>11 DEF RowsKeep
    <3> QED
      BY <2>11, <2>12, <3>1, <3>2 DEF PaymentsHeld, Issued, issued
  <2>14. ForeignPaidOnce'
    <3> SUFFICES ASSUME NEW k \in Inv, inv'[k].currency # "SEK", NEW v \in book', NEW u \in book',
                        v.inv = k, u.inv = k, v.kind = "payment", u.kind = "payment"
                 PROVE  v = u /\ v.ar = -Gross
      BY DEF ForeignPaidOnce, VouchersOf
    <3>1. CASE k = t.inv
      <4>1. ASSUME NEW x \in book, x.inv = k, x.kind = "payment" PROVE FALSE
        <5>1. inv[x.inv].currency # "SEK" => inv[x.inv].status \in {"paid", "credited"}
          BY <4>1 DEF InvoicesInv, PaymentsHeld
        <5>2. inv[x.inv].currency = inv'[x.inv].currency
          BY <1>0, <2>5, <4>1, OldPaymentsHeld DEF InvoicesInv
        <5> QED
          BY <2>12, <3>1, <4>1, <5>1, <5>2
      <4> QED
        BY <2>11, <2>12, <3>1, <4>1
    <3>2. CASE k # t.inv
      <4>1. v \in book /\ u \in book /\ inv[k].currency # "SEK"
        BY <2>4, <2>11, <3>2
      <4> QED
        BY <4>1 DEF InvoicesInv, ForeignPaidOnce, VouchersOf
    <3> QED
      BY <3>1, <3>2
  <2>15. TypeOK'
    BY <1>0, <2>4, <2>8, <2>9 DEF TypeOK
  <2> QED
    BY <2>5, <2>7, <2>8, <2>9, <2>13, <2>14, <2>15 DEF InvoicesInv
<1> QED
  BY <1>3, <1>4

\* What RecordPayment has decided is a payment it can book.
LEMMA SettlementOf ==
  ASSUME NEW currency \in Currencies, NEW paid \in Nat, NEW amount \in Payments
  PROVE  /\ Settlement(currency, paid, amount).ar \in Int
         /\ Settlement(currency, paid, amount).full \in BOOLEAN
         /\ currency # "SEK" =>
              Settlement(currency, paid, amount).full /\ Settlement(currency, paid, amount).ar = -Gross
<1> DEFINE residual == Gross - (paid + amount)
           small == abs(residual) < oresRoundingThreshold
<1>1. Gross \in Int /\ amount \in Int /\ residual \in Int
  BY InvoicesAssumption
<1>2. CASE currency # "SEK"
  BY <1>1, <1>2 DEF Settlement
<1>3. CASE currency = "SEK"
  <2>1. /\ Settlement(currency, paid, amount).full = (residual = 0 \/ small)
        /\ Settlement(currency, paid, amount).ar = IF small THEN -(amount + residual) ELSE -amount
    BY <1>3 DEF Settlement
  <2>2. (residual = 0 \/ small) \in BOOLEAN
    OBVIOUS
  <2>3. (IF small THEN -(amount + residual) ELSE -amount) \in Int
    BY <1>1
  <2> HIDE DEF small, residual
  <2>4. Settlement(currency, paid, amount).full \in BOOLEAN
    BY <2>1, <2>2, Zenon
  <2>5. Settlement(currency, paid, amount).ar \in Int
    BY <2>1, <2>3, Zenon
  <2> QED
    BY <1>3, <2>4, <2>5
<1> QED
  BY <1>2, <1>3

\* Every step keeps the invariant, and what RowsKeep says of the rows.
LEMMA InvoicesStep == InvoicesInv /\ [Next]_vars => InvoicesInv' /\ RowsKeep
<1> SUFFICES ASSUME InvoicesInv, [Next]_vars PROVE InvoicesInv' /\ RowsKeep
  OBVIOUS
<1>0. /\ TypeOK /\ inv \in [Inv -> Invoice] /\ book \subseteq Voucher /\ \A i \in Inv : inv[i] \in Invoice
      /\ \A w \in Worker : task[w] \in Task /\ Held(inv, task[w])
  BY DEF InvoicesInv, TypeOK, TasksHeld
<1>1. ASSUME NEW w \in Worker, CreateInvoice(w) PROVE InvoicesInv' /\ RowsKeep
  <2>1. PICK i \in Inv, c \in Currencies :
          /\ inv[i].status = "none"
          /\ inv' = [inv EXCEPT ![i] = [Blank EXCEPT !.status = "draft", !.currency = c]]
    BY <1>1 DEF CreateInvoice
  <2>2. RowsKeep /\ inv' \in [Inv -> Invoice] /\ NothingIssued
    BY <1>0, <2>1, DraftOf, RowWritten DEF issued
  <2> QED
    BY <1>1, <2>2, TasksStay, QuietStep DEF CreateInvoice
<1>2. ASSUME NEW w \in Worker, DeleteDraftInvoice(w) PROVE InvoicesInv' /\ RowsKeep
  <2>1. PICK i \in Inv : inv[i].status = "draft" /\ inv' = [inv EXCEPT ![i].status = "deleted"]
    BY <1>2 DEF DeleteDraftInvoice
  <2> DEFINE row == [inv[i] EXCEPT !.status = "deleted"]
  <2>2. row \in Invoice /\ row.status = "deleted" /\ row.currency = inv[i].currency
    BY <1>0 DEF Invoice, Statuses
  <2>3. inv' = [inv EXCEPT ![i] = row]
    BY <2>1
  <2> HIDE DEF row
  <2>4. RowsKeep /\ inv' \in [Inv -> Invoice] /\ NothingIssued
    BY <1>0, <2>1, <2>2, <2>3, RowWritten DEF issued
  <2> QED
    BY <1>2, <2>4, TasksStay, QuietStep DEF DeleteDraftInvoice
<1>3. ASSUME NEW w \in Worker, ReadDraft(w) PROVE InvoicesInv' /\ RowsKeep
  <2>1. PICK i \in Inv : inv[i].status = "draft" /\ Set(w, [step |-> "finalize", inv |-> i])
    BY <1>3 DEF ReadDraft
  <2>2. [step |-> "finalize", inv |-> i] \in Task /\ Held(inv, [step |-> "finalize", inv |-> i])
    BY <2>1 DEF Task, Held
  <2> QED
    BY <1>3, <2>1, <2>2, ReadStep DEF ReadDraft
<1>4. ASSUME NEW w \in Worker, FinalizeInvoice(w) PROVE InvoicesInv' /\ RowsKeep
  <2> DEFINE i == task[w].inv
  <2>1. i \in Inv /\ inv[i].status # "none"
    BY <1>0, <1>4 DEF FinalizeInvoice, Task, Idle, Held
  <2>2. /\ Post("invoice", i, Gross, 0) /\ inv' = [inv EXCEPT ![i] = FinalizeRow(inv[i])]
        /\ seqNo' = seqNo + 1 /\ Set(w, Idle)
    BY <1>4 DEF FinalizeInvoice
  <2>3. FinalizeRow(inv[i]) \in Invoice
    <3>1. inv[i] \in Invoice /\ seqNo \in Nat /\ Cardinality(book) \in Nat
      BY <1>0, <2>1, FS_CardinalityType DEF InvoicesInv, TypeOK
    <3> HIDE DEF i
    <3> QED
      BY <3>1, FinalizeRowOf
  <2> HIDE DEF i
  <2>4. inv' \in [Inv -> Invoice] /\ IssuesOnly(i)
    BY <1>0, <2>1, <2>2, <2>3 DEF IssuesOnly
  <2>5. Gross \in Int
    BY InvoicesAssumption
  <2> QED
    BY <2>1, <2>2, <2>4, <2>5, IssueStep
<1>5. ASSUME NEW w \in Worker, ReadPayable(w) PROVE InvoicesInv' /\ RowsKeep
  <2>1. PICK i \in Inv, amount \in Payments :
          LET s == Settlement(inv[i].currency, inv[i].paid, amount)
          IN  /\ inv[i].status = "finalized"
              /\ Set(w, [step |-> "pay", inv |-> i, amount |-> amount, ar |-> s.ar, full |-> s.full])
    BY <1>5 DEF ReadPayable
  <2> DEFINE s == Settlement(inv[i].currency, inv[i].paid, amount)
             t == [step |-> "pay", inv |-> i, amount |-> amount, ar |-> s.ar, full |-> s.full]
  <2>2. inv[i].currency \in Currencies /\ inv[i].paid \in Nat
    BY <1>0 DEF Invoice
  <2>3. s.ar \in Int /\ s.full \in BOOLEAN /\ (inv[i].currency # "SEK" => s.full /\ s.ar = -Gross)
    BY <2>2, SettlementOf
  <2>4. inv[i].status = "finalized" /\ Set(w, t)
    BY <2>1
  <2> HIDE DEF s
  <2>5. t \in Task /\ Held(inv, t)
    BY <2>3, <2>4 DEF Task, Held
  <2> HIDE DEF t
  <2> QED
    BY <1>5, <2>4, <2>5, ReadStep DEF ReadPayable
<1>6. ASSUME NEW w \in Worker, RecordPayment(w) PROVE InvoicesInv' /\ RowsKeep
  BY <1>6, PayStep
<1>7. ASSUME NEW w \in Worker, ReadCreditable(w) PROVE InvoicesInv' /\ RowsKeep
  <2>1. PICK i \in Inv, v \in book :
          inv[i].status \in {"finalized", "paid"} /\ Set(w, [step |-> "credit", inv |-> i, ar |-> -v.ar])
    BY <1>7 DEF ReadCreditable
  <2>2. -v.ar \in Int
    BY <1>0 DEF Voucher
  <2>3. /\ [step |-> "credit", inv |-> i, ar |-> -v.ar] \in Task
        /\ Held(inv, [step |-> "credit", inv |-> i, ar |-> -v.ar])
    BY <2>1, <2>2 DEF Task, Held
  <2> QED
    BY <1>7, <2>1, <2>3, ReadStep DEF ReadCreditable
<1>8. ASSUME NEW w \in Worker, CreateCreditNote(w) PROVE InvoicesInv' /\ RowsKeep
  <2> DEFINE t == task[w]
  <2>1. PICK c \in Inv :
          /\ inv[c].status = "none"
          /\ inv' = [inv EXCEPT ![c] = [Blank EXCEPT !.status = "draft", !.currency = inv[t.inv].currency]]
          /\ Set(w, [step |-> "link", inv |-> t.inv, ar |-> t.ar, note |-> c])
    BY <1>8 DEF CreateCreditNote
  <2>2. t.inv \in Inv /\ t.ar \in Int /\ inv[t.inv].status \in issued
    BY <1>0, <1>8 DEF CreateCreditNote, Task, Idle, Held, issued
  <2>3. inv[t.inv].currency \in Currencies
    BY <1>0, <2>2 DEF Invoice
  <2> DEFINE row == [Blank EXCEPT !.status = "draft", !.currency = inv[t.inv].currency]
             next == [step |-> "link", inv |-> t.inv, ar |-> t.ar, note |-> c]
  <2>4. row \in Invoice /\ row.status = "draft"
    BY <2>3, DraftOf
  <2>5. inv' = [inv EXCEPT ![c] = row] /\ Set(w, next)
    BY <2>1
  <2> HIDE DEF row, t
  <2>6. RowsKeep /\ inv' \in [Inv -> Invoice] /\ NothingIssued
    BY <1>0, <2>1, <2>4, <2>5, RowWritten DEF issued
  <2>7. inv'[t.inv].status \in issued /\ inv'[c].status = "draft" /\ c # t.inv
    BY <1>0, <2>1, <2>2, <2>4, <2>5, <2>6 DEF RowsKeep, issued
  <2>8. next \in Task /\ Held(inv', next)
    BY <2>2, <2>7 DEF Task, Held, issued
  <2> HIDE DEF next
  <2>9. task' \in [Worker -> Task] /\ TasksHeld'
    BY <2>5, <2>6, <2>8, TasksKept
  <2> QED
    BY <1>8, <2>6, <2>9, QuietStep DEF CreateCreditNote
<1>9. ASSUME NEW w \in Worker, SetInvoiceCredits(w) PROVE InvoicesInv' /\ RowsKeep
  <2> DEFINE t == task[w]
             row == [inv[t.note] EXCEPT !.credits = IF inv[t.note].status = "deleted" THEN @ ELSE t.inv]
             next == [t EXCEPT !.step = "issue"]
  <2>1. t \in [step : {"link"}, inv : Inv, ar : Int, note : Inv] /\ Held(inv, t)
    BY <1>0, <1>9 DEF SetInvoiceCredits, Task, Idle
  <2>2. t.note \in Inv /\ t.inv \in Inv /\ inv[t.note] \in Invoice
    BY <1>0, <2>1
  <2>3. /\ row \in Invoice /\ row.status = inv[t.note].status /\ row.currency = inv[t.note].currency
        /\ row.number = inv[t.note].number /\ row.voucher = inv[t.note].voucher
    BY <2>2 DEF Invoice
  <2>4. inv' = [inv EXCEPT ![t.note] = row]
    BY <1>9 DEF SetInvoiceCredits
  <2>5. next \in [step : {"issue"}, inv : Inv, ar : Int, note : Inv] /\ next.inv = t.inv /\ next.note = t.note
    BY <2>1
  <2>6. Set(w, next)
    BY <1>9 DEF SetInvoiceCredits
  <2> HIDE DEF row, next, t
  <2>7. inv' \in [Inv -> Invoice] /\ \A k \in Inv : inv'[k] = IF k = t.note THEN row ELSE inv[k]
    BY <1>0, <2>2, <2>3, <2>4
  <2>8. RowsKeep /\ NothingIssued
    BY <2>2, <2>3, <2>7 DEF RowsKeep, NothingIssued
  <2>9. next \in Task /\ Held(inv', next)
    BY <2>1, <2>2, <2>3, <2>5, <2>7 DEF Task, Held
  <2>10. task' \in [Worker -> Task] /\ TasksHeld'
    BY <2>6, <2>8, <2>9, TasksKept
  <2> QED
    BY <1>9, <2>7, <2>8, <2>10, QuietStep DEF SetInvoiceCredits
<1>10. ASSUME NEW w \in Worker, CreditInvoice(w) PROVE InvoicesInv' /\ RowsKeep
  <2> DEFINE t == task[w]
             old == inv[t.inv]
             row == [old EXCEPT !.status = IF @ \in {"finalized", "paid"} THEN "credited" ELSE @]
  <2>1. t \in [step : {"issue"}, inv : Inv, ar : Int, note : Inv] /\ Held(inv, t)
    BY <1>0, <1>10 DEF CreditInvoice, Task, Idle
  <2>2. t.note \in Inv /\ t.inv \in Inv /\ t.ar \in Int
    BY <2>1
  <2>3. t.note # t.inv /\ inv[t.note].status # "none" /\ old.status \in issued
    BY <2>1 DEF Held, issued
  <2>4. /\ Post("credit", t.inv, t.ar, 0) /\ seqNo' = seqNo + 1 /\ Set(w, Idle)
        /\ inv' = [inv EXCEPT ![t.note] = FinalizeRow(@),
                    ![t.inv].status = IF @ \in {"finalized", "paid"} THEN "credited" ELSE @]
    BY <1>10 DEF CreditInvoice
  <2>5. inv' = [[inv EXCEPT ![t.note] = FinalizeRow(inv[t.note])] EXCEPT ![t.inv] = row]
    BY <1>0, <2>2, <2>3, <2>4
  <2>6. FinalizeRow(inv[t.note]) \in Invoice
    BY <1>0, <2>2, FinalizeRowOf, FS_CardinalityType DEF InvoicesInv, TypeOK
  <2>7. /\ row \in Invoice /\ row.currency = old.currency /\ row.number = old.number
        /\ row.voucher = old.voucher
        /\ old.status \in {"finalized", "paid"} => row.status = "credited"
        /\ old.status = "credited" => row = old
    <3>1. old \in Invoice
      BY <1>0, <2>2
    <3> HIDE DEF old
    <3> QED
      BY <3>1 DEF Invoice, Statuses
  <2> HIDE DEF t, row
  <2>8. inv' \in [Inv -> Invoice]
    BY <1>0, <2>2, <2>5, <2>6, <2>7
  <2>9. /\ inv'[t.note] = FinalizeRow(inv[t.note]) /\ inv'[t.inv] = row
        /\ \A k \in Inv : k # t.note /\ k # t.inv => inv'[k] = inv[k]
    BY <1>0, <2>2, <2>3, <2>5
  <2>10. IssuesOnly(t.note)
    BY <2>3, <2>7, <2>9 DEF issued, IssuesOnly
  <2> QED
    BY <2>2, <2>3, <2>4, <2>8, <2>10, IssueStep
<1>11. ASSUME NEW w \in Worker, Fail(w) PROVE InvoicesInv' /\ RowsKeep
  BY <1>11, IdleHeld, ReadStep DEF Fail
<1>12. CASE UNCHANGED vars
  <2>1. RowsKeep /\ inv' \in [Inv -> Invoice] /\ NothingIssued
    BY <1>0, <1>12, RowsStay DEF vars
  <2>2. UNCHANGED <<seqNo, book>> /\ task' = task
    BY <1>12 DEF vars
  <2>3. task' \in [Worker -> Task] /\ TasksHeld'
    BY <2>1, <2>2, TasksStay
  <2>4. InvoicesInv'
    BY <2>1, <2>2, <2>3, QuietStep
  <2> QED
    BY <2>1, <2>4
<1> QED
  BY <1>1, <1>2, <1>3, <1>4, <1>5, <1>6, <1>7, <1>8, <1>9, <1>10, <1>11, <1>12 DEF Next

\* The inductive invariant holds for ever.
THEOREM InvoicesInvariance == Spec => []InvoicesInv
<1>1. InvoicesInv /\ [Next]_vars => InvoicesInv'
  BY InvoicesStep
<1> QED
  BY <1>1, InvoicesInit, PTL DEF Spec

\* Every issued invoice has an allocated number of its own, whatever
\* finalizations and credits race (FinalizeInvoice, CreditInvoice).
THEOREM RegisterIsSound == Spec => []RegisterSound
<1>1. InvoicesInv => RegisterSound
  BY DEF InvoicesInv, RegisterSound
<1> QED
  BY <1>1, InvoicesInvariance, PTL

\* A foreign-currency invoice is paid by one payment of its whole receivable,
\* also when two handlers pay it at once (RecordPayment).
THEOREM ForeignIsPaidOnce == Spec => []ForeignPaidOnce
<1>1. InvoicesInv => ForeignPaidOnce
  BY DEF InvoicesInv
<1> QED
  BY <1>1, InvoicesInvariance, PTL

\* An issued invoice keeps its number and its voucher and never becomes a draft
\* again nor disappears (FinalizeInvoice, DeleteDraftInvoice).
THEOREM IssuedStaysIssued == Spec => IssuedIsFinal
<1>1. InvoicesInv /\ [Next]_vars =>
        [\A i \in Inv : Issued(i) =>
           /\ Issued(i)'
           /\ inv'[i].number = inv[i].number /\ inv'[i].voucher = inv[i].voucher
           /\ inv[i].status = "credited" => inv'[i].status = "credited"]_vars
  BY InvoicesStep DEF RowsKeep, Issued, issued
<1> QED
  BY <1>1, InvoicesInvariance, PTL DEF Spec, IssuedIsFinal

-----------------------------------------------------------------------------
(* Payments and what they settle                                           *)

\* What has been received for an invoice, and what that has cleared on 1510.
Received(b, i) == SumFunction([v \in {x \in b : x.inv = i /\ x.kind = "payment"} |-> v.sek])
Cleared(b, i) == SumFunction([v \in {x \in b : x.inv = i /\ x.kind = "payment"} |-> -v.ar])

LEMMA SumsOf ==
  /\ PaidMatchesBook <=> \A i \in Inv : inv[i].paid = Received(book, i)
  /\ PaidOwesNothing <=> \A i \in Inv : inv[i].status = "paid" => Cleared(book, i) >= Gross
  BY DEF PaidMatchesBook, PaidOwesNothing, VouchersOf, Received, Cleared

\* Nothing is received for an invoice without payments.
LEMMA NothingReceived ==
  ASSUME NEW b, NEW i, \A v \in b : ~(v.inv = i /\ v.kind = "payment")
  PROVE  Received(b, i) = 0 /\ Cleared(b, i) = 0
<1>1. {x \in b : x.inv = i /\ x.kind = "payment"} = {}
  OBVIOUS
<1>2. \A f : DOMAIN f = {} => SumFunction(f) = 0
  BY SumOfNone DEF SumFunction
<1> QED
  BY <1>1, <1>2 DEF Received, Cleared

\* A voucher that is no payment of i does not change either sum.
LEMMA OtherVoucher ==
  ASSUME NEW b, NEW c, NEW i,
         \A v : v.inv = i /\ v.kind = "payment" => (v \in b <=> v \in c)
  PROVE  Received(c, i) = Received(b, i) /\ Cleared(c, i) = Cleared(b, i)
<1>1. {x \in c : x.inv = i /\ x.kind = "payment"} = {x \in b : x.inv = i /\ x.kind = "payment"}
  OBVIOUS
<1> QED
  BY <1>1 DEF Received, Cleared

\* A payment of i adds its amount, and what it clears.
LEMMA PaymentAdds ==
  ASSUME NEW b \in SUBSET Voucher, IsFiniteSet(b), NEW p \in Voucher, p \notin b, p.kind = "payment"
  PROVE  /\ Received(b, p.inv) \in Int /\ Cleared(b, p.inv) \in Int
         /\ Received(b \cup {p}, p.inv) = Received(b, p.inv) + p.sek
         /\ Cleared(b \cup {p}, p.inv) = Cleared(b, p.inv) - p.ar
<1> DEFINE S == {x \in b : x.inv = p.inv /\ x.kind = "payment"}
<1>1. IsFiniteSet(S) /\ p \notin S /\ S \subseteq Voucher
  BY FS_Subset
<1>2. {x \in b \cup {p} : x.inv = p.inv /\ x.kind = "payment"} = S \cup {p}
  OBVIOUS
<1>3. \A v \in S \cup {p} : v.sek \in Int /\ -v.ar \in Int /\ v.ar \in Int
  BY <1>1 DEF Voucher
<1> HIDE DEF S
<1>4. /\ SumFunction([v \in S |-> v.sek]) \in Int
      /\ SumFunction([v \in S \cup {p} |-> v.sek]) = SumFunction([v \in S |-> v.sek]) + p.sek
  <2> DEFINE F == [v \in S |-> v.sek]
             G == [v \in S \cup {p} |-> v.sek]
  <2>1. F \in [S -> Int] /\ G \in [S \cup {p} -> Int] /\ G[p] = p.sek /\ \A x \in S : G[x] = F[x]
    BY <1>3
  <2> HIDE DEF F, G
  <2>2. SumFunction(F) \in Int /\ SumFunction(G) = SumFunction(F) + G[p]
    <3>1. SumFunctionOnSet(G, S \cup {p}) = SumFunctionOnSet(G, S) + G[p]
      <4>1. \A x \in S \cup {p} : G[x] \in Int
        BY <2>1
      <4> QED
        BY <1>1, <4>1, SumWith
    <3>2. SumFunctionOnSet(G, S) = SumFunctionOnSet(F, S) /\ SumFunctionOnSet(F, S) \in Int
      <4>1. \A x \in S : F[x] \in Int /\ G[x] = F[x]
        BY <2>1
      <4> QED
        BY <1>1, <4>1, SumSame, SumType
    <3>3. DOMAIN F = S /\ DOMAIN G = S \cup {p}
      BY <2>1
    <3> QED
      BY <3>1, <3>2, <3>3 DEF SumFunction
  <2> QED
    BY <2>1, <2>2 DEF F, G
<1>5. /\ SumFunction([v \in S |-> -v.ar]) \in Int
      /\ SumFunction([v \in S \cup {p} |-> -v.ar]) = SumFunction([v \in S |-> -v.ar]) - p.ar
  <2> DEFINE F == [v \in S |-> -v.ar]
             G == [v \in S \cup {p} |-> -v.ar]
  <2>1. F \in [S -> Int] /\ G \in [S \cup {p} -> Int] /\ G[p] = -p.ar /\ \A x \in S : G[x] = F[x]
    BY <1>3
  <2> HIDE DEF F, G
  <2>2. SumFunction(F) \in Int /\ SumFunction(G) = SumFunction(F) + G[p]
    <3>1. SumFunctionOnSet(G, S \cup {p}) = SumFunctionOnSet(G, S) + G[p]
      <4>1. \A x \in S \cup {p} : G[x] \in Int
        BY <2>1
      <4> QED
        BY <1>1, <4>1, SumWith
    <3>2. SumFunctionOnSet(G, S) = SumFunctionOnSet(F, S) /\ SumFunctionOnSet(F, S) \in Int
      <4>1. \A x \in S : F[x] \in Int /\ G[x] = F[x]
        BY <2>1
      <4> QED
        BY <1>1, <4>1, SumSame, SumType
    <3>3. DOMAIN F = S /\ DOMAIN G = S \cup {p}
      BY <2>1
    <3> QED
      BY <3>1, <3>2, <3>3 DEF SumFunction
  <2>3. SumFunction(G) = SumFunction(F) - p.ar
    BY <1>3, <2>1, <2>2
  <2> QED
    BY <2>2, <2>3 DEF F, G
<1> QED
  BY <1>2, <1>4, <1>5, Zenon DEF Received, Cleared, S

\* All that was received has been cleared, when every payment cleared its amount.
LEMMA AllCleared ==
  ASSUME NEW b \in SUBSET Voucher, IsFiniteSet(b), NEW i,
         \A v \in b : v.inv = i /\ v.kind = "payment" => v.ar = -v.sek
  PROVE  Cleared(b, i) = Received(b, i)
<1> DEFINE S == {x \in b : x.inv = i /\ x.kind = "payment"}
<1>1. \A v \in S : -v.ar = v.sek
  BY DEF Voucher
<1>2. [v \in S |-> -v.ar] = [v \in S |-> v.sek]
  BY <1>1
<1> QED
  BY <1>2 DEF Received, Cleared

LEMMA SettlementInit == Init => SettlementInv
<1> SUFFICES ASSUME Init PROVE SettlementInv
  OBVIOUS
<1>1. book = {} /\ \A i \in Inv : inv[i].paid = 0 /\ inv[i].status = "none"
  BY DEF Init, Blank
<1>2. \A i \in Inv : Received(book, i) = 0
  BY <1>1, NothingReceived
<1>3. PaidMatchesBook /\ PaidOwesNothing
  BY <1>1, <1>2, SumsOf
<1>4. \A w \in Worker : PayHeld(inv, task[w])
  BY DEF Init, PayHeld, Idle
<1> QED
  BY <1>1, <1>3, <1>4 DEF SettlementInv

\* Vouchers keep their numbers, and a new one has the next.
LEMMA NewVoucher ==
  ASSUME TypeOK, IsFiniteSet(book), \A v \in book : v.id <= Cardinality(book),
         NEW kind \in {"invoice", "payment", "credit"},
         NEW i \in Inv, NEW ar \in Int, NEW sek \in Nat, Post(kind, i, ar, sek)
  PROVE  /\ \A v \in book' : v.id <= Cardinality(book')
         /\ \E p \in Voucher : /\ p \notin book /\ book' = book \cup {p}
                               /\ p.kind = kind /\ p.inv = i /\ p.ar = ar /\ p.sek = sek
<1> DEFINE n == Cardinality(book)
           p == [id |-> n + 1, kind |-> kind, inv |-> i, ar |-> ar, sek |-> sek]
<1>1. n \in Nat
  BY FS_CardinalityType
<1>2. book' = book \cup {p}
  BY DEF Post
<1>3. p \in Voucher /\ p.id = n + 1 /\ p.kind = kind /\ p.inv = i /\ p.ar = ar /\ p.sek = sek
  BY <1>1 DEF Voucher
<1>4. \A v \in book : v.id \in Nat /\ v.id <= n
  BY DEF TypeOK, Voucher
<1> HIDE DEF p
<1>5. p \notin book
  BY <1>1, <1>3, <1>4
<1>6. Cardinality(book') = n + 1
  BY <1>2, <1>5, FS_AddElement
<1> HIDE DEF n
<1>7. \A v \in book' : v.id <= n + 1
  BY <1>1, <1>2, <1>3, <1>4
<1> QED
  BY <1>2, <1>3, <1>5, <1>6, <1>7

\* What a step that books no payment may do to a row: write a blank one, or leave
\* the amount paid alone and not settle the invoice.
PaymentsAside ==
  \A k \in Inv :
    /\ inv'[k].paid = inv[k].paid \/ (inv[k].status = "none" /\ inv'[k].paid = 0)
    /\ inv'[k].status = "paid" => inv[k].status = "paid"
    /\ inv'[k].status = "finalized" => inv[k].status \in {"draft", "finalized"}

\* Handlers that wait keep what they have decided while the amounts paid grow.
LEMMA PayHeldKept ==
  ASSUME TypeOK, inv' \in [Inv -> Invoice], NEW t \in Task, Held(inv, t), PayHeld(inv, t),
         t.step = "pay" => inv'[t.inv].paid >= inv[t.inv].paid
  PROVE  PayHeld(inv', t)
<1> SUFFICES ASSUME t.step = "pay"
             PROVE  /\ t.full => -t.ar >= Gross - inv'[t.inv].paid
                    /\ ~t.full => t.ar = -t.amount
  BY DEF PayHeld
<1>1. t \in [step : {"pay"}, inv : Inv, amount : Payments, ar : Int, full : BOOLEAN]
  BY DEF Task, Idle
<1>2. t.inv \in Inv /\ t.ar \in Int
  BY <1>1
<1>3. inv[t.inv].paid \in Nat /\ inv'[t.inv].paid \in Nat /\ Gross \in Nat
  BY <1>2, InvoicesAssumption DEF TypeOK, Invoice
<1>4. /\ t.full => -t.ar >= Gross - inv[t.inv].paid
      /\ ~t.full => t.ar = -t.amount
  BY DEF PayHeld
<1> QED
  BY <1>2, <1>3, <1>4

\* A step that books no payment.
LEMMA NoPaymentStep ==
  ASSUME InvoicesInv, InvoicesInv', RowsKeep, SettlementInv, PaymentsAside,
         \A v : v.kind = "payment" => (v \in book' <=> v \in book),
         \A v \in book' : v.id <= Cardinality(book'),
         \A w \in Worker : task'[w] = task[w] \/ PayHeld(inv', task'[w])
  PROVE  SettlementInv'
<1>0. TypeOK /\ TypeOK' /\ PaymentsHeld /\ inv' \in [Inv -> Invoice] /\ inv \in [Inv -> Invoice]
  BY DEF InvoicesInv, TypeOK
<1>1. \A i \in Inv : Received(book', i) = Received(book, i) /\ Cleared(book', i) = Cleared(book, i)
  BY OtherVoucher
<1>2. \A i \in Inv : inv[i].status \notin issued => Received(book, i) = 0
  <2> SUFFICES ASSUME NEW i \in Inv, inv[i].status \notin issued PROVE Received(book, i) = 0
    OBVIOUS
  <2>1. \A v \in book : ~(v.inv = i /\ v.kind = "payment")
    BY <1>0 DEF PaymentsHeld, Issued, issued
  <2> QED
    BY <2>1, NothingReceived
<1>3. \A i \in Inv : inv[i].paid = Received(book, i)
  BY SumsOf DEF SettlementInv
<1>4. \A i \in Inv : inv'[i].paid = Received(book', i)
  BY <1>1, <1>2, <1>3 DEF PaymentsAside, issued
<1>5. PaidMatchesBook'
  BY <1>4 DEF PaidMatchesBook, VouchersOf, Received
<1>6. \A i \in Inv : inv'[i].status = "paid" => Cleared(book', i) >= Gross
  BY <1>1, SumsOf DEF PaymentsAside, SettlementInv
<1>7. PaidOwesNothing'
  BY <1>6 DEF PaidOwesNothing, VouchersOf, Cleared
<1>8. ASSUME NEW v \in book', v.kind = "payment", inv'[v.inv].status = "finalized"
      PROVE  v.ar = -v.sek
  <2>1. v \in book /\ v.inv \in Inv /\ inv[v.inv].status \in issued
    BY <1>0, <1>8 DEF PaymentsHeld, Issued, issued, TypeOK, Voucher
  <2>2. inv[v.inv].status = "finalized"
    BY <1>8, <2>1 DEF PaymentsAside, issued
  <2> QED
    BY <1>8, <2>1, <2>2 DEF SettlementInv
<1>9. ASSUME NEW w \in Worker, task'[w] = task[w] PROVE PayHeld(inv', task'[w])
  <2>1. task[w] \in Task /\ Held(inv, task[w]) /\ PayHeld(inv, task[w])
    BY DEF InvoicesInv, TypeOK, TasksHeld, SettlementInv
  <2>2. ASSUME task[w].step = "pay" PROVE inv'[task[w].inv].paid >= inv[task[w].inv].paid
    <3>1. task[w].inv \in Inv /\ inv[task[w].inv].status # "none"
      BY <2>1, <2>2 DEF Task, Idle, Held
    <3>2. inv'[task[w].inv].paid = inv[task[w].inv].paid /\ inv[task[w].inv].paid \in Nat
      BY <1>0, <3>1 DEF PaymentsAside, Invoice
    <3> QED
      BY <3>2
  <2> QED
    BY <1>0, <1>9, <2>1, <2>2, PayHeldKept
<1> QED
  BY <1>5, <1>7, <1>8, <1>9 DEF SettlementInv

\* What RecordPayment takes: a settling payment clears all that was still owed, any
\* other clears the amount received.
LEMMA SettlementDecides ==
  ASSUME NEW currency \in Currencies, NEW paid \in Nat, NEW amount \in Payments,
         Settlement(currency, paid, amount).take
  PROVE  /\ Settlement(currency, paid, amount).full =>
              -Settlement(currency, paid, amount).ar >= Gross - paid
         /\ ~Settlement(currency, paid, amount).full =>
              Settlement(currency, paid, amount).ar = -amount
<1> DEFINE residual == Gross - (paid + amount)
           small == abs(residual) < oresRoundingThreshold
           ar == IF small THEN -(amount + residual) ELSE -amount
<1>1. Gross \in Int /\ amount \in Int /\ paid \in Int
  BY InvoicesAssumption
<1>2. CASE currency # "SEK"
  <2>1. /\ Settlement(currency, paid, amount).take = (paid = 0)
        /\ Settlement(currency, paid, amount).full /\ Settlement(currency, paid, amount).ar = -Gross
    BY <1>2 DEF Settlement
  <2> QED
    BY <1>1, <2>1
<1>3. CASE currency = "SEK"
  <2>1. /\ Settlement(currency, paid, amount).full = (residual = 0 \/ small)
        /\ Settlement(currency, paid, amount).ar = ar
    BY <1>3 DEF Settlement
  <2>2. small => -ar >= Gross - paid
    BY <1>1
  <2>3. ~small => ar = -amount
    OBVIOUS
  <2>4. residual = 0 /\ ~small => -ar >= Gross - paid
    BY <1>1
  <2> HIDE DEF residual, small, ar
  <2> QED
    BY <2>1, <2>2, <2>3, <2>4
<1> QED
  BY <1>2, <1>3

\* A step that writes no row and books nothing.
LEMMA SettlementRead ==
  ASSUME InvoicesInv, InvoicesInv', RowsKeep, SettlementInv, UNCHANGED <<inv, book>>,
         NEW w \in Worker, NEW t, Set(w, t), PayHeld(inv, t)
  PROVE  SettlementInv'
<1>1. PaymentsAside
  BY DEF PaymentsAside
<1>2. \A u \in Worker : task'[u] = task[u] \/ PayHeld(inv', task'[u])
  BY DEF Set, InvoicesInv, TypeOK
<1> QED
  BY <1>1, <1>2, NoPaymentStep DEF SettlementInv

\* A step that writes rows and books nothing, after which w pays nothing.
LEMMA SettlementRows ==
  ASSUME InvoicesInv, InvoicesInv', RowsKeep, SettlementInv, PaymentsAside, UNCHANGED book,
         NEW w \in Worker, \A u \in Worker : u # w => task'[u] = task[u],
         task'[w] = task[w] \/ task'[w].step # "pay"
  PROVE  SettlementInv'
<1>1. \A u \in Worker : task'[u] = task[u] \/ PayHeld(inv', task'[u])
  BY DEF PayHeld
<1> QED
  BY <1>1, NoPaymentStep DEF SettlementInv

\* A step that books a voucher that is no payment.
LEMMA SettlementVoucher ==
  ASSUME InvoicesInv, InvoicesInv', RowsKeep, SettlementInv, PaymentsAside,
         NEW w \in Worker, Set(w, Idle), NEW kind \in {"invoice", "credit"}, NEW i \in Inv,
         NEW ar \in Int, Post(kind, i, ar, 0)
  PROVE  SettlementInv'
<1>1. TypeOK /\ IsFiniteSet(book) /\ \A v \in book : v.id <= Cardinality(book)
  BY DEF InvoicesInv, SettlementInv
<1>2. /\ \A v \in book' : v.id <= Cardinality(book')
      /\ \E p \in Voucher : p \notin book /\ book' = book \cup {p} /\ p.kind = kind
  BY <1>1, NewVoucher
<1>3. \A v : v.kind = "payment" => (v \in book' <=> v \in book)
  BY <1>2
<1>4. \A u \in Worker : task'[u] = task[u] \/ PayHeld(inv', task'[u])
  BY <1>1 DEF Set, TypeOK, PayHeld, Idle
<1> QED
  BY <1>2, <1>3, <1>4, NoPaymentStep

\* A payment that finds the invoice settled by another is not booked; one that is
\* booked adds to both sums, and the receivable of an invoice it settles is cleared.
LEMMA SettlementPaid ==
  ASSUME InvoicesInv, InvoicesInv', RowsKeep, SettlementInv, NEW w \in Worker, RecordPayment(w)
  PROVE  SettlementInv'
<1> DEFINE t == task[w]
           i == t.inv
<1>0. /\ TypeOK /\ TypeOK' /\ IsFiniteSet(book) /\ book \subseteq Voucher
      /\ inv \in [Inv -> Invoice] /\ inv' \in [Inv -> Invoice]
      /\ t.step = "pay" /\ t \in Task /\ PayHeld(inv, t) /\ Set(w, Idle)
      /\ \A v \in book : v.id <= Cardinality(book)
  BY DEF InvoicesInv, TypeOK, RecordPayment, SettlementInv
<1>1. i \in Inv /\ t.amount \in Nat /\ t.ar \in Int /\ t.full \in BOOLEAN
  <2>1. t \in [step : {"pay"}, inv : Inv, amount : Payments, ar : Int, full : BOOLEAN]
    BY <1>0 DEF Task, Idle
  <2>2. t.inv \in Inv /\ t.amount \in Payments /\ t.ar \in Int /\ t.full \in BOOLEAN
    BY <2>1
  <2> QED
    BY <2>2, InvoicesAssumption
<1>2. CASE t.full /\ inv[i].status # "finalized"
  <2>1. UNCHANGED <<inv, book>>
    BY <1>2 DEF RecordPayment
  <2>2. PayHeld(inv, Idle)
    BY DEF PayHeld, Idle
  <2> QED
    BY <1>0, <2>1, <2>2, SettlementRead
<1>3. CASE ~(t.full /\ inv[i].status # "finalized")
  <2>1. Post("payment", i, t.ar, t.amount)
    BY <1>3 DEF RecordPayment
  <2>2. inv' = [inv EXCEPT ![i].paid = @ + t.amount, ![i].status = IF t.full THEN "paid" ELSE @]
    BY <1>3 DEF RecordPayment
  <2> HIDE DEF t, i
  <2>3. /\ inv'[i].paid = inv[i].paid + t.amount
        /\ inv'[i].status = IF t.full THEN "paid" ELSE inv[i].status
        /\ \A k \in Inv : k # i => inv'[k] = inv[k]
    BY <1>0, <1>1, <2>2 DEF Invoice
  <2>4. inv[i].paid \in Nat /\ Gross \in Nat
    BY <1>0, <1>1, InvoicesAssumption DEF Invoice
  <2>5. \A v \in book' : v.id <= Cardinality(book')
    BY <1>0, <1>1, <2>1, NewVoucher
  <2>6. PICK p \in Voucher : /\ p \notin book /\ book' = book \cup {p} /\ p.kind = "payment"
                             /\ p.inv = i /\ p.ar = t.ar /\ p.sek = t.amount
    BY <1>0, <1>1, <2>1, NewVoucher
  <2>7. /\ Received(book, i) \in Int /\ Cleared(book, i) \in Int
        /\ Received(book', i) = Received(book, i) + t.amount
        /\ Cleared(book', i) = Cleared(book, i) - t.ar
    <3>1. /\ Received(book, p.inv) \in Int /\ Cleared(book, p.inv) \in Int
          /\ Received(book \cup {p}, p.inv) = Received(book, p.inv) + p.sek
          /\ Cleared(book \cup {p}, p.inv) = Cleared(book, p.inv) - p.ar
      BY <1>0, <2>6, PaymentAdds
    <3> QED
      BY <2>6, <3>1
  <2>8. \A k \in Inv : k # i =>
          Received(book', k) = Received(book, k) /\ Cleared(book', k) = Cleared(book, k)
    BY <2>6, OtherVoucher
  <2>9. /\ \A k \in Inv : inv[k].paid = Received(book, k)
        /\ \A k \in Inv : inv[k].status = "paid" => Cleared(book, k) >= Gross
    BY SumsOf DEF SettlementInv
  <2>10. \A k \in Inv : inv'[k].paid = Received(book', k)
    <3> SUFFICES ASSUME NEW k \in Inv PROVE inv'[k].paid = Received(book', k)
      OBVIOUS
    <3>1. CASE k = i
      BY <1>1, <2>3, <2>7, <2>9, <3>1
    <3>2. CASE k # i
      BY <2>3, <2>8, <2>9, <3>2
    <3> QED
      BY <3>1, <3>2
  <2>11. PaidMatchesBook'
    BY <2>10 DEF PaidMatchesBook, VouchersOf, Received
  <2>12. inv'[i].status = "paid" => Cleared(book', i) >= Gross
    <3>1. CASE t.full
      <4>1. \A v \in book : v.inv = i /\ v.kind = "payment" => v.ar = -v.sek
        BY <1>3, <3>1 DEF SettlementInv
      <4>2. Cleared(book, i) = inv[i].paid
        BY <1>0, <1>1, <2>9, <4>1, AllCleared
      <4>3. -t.ar >= Gross - inv[i].paid
        BY <1>0, <3>1 DEF PayHeld, i
      <4> QED
        BY <1>1, <2>4, <2>7, <4>2, <4>3
    <3>2. CASE ~t.full
      <4>1. t.ar = -t.amount
        BY <1>0, <3>2 DEF PayHeld
      <4>2. inv'[i].status = "paid" => Cleared(book, i) >= Gross
        BY <1>1, <2>3, <2>9, <3>2
      <4> QED
        BY <1>1, <2>4, <2>7, <4>1, <4>2
    <3> QED
      BY <3>1, <3>2
  <2>13. \A k \in Inv : inv'[k].status = "paid" => Cleared(book', k) >= Gross
    BY <2>3, <2>8, <2>9, <2>12
  <2>14. PaidOwesNothing'
    BY <2>13 DEF PaidOwesNothing, VouchersOf, Cleared
  <2>15. ASSUME NEW v \in book', v.kind = "payment", inv'[v.inv].status = "finalized"
         PROVE  v.ar = -v.sek
    <3>1. CASE v = p
      <4>1. ~t.full
        BY <2>3, <2>6, <2>15, <3>1
      <4> QED
        BY <1>0, <2>6, <3>1, <4>1 DEF PayHeld
    <3>2. CASE v # p
      <4>1. v \in book /\ v.inv \in Inv
        BY <1>0, <2>6, <3>2 DEF Voucher
      <4>2. inv[v.inv].status = "finalized"
        BY <2>3, <2>15, <4>1
      <4> QED
        BY <2>15, <4>1, <4>2 DEF SettlementInv
    <3> QED
      BY <3>1, <3>2
  <2>16. ASSUME NEW u \in Worker PROVE PayHeld(inv', task'[u])
    <3>1. CASE u = w
      BY <1>0, <3>1 DEF Set, TypeOK, PayHeld, Idle
    <3>2. CASE u # w
      <4>1. task'[u] = task[u]
        BY <1>0, <3>2 DEF Set, TypeOK
      <4>2. task[u] \in Task /\ Held(inv, task[u]) /\ PayHeld(inv, task[u])
        BY DEF InvoicesInv, TypeOK, TasksHeld, SettlementInv
      <4>3. ASSUME task[u].step = "pay" PROVE inv'[task[u].inv].paid >= inv[task[u].inv].paid
        <5>1. task[u].inv \in Inv
          BY <4>2, <4>3 DEF Task, Idle
        <5>2. \A k \in Inv : inv'[k].paid >= inv[k].paid
          BY <1>0, <1>1, <2>3, <2>4 DEF Invoice
        <5> QED
          BY <5>1, <5>2
      <4> QED
        BY <1>0, <4>1, <4>2, <4>3, PayHeldKept
    <3> QED
      BY <3>1, <3>2
  <2> QED
    BY <2>5, <2>11, <2>14, <2>15, <2>16 DEF SettlementInv
<1> QED
  BY <1>2, <1>3

\* The row of a finalization keeps the amount paid.
LEMMA FinalizeRowPaid ==
  ASSUME NEW row \in Invoice
  PROVE  /\ FinalizeRow(row).paid = row.paid
         /\ FinalizeRow(row) = row \/ (row.status = "draft" /\ FinalizeRow(row).status = "finalized")
  BY DEF FinalizeRow, Invoice

\* Every step keeps the sums.
LEMMA SettlementStep == InvoicesInv /\ SettlementInv /\ [Next]_vars => SettlementInv'
<1> SUFFICES ASSUME InvoicesInv, SettlementInv, [Next]_vars PROVE SettlementInv'
  OBVIOUS
<1>0. /\ InvoicesInv' /\ RowsKeep /\ TypeOK /\ inv \in [Inv -> Invoice] /\ task \in [Worker -> Task]
      /\ \A i \in Inv : inv[i] \in Invoice
      /\ \A w \in Worker : task[w] \in Task /\ Held(inv, task[w])
  BY InvoicesStep DEF InvoicesInv, TypeOK, TasksHeld
<1>1. ASSUME NEW w \in Worker, CreateInvoice(w) PROVE SettlementInv'
  <2>1. PaymentsAside
    BY <1>0, <1>1 DEF CreateInvoice, PaymentsAside, Blank
  <2> QED
    BY <1>0, <1>1, <2>1, SettlementRows DEF CreateInvoice
<1>2. ASSUME NEW w \in Worker, DeleteDraftInvoice(w) PROVE SettlementInv'
  <2>1. PaymentsAside
    BY <1>0, <1>2 DEF DeleteDraftInvoice, PaymentsAside, Invoice
  <2> QED
    BY <1>0, <1>2, <2>1, SettlementRows DEF DeleteDraftInvoice
<1>3. ASSUME NEW w \in Worker, ReadDraft(w) PROVE SettlementInv'
  <2>1. PICK i \in Inv : Set(w, [step |-> "finalize", inv |-> i])
    BY <1>3 DEF ReadDraft
  <2>2. PayHeld(inv, [step |-> "finalize", inv |-> i])
    BY DEF PayHeld
  <2> QED
    BY <1>0, <1>3, <2>1, <2>2, SettlementRead DEF ReadDraft
<1>4. ASSUME NEW w \in Worker, FinalizeInvoice(w) PROVE SettlementInv'
  <2> DEFINE i == task[w].inv
  <2>1. i \in Inv /\ Gross \in Int
    BY <1>0, <1>4, InvoicesAssumption DEF FinalizeInvoice, Task, Idle
  <2>2. /\ Post("invoice", i, Gross, 0) /\ inv' = [inv EXCEPT ![i] = FinalizeRow(inv[i])]
        /\ Set(w, Idle)
    BY <1>4 DEF FinalizeInvoice
  <2> HIDE DEF i
  <2>3. PaymentsAside
    BY <1>0, <2>1, <2>2, FinalizeRowPaid DEF PaymentsAside
  <2> QED
    BY <1>0, <2>1, <2>2, <2>3, SettlementVoucher
<1>5. ASSUME NEW w \in Worker, ReadPayable(w) PROVE SettlementInv'
  <2>1. PICK i \in Inv, amount \in Payments :
          LET s == Settlement(inv[i].currency, inv[i].paid, amount)
          IN  /\ s.take
              /\ Set(w, [step |-> "pay", inv |-> i, amount |-> amount, ar |-> s.ar, full |-> s.full])
    BY <1>5 DEF ReadPayable
  <2> DEFINE s == Settlement(inv[i].currency, inv[i].paid, amount)
             t == [step |-> "pay", inv |-> i, amount |-> amount, ar |-> s.ar, full |-> s.full]
  <2>2. inv[i].currency \in Currencies /\ inv[i].paid \in Nat
    BY <1>0 DEF Invoice
  <2>3. (s.full => -s.ar >= Gross - inv[i].paid) /\ (~s.full => s.ar = -amount)
    BY <2>1, <2>2, SettlementDecides
  <2>4. Set(w, t)
    BY <2>1
  <2> HIDE DEF s
  <2>5. PayHeld(inv, t)
    BY <2>3 DEF PayHeld
  <2> HIDE DEF t
  <2> QED
    BY <1>0, <1>5, <2>4, <2>5, SettlementRead DEF ReadPayable
<1>6. ASSUME NEW w \in Worker, RecordPayment(w) PROVE SettlementInv'
  BY <1>0, <1>6, SettlementPaid
<1>7. ASSUME NEW w \in Worker, ReadCreditable(w) PROVE SettlementInv'
  <2>1. PICK i \in Inv, v \in book : Set(w, [step |-> "credit", inv |-> i, ar |-> -v.ar])
    BY <1>7 DEF ReadCreditable
  <2>2. PayHeld(inv, [step |-> "credit", inv |-> i, ar |-> -v.ar])
    BY DEF PayHeld
  <2> QED
    BY <1>0, <1>7, <2>1, <2>2, SettlementRead DEF ReadCreditable
<1>8. ASSUME NEW w \in Worker, CreateCreditNote(w) PROVE SettlementInv'
  <2>1. PaymentsAside
    BY <1>0, <1>8 DEF CreateCreditNote, PaymentsAside, Blank
  <2>2. task'[w].step # "pay" /\ \A u \in Worker : u # w => task'[u] = task[u]
    BY <1>0, <1>8 DEF CreateCreditNote, Set
  <2> QED
    BY <1>0, <1>8, <2>1, <2>2, SettlementRows DEF CreateCreditNote
<1>9. ASSUME NEW w \in Worker, SetInvoiceCredits(w) PROVE SettlementInv'
  <2>1. PaymentsAside
    <3>1. task[w].note \in Inv
      BY <1>0, <1>9 DEF SetInvoiceCredits, Task, Idle
    <3> QED
      BY <1>0, <1>9, <3>1 DEF SetInvoiceCredits, PaymentsAside, Invoice
  <2>2. task'[w].step # "pay" /\ \A u \in Worker : u # w => task'[u] = task[u]
    <3>1. task[w] \in [step : {"link"}, inv : Inv, ar : Int, note : Inv]
      BY <1>0, <1>9 DEF SetInvoiceCredits, Task, Idle
    <3> QED
      BY <1>0, <1>9, <3>1 DEF SetInvoiceCredits, Set
  <2> QED
    BY <1>0, <1>9, <2>1, <2>2, SettlementRows DEF SetInvoiceCredits
<1>10. ASSUME NEW w \in Worker, CreditInvoice(w) PROVE SettlementInv'
  <2> DEFINE t == task[w]
  <2>1. t.inv \in Inv /\ t.note \in Inv /\ t.ar \in Int /\ t.note # t.inv
    BY <1>0, <1>10 DEF CreditInvoice, Task, Idle, Held
  <2>2. /\ Post("credit", t.inv, t.ar, 0) /\ Set(w, Idle)
        /\ inv' = [inv EXCEPT ![t.note] = FinalizeRow(@),
                    ![t.inv].status = IF @ \in {"finalized", "paid"} THEN "credited" ELSE @]
    BY <1>10 DEF CreditInvoice
  <2> HIDE DEF t
  <2>3. /\ inv'[t.note] = FinalizeRow(inv[t.note])
        /\ inv'[t.inv].paid = inv[t.inv].paid
        /\ inv'[t.inv].status = IF inv[t.inv].status \in {"finalized", "paid"} THEN "credited" ELSE inv[t.inv].status
        /\ \A k \in Inv : k # t.note /\ k # t.inv => inv'[k] = inv[k]
    BY <1>0, <2>1, <2>2 DEF Invoice
  <2>4. PaymentsAside
    BY <1>0, <2>1, <2>3, FinalizeRowPaid DEF PaymentsAside
  <2> QED
    BY <1>0, <2>1, <2>2, <2>4, SettlementVoucher
<1>11. ASSUME NEW w \in Worker, Fail(w) PROVE SettlementInv'
  <2>1. PayHeld(inv, Idle)
    BY DEF PayHeld, Idle
  <2> QED
    BY <1>0, <1>11, <2>1, SettlementRead DEF Fail
<1>12. CASE UNCHANGED vars
  <2>1. PaymentsAside
    BY <1>12 DEF PaymentsAside, vars
  <2> QED
    BY <1>0, <1>12, <2>1, NoPaymentStep DEF vars, SettlementInv
<1> QED
  BY <1>1, <1>2, <1>3, <1>4, <1>5, <1>6, <1>7, <1>8, <1>9, <1>10, <1>11, <1>12 DEF Next

\* The sums hold for ever.
THEOREM SettlementInvariance == Spec => []SettlementInv
<1>1. InvoicesInv /\ SettlementInv /\ [Next]_vars => SettlementInv'
  BY SettlementStep
<1> QED
  BY <1>1, SettlementInit, InvoicesInvariance, PTL DEF Spec

\* The amount paid of an invoice is the sum of its payments in the books, whatever
\* payments race and whatever fails (AddInvoicePayment).
THEOREM PaidIsInTheBook == Spec => []PaidMatchesBook
<1>1. SettlementInv => PaidMatchesBook
  BY DEF SettlementInv
<1> QED
  BY <1>1, SettlementInvariance, PTL

\* An invoice that is marked paid owes nothing on 1510, in either currency, also
\* when the settling payment had decided on an older amount paid (RecordPayment).
THEOREM PaidIsSettled == Spec => []SettledOwesNothing
<1>1. InvoicesInv /\ SettlementInv => SettledOwesNothing
  BY DEF InvoicesInv, SettlementInv, SettledOwesNothing
<1> QED
  BY <1>1, InvoicesInvariance, SettlementInvariance, PTL
=============================================================================
