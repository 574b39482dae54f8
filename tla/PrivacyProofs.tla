--------------------------- MODULE PrivacyProofs ---------------------------
(***************************************************************************)
(* Proofs about Privacy, for any counterparties, identities, sessions and  *)
(* requests, any vouchers and payments of the assistant and any ceiling.   *)
(***************************************************************************)
EXTENDS Privacy, LedgerProofs

\* What the stages of a request say about its fields.
LEMMA CallType ==
  ASSUME TypeOK, NEW r \in Request
  PROVE  /\ call[r].at = "update" => call[r].party \in Party /\ call[r].id \in Id
         /\ call[r].at \in {"count", "erase", "purge"} =>
              call[r] \in [at : {"count", "erase", "purge"}, party : Party] /\ call[r].party \in Party
         /\ call[r].at = "read" =>
              /\ call[r] \in [at : {"read"}, session : Session, fields : SUBSET Tagged,
                              items : SUBSET Item, todo : SUBSET Party]
              /\ call[r].session \in Session /\ call[r].fields \subseteq Tagged
              /\ call[r].items \subseteq Item /\ call[r].todo \subseteq Party
  BY DEF TypeOK, Call, Idle

\* What PrivacyInv says of one request in the state c.
Held(c) ==
  /\ c \in Call
  /\ c.at \in {"update", "count", "erase", "purge"} => id[c.party] # NoId
  /\ c.at = "read" => \A p \in c.todo : id[p] # NoId

\* The same, of every request.
LEMMA HeldByAll ==
  ASSUME TypeOK, PartiesKnown
  PROVE  \A r \in Request : Held(call[r])
  BY DEF TypeOK, PartiesKnown, Held

\* A step that moves a request on and may store, age or delete tokens.
LEMMA OnlyCall ==
  ASSUME PrivacyInv, NEW r \in Request, NEW c, Held(c), goto(r, c),
         vault' \in [Session \X (Id \cup {Tomb}) -> {"none", "new", "old"}],
         UNCHANGED <<records, leaked, aiOver>>
  PROVE  PrivacyInv'
<1>1. TypeOK'
  BY DEF PrivacyInv, TypeOK, goto, Held, records
<1>2. PartiesKnown'
  BY DEF PrivacyInv, TypeOK, PartiesKnown, goto, Held, records
<1> QED
  BY <1>1, <1>2 DEF PrivacyInv, ErasedStaysErased, OnlyMarkersLeave, records

\* A step that only touches the vault or the history of the ceiling.
LEMMA OnlyVault ==
  ASSUME PrivacyInv, aiOver' \in BOOLEAN,
         vault' \in [Session \X (Id \cup {Tomb}) -> {"none", "new", "old"}],
         UNCHANGED <<records, call, leaked>>
  PROVE  PrivacyInv'
<1>1. TypeOK'
  BY DEF PrivacyInv, TypeOK, records
<1> QED
  BY <1>1 DEF PrivacyInv, PartiesKnown, ErasedStaysErased, OnlyMarkersLeave, records

\* An idle request is allowed by any tables.
LEMMA IdleHeld == Held(Idle)
  BY DEF Held, Idle, Call

\* A new installation.
LEMMA PrivacyInit == Init => PrivacyInv
<1> SUFFICES ASSUME Init PROVE PrivacyInv
  OBVIOUS
<1>1. TypeOK
  BY DEF Init, TypeOK, Call
<1>2. PartiesKnown /\ ErasedStaysErased /\ OnlyMarkersLeave
  BY PrivacyAssumption DEF Init, PartiesKnown, ErasedStaysErased, OnlyMarkersLeave, Idle
<1> QED
  BY <1>1, <1>2 DEF PrivacyInv

\* The read tools show no field without a shield tag.
LEMMA FieldsTagged == \A tool \in DOMAIN IdentityFields : IdentityFields[tool] \subseteq Tagged
  BY DEF IdentityFields, Tagged, runUnpaid, runMatchPayment, runOverview, runReport, runExportSIE, runAudit

\* Every step keeps the invariant.
LEMMA PrivacyStep == PrivacyInv /\ [Next]_vars => PrivacyInv'
<1> SUFFICES ASSUME PrivacyInv, [Next]_vars PROVE PrivacyInv'
  OBVIOUS
<1>0. TypeOK /\ PartiesKnown /\ ErasedStaysErased /\ OnlyMarkersLeave /\ \A r \in Request : Held(call[r])
  BY HeldByAll DEF PrivacyInv
<1>a. ASSUME UNCHANGED vault
      PROVE  vault' \in [Session \X (Id \cup {Tomb}) -> {"none", "new", "old"}]
  BY <1>0, <1>a DEF TypeOK
<1>1. ASSUME NEW p \in Party, NEW name \in Form, handleAddCounterparty(p, name) PROVE PrivacyInv'
  <2>1. name \in Id /\ id[p] = NoId /\ id' = [id EXCEPT ![p] = name]
    BY <1>1 DEF handleAddCounterparty, CreateCounterparty, Form
  <2>2. TypeOK'
    BY <1>0, <1>1, <2>1 DEF handleAddCounterparty, CreateCounterparty, TypeOK
  <2>3. PartiesKnown'
    BY <1>0, <1>1, <2>1, CallType, PrivacyAssumption
    DEF handleAddCounterparty, CreateCounterparty, TypeOK, PartiesKnown
  <2>4. ErasedStaysErased' /\ OnlyMarkersLeave'
    BY <1>0, <1>1, <2>1, PrivacyAssumption
    DEF handleAddCounterparty, CreateCounterparty, TypeOK, ErasedStaysErased, OnlyMarkersLeave
  <2> QED
    BY <2>2, <2>3, <2>4 DEF PrivacyInv
<1>2. ASSUME NEW r \in Request, NEW p \in Party, NEW name \in Form, handleCounterpartyUpdate(r, p, name)
      PROVE  PrivacyInv'
  <2>1. Held([at |-> "update", party |-> p, id |-> name])
    BY <1>2 DEF handleCounterpartyUpdate, UpdateCounterparty, Held, Call, Form
  <2> QED
    BY <1>2, <1>a, <2>1, OnlyCall DEF handleCounterpartyUpdate, UpdateCounterparty
<1>3. ASSUME NEW r \in Request, NEW p \in Party, EraseCounterparty(r, p) PROVE PrivacyInv'
  <2>1. Held([at |-> "count", party |-> p])
    BY <1>3 DEF EraseCounterparty, Held, Call
  <2> QED
    BY <1>3, <1>a, <2>1, OnlyCall DEF EraseCounterparty
<1>4. ASSUME NEW r \in Request, NEW p \in Party, UnpaidInvoices(r, p) PROVE PrivacyInv'
  <2> DEFINE new == {[field |-> f, id |-> id[p], marked |-> FALSE] : f \in call[r].fields}
             c == [call[r] EXCEPT !.todo = @ \ {p}, !.items = @ \cup new]
  <2>1. call[r].at = "read" /\ p \in call[r].todo /\ goto(r, c)
    BY <1>4 DEF UnpaidInvoices
  <2>2. id[p] \in Id \cup {Tomb}
    BY <1>0, <2>1 DEF PartiesKnown, TypeOK
  <2>3. new \subseteq Item
    <3>1. call[r].fields \subseteq Tagged
      BY <1>0, <2>1, CallType
    <3>2. \A f \in Tagged : [field |-> f, id |-> id[p], marked |-> FALSE] \in Item
      BY <2>2 DEF Item
    <3> QED
      BY <3>1, <3>2
  <2> HIDE DEF new
  <2>4. Held(c)
    <3>1. c \in [at : {"read"}, session : Session, fields : SUBSET Tagged, items : SUBSET Item,
                 todo : SUBSET Party]
      BY <1>0, <2>1, <2>3, CallType
    <3>2. c.at = "read" /\ c.todo = call[r].todo \ {p}
      BY <1>0, <2>1, CallType
    <3> HIDE DEF c
    <3> QED
      BY <1>0, <2>1, <3>1, <3>2 DEF Held, Call, PartiesKnown
  <2> HIDE DEF c
  <2> QED
    BY <1>4, <1>a, <2>1, <2>4, OnlyCall DEF UnpaidInvoices
<1>5. ASSUME NEW r \in Request, Fails(r) PROVE PrivacyInv'
  BY <1>5, <1>a, IdleHeld, OnlyCall DEF Fails
<1>6. ASSUME NEW r \in Request, writeCounterparty(r) PROVE PrivacyInv'
  <2>1. call[r].party \in Party /\ call[r].id \in Id /\ id[call[r].party] # NoId
    BY <1>0, <1>6, CallType DEF writeCounterparty, PartiesKnown
  <2>2. \/ id' = id
        \/ call[r].party \notin erased /\ id' = [id EXCEPT ![call[r].party] = call[r].id]
    BY <1>6 DEF writeCounterparty
  <2>3. \A p \in Party : id'[p] # NoId <=> id[p] # NoId
    BY <1>0, <2>1, <2>2, PrivacyAssumption DEF TypeOK
  <2>4. TypeOK'
    BY <1>0, <1>6, <2>1, <2>2 DEF writeCounterparty, TypeOK, goto, Call
  <2>5. PartiesKnown'
    BY <1>0, <1>6, <2>3, CallType DEF writeCounterparty, PartiesKnown, goto, TypeOK, Idle
  <2>6. ErasedStaysErased' /\ OnlyMarkersLeave'
    BY <1>0, <1>6, <2>1, <2>2, PrivacyAssumption
    DEF writeCounterparty, ErasedStaysErased, OnlyMarkersLeave, TypeOK
  <2> QED
    BY <2>4, <2>5, <2>6 DEF PrivacyInv
<1>7. ASSUME NEW r \in Request, CountRetainedInvoices(r) PROVE PrivacyInv'
  <2>1. Held([call[r] EXCEPT !.at = "erase"])
    BY <1>0, <1>7, CallType DEF CountRetainedInvoices, Held, Call
  <2> QED
    BY <1>7, <1>a, <2>1, OnlyCall DEF CountRetainedInvoices
<1>8. ASSUME NEW r \in Request, eraseRow(r) PROVE PrivacyInv'
  <2>1. call[r].party \in Party /\ [call[r] EXCEPT !.at = "purge"] \in [at : {"purge"}, party : {call[r].party}]
    BY <1>0, <1>8, CallType DEF eraseRow
  <2>2. \A p \in Party : id'[p] = IF p = call[r].party THEN Tomb ELSE id[p]
    BY <1>0, <1>8, <2>1 DEF eraseRow, TypeOK
  <2>3. TypeOK'
    BY <1>0, <1>8, <2>1 DEF eraseRow, TypeOK, goto, Call
  <2>4. PartiesKnown'
    BY <1>0, <1>8, <2>1, <2>2, CallType, PrivacyAssumption DEF eraseRow, PartiesKnown, goto, TypeOK
  <2>5. ErasedStaysErased' /\ OnlyMarkersLeave'
    BY <1>0, <1>8, <2>1, <2>2 DEF eraseRow, ErasedStaysErased, OnlyMarkersLeave
  <2> QED
    BY <2>3, <2>4, <2>5 DEF PrivacyInv
<1>9. ASSUME NEW r \in Request, purge(r) PROVE PrivacyInv'
  <2>1. vault' \in [Session \X (Id \cup {Tomb}) -> {"none", "new", "old"}]
    BY <1>0, <1>9 DEF purge, TypeOK
  <2> QED
    BY <1>9, <2>1, IdleHeld, OnlyCall DEF purge
<1>10. ASSUME NEW r \in Request, Reply(r) PROVE PrivacyInv'
  <2>1. plain(r) = {}
    BY <1>0, <1>10, CallType DEF Reply, exposed, plain, Item
  <2>2. leaked' = leaked
    BY <1>10, <2>1 DEF Reply
  <2> QED
    BY <1>10, <1>a, <2>2, IdleHeld, OnlyCall DEF Reply
<1>11. ASSUME NEW p \in Party, InvoiceStep(p) PROVE PrivacyInv'
  <2>1. Document(p, invoice) \in {"draft", "final"} /\ id[p] # NoId
    BY <1>0, <1>11 DEF InvoiceStep, Document, TypeOK
  <2>2. TypeOK'
    BY <1>0, <1>11, <2>1 DEF InvoiceStep, TypeOK
  <2>3. PartiesKnown' /\ ErasedStaysErased' /\ OnlyMarkersLeave'
    BY <1>0, <1>11, <2>1 DEF InvoiceStep, PartiesKnown, ErasedStaysErased, OnlyMarkersLeave, TypeOK
  <2> QED
    BY <2>2, <2>3 DEF PrivacyInv
<1>12. ASSUME NEW p \in Party, BillStep(p) PROVE PrivacyInv'
  <2>1. Document(p, bill) \in {"draft", "final"}
    BY <1>0, <1>12 DEF BillStep, Document, TypeOK
  <2>2. TypeOK'
    BY <1>0, <1>12, <2>1 DEF BillStep, TypeOK
  <2>3. PartiesKnown' /\ ErasedStaysErased' /\ OnlyMarkersLeave'
    BY <1>0, <1>12 DEF BillStep, PartiesKnown, ErasedStaysErased, OnlyMarkersLeave
  <2> QED
    BY <2>2, <2>3 DEF PrivacyInv
<1>13. ASSUME NEW r \in Request, NEW x \in Item, ShieldStruct(r, x) PROVE PrivacyInv'
  <2> DEFINE c == [call[r] EXCEPT !.items = (@ \ {x}) \cup {marked(x)}]
  <2>1. call[r].at = "read" /\ goto(r, c) /\ Put(call[r].session, x.id)
    BY <1>13 DEF ShieldStruct
  <2>2. marked(x) \in Item
    BY DEF marked, Item
  <2>3. c \in [at : {"read"}, session : Session, fields : SUBSET Tagged, items : SUBSET Item,
               todo : SUBSET Party] /\ c.todo = call[r].todo
    BY <1>0, <2>1, <2>2, CallType
  <2>4. vault' \in [Session \X (Id \cup {Tomb}) -> {"none", "new", "old"}]
    BY <1>0, <2>1, CallType DEF Put, TypeOK, Item
  <2> HIDE DEF c
  <2>5. Held(c)
    BY <1>0, <2>1, <2>3 DEF Held, Call, PartiesKnown
  <2> QED
    BY <1>13, <2>1, <2>4, <2>5, OnlyCall DEF ShieldStruct
<1>14. ASSUME NEW r \in Request, NEW s \in Session, NEW tool \in DOMAIN IdentityFields, callTool(r, s, tool)
       PROVE  PrivacyInv'
  <2> DEFINE todo == IF IdentityFields[tool] = {} THEN {} ELSE {p \in Party : invoice[p] = "final"}
             c == [at |-> "read", session |-> s, fields |-> IdentityFields[tool], items |-> {},
                   todo |-> todo]
  <2>1. todo \subseteq Party /\ \A p \in todo : id[p] # NoId
    BY <1>0 DEF PartiesKnown
  <2>2. goto(r, c)
    BY <1>14 DEF callTool
  <2> HIDE DEF todo
  <2>3. Held(c)
    BY <2>1, FieldsTagged DEF Held, Call
  <2> HIDE DEF c
  <2> QED
    BY <1>14, <1>a, <2>2, <2>3, OnlyCall DEF callTool
<1>15. ASSUME NEW lines, NEW limit, books(lines, limit)
       PROVE  PrivacyInv'
  <2>1. aiOver' \in BOOLEAN
    BY <1>15, Zenon DEF books
  <2> QED
    BY <1>15, <1>a, <2>1, OnlyVault DEF books
<1>16. ASSUME NEW lines, runPostVerification(lines) PROVE PrivacyInv'
  BY <1>15, <1>16 DEF runPostVerification
<1>19. ASSUME NEW p, runRecordPayment(p) PROVE PrivacyInv'
  BY <1>15, <1>19 DEF runRecordPayment
<1>17. ASSUME DayPasses \/ DeleteOldShieldTokens PROVE PrivacyInv'
  <2>1. vault' \in [Session \X (Id \cup {Tomb}) -> {"none", "new", "old"}]
    BY <1>0, <1>17 DEF DayPasses, DeleteOldShieldTokens, TypeOK
  <2>2. aiOver' \in BOOLEAN /\ UNCHANGED <<records, call, leaked>>
    BY <1>0, <1>17 DEF DayPasses, DeleteOldShieldTokens, TypeOK
  <2> QED
    BY <2>1, <2>2, OnlyVault
<1>18. CASE UNCHANGED vars
  BY <1>0, <1>18 DEF vars, PrivacyInv, TypeOK, PartiesKnown, ErasedStaysErased, OnlyMarkersLeave
<1> QED
  BY <1>1, <1>2, <1>3, <1>4, <1>5, <1>6, <1>7, <1>8, <1>9, <1>10, <1>11, <1>12, <1>13, <1>14,
     <1>16, <1>17, <1>18, <1>19 DEF Next, erasure, dispatch

\* The inductive invariant holds for ever.
THEOREM PrivacyInvariance == Spec => []PrivacyInv
  BY PrivacyInit, PrivacyStep, PTL DEF Spec

\* Nothing but markers reaches the assistant, whatever fails on the way
\* (callTool, ShieldStruct).
THEOREM OnlyMarkers == Spec => []OnlyMarkersLeave
<1>1. PrivacyInv => OnlyMarkersLeave
  BY DEF PrivacyInv
<1> QED
  BY <1>1, PrivacyInvariance, PTL

\* An erasure is final, whatever edits race it (UpdateCounterparty).
THEOREM ErasureIsFinal == Spec => []ErasureHolds
<1>1. PrivacyInv => ErasureHolds
  BY DEF PrivacyInv, ErasureHolds
<1> QED
  BY <1>1, PrivacyInvariance, PTL

\* A sum in the machine's integers is at most the sum.
LEMMA WrapAtMost ==
  ASSUME NEW a \in 0 .. MaxAmount, NEW b \in 0 .. MaxAmount
  PROVE  Wrap(a + b) <= a + b
<1>1. MaxAmount \in Nat /\ a + b \in 0 .. 2 * MaxAmount
  BY AccountingAssumption
<1>2. Wrap(a + b) = IF a + b <= MaxAmount THEN a + b ELSE a + b - 2 * (MaxAmount + 1)
  BY <1>1, WrapCases
<1> DEFINE w == Wrap(a + b)
<1> HIDE DEF w
<1> QED
  BY <1>1, <1>2 DEF w

\* Two lines, the first on the debit side, and one more or two of which one is: the
\* total of the debits is at most the sum of the two amounts.
LEMMA FewLines ==
  ASSUME NEW lines \in Seq(Line), Validate(lines), NEW x \in 0 .. MaxAmount, NEW y \in 0 .. MaxAmount,
         \/ Len(lines) = 2
         \/ Len(lines) = 3 /\ lines[3].debit = y
         \/ Len(lines) = 4 /\ {lines[3].debit, lines[4].debit} = {0, y},
         lines[1].debit = x, lines[2].debit = 0
  PROVE  TrueTotal(lines) \in Int /\ TrueTotal(lines) <= x + y
<1> DEFINE d == DebitTotal(lines)
           z == [i \in 1 .. Len(lines) |-> lines[i].debit]
<1>0. MaxAmount \in Nat /\ x \in Amount /\ y \in Amount /\ x + 0 = x /\ 0 + x = x /\ y + 0 = y
  BY AccountingAssumption DEF Amount
<1>1. TrueTotal(lines) = d[Len(lines)] /\ TrueTotal(lines) \in Int
  <2> DEFINE t == TrueTotal(lines)
  <2>1. d[Len(lines)] = t /\ t \in 0 .. MaxAmount
    BY ValidateIsExact DEF TrueTotal
  <2> HIDE DEF t, d
  <2> QED
    BY <1>0, <2>1 DEF t
<1>2. d[0] = 0 /\ \A i \in 1 .. Len(lines) : d[i] = Wrap(d[i - 1] + lines[i].debit)
  <2>1. Len(z) = Len(lines) /\ Len(z) \in Nat /\ d = RunningTotal(z)
    BY DEF DebitTotal
  <2>2. \A i \in 1 .. Len(lines) : z[i] = lines[i].debit
    OBVIOUS
  <2> HIDE DEF z, d
  <2> QED
    BY <2>1, <2>2, RunningTotals
<1> HIDE DEF d, z
<1>3. d[1] = x /\ d[2] = x
  <2>1. 1 \in 1 .. Len(lines) /\ 2 \in 1 .. Len(lines)
    OBVIOUS
  <2>2. d[1] = Wrap(0 + x)
    BY <1>2, <2>1
  <2>3. d[1] = x
    BY <1>0, <2>2, WrapId
  <2>4. d[2] = Wrap(x + 0)
    BY <1>2, <2>1, <2>3
  <2> QED
    BY <1>0, <2>3, <2>4, WrapId
<1>4. CASE Len(lines) = 2
  BY <1>0, <1>1, <1>3, <1>4
<1>5. CASE Len(lines) = 4 /\ {lines[3].debit, lines[4].debit} = {0, y}
  <2>1. d[3] = Wrap(x + lines[3].debit) /\ d[4] = Wrap(d[3] + lines[4].debit)
    BY <1>2, <1>3, <1>5
  <2>2. CASE lines[3].debit = 0 /\ lines[4].debit = y
    <3>1. d[3] = x
      BY <1>0, <2>1, <2>2, WrapId
    <3> QED
      BY <1>1, <1>5, <2>1, <2>2, <3>1, WrapAtMost
  <2>3. CASE lines[3].debit = y /\ lines[4].debit = 0
    <3>1. d[3] = Wrap(x + y)
      BY <2>1, <2>3
    <3>2. d[3] \in Amount
      BY <3>1, <1>0, WrapType
    <3>3. d[4] = d[3]
      <4>1. d[3] + 0 = d[3]
        BY <3>2, <1>0 DEF Amount
      <4> QED
        BY <2>1, <2>3, <3>2, <4>1, WrapId
    <3> QED
      BY <1>1, <1>5, <3>1, <3>3, WrapAtMost
  <2> QED
    BY <1>5, <2>2, <2>3
<1>6. CASE Len(lines) = 3 /\ lines[3].debit = y
  <2>1. d[3] = Wrap(x + y)
    BY <1>2, <1>3, <1>6
  <2> QED
    BY <1>1, <1>6, <2>1, WrapAtMost
<1> QED
  BY <1>4, <1>5, <1>6

\* The voucher of a payment in SEK adds up to the amount received and what is
\* written off, less than the threshold (Settlement).
LEMMA SekPaymentTotal ==
  ASSUME NEW gross \in Amount, NEW paid \in Amount, NEW sum \in Amount, sum > 0,
         Validate(Settlement("SEK", gross, paid, sum).lines)
  PROVE  /\ TrueTotal(Settlement("SEK", gross, paid, sum).lines) \in Int
         /\ TrueTotal(Settlement("SEK", gross, paid, sum).lines) <= sum + oresRoundingThreshold - 1
<1> DEFINE residual == Wrap(gross - Wrap(paid + sum))
           small == Abs(residual) < oresRoundingThreshold
           less == Wrap(-residual)
           r == Debit(1930, sum)
           ca == Credit(1510, sum)
           under1 == Credit(1510, residual)
           under2 == Debit(3740, residual)
           over1 == Debit(1510, less)
           over2 == Credit(3740, less)
           lines == Settlement("SEK", gross, paid, sum).lines
<1>0. /\ MaxAmount \in Nat /\ sum \in 1 .. MaxAmount /\ sum \in 0 .. MaxAmount /\ 0 \in 0 .. MaxAmount
      /\ gross \in Int /\ paid + sum \in Int /\ \A n \in Amount : n \in Int /\ n <= MaxAmount
  BY AccountingAssumption DEF Amount
<1>1. residual \in Amount /\ less \in Amount
  <2>1. Wrap(paid + sum) \in Amount
    BY <1>0, WrapType
  <2>2. gross - Wrap(paid + sum) \in Int
    <3> DEFINE x == Wrap(paid + sum)
    <3> HIDE DEF x
    <3>1. x \in Int
      BY <1>0, <2>1 DEF x
    <3> QED
      BY <1>0, <3>1 DEF x
  <2>3. residual \in Amount
    BY <2>2, WrapType
  <2> HIDE DEF residual
  <2>4. -residual \in Int
    BY <1>0, <2>3
  <2> QED
    BY <2>3, <2>4, WrapType
<1>2. lines = <<r, ca>> \o IF residual = 0 \/ ~small THEN << >>
                           ELSE IF residual > 0 THEN <<under1, under2>> ELSE <<over1, over2>>
  BY DEF Settlement
<1>3. /\ ~(residual = 0 \/ ~small) /\ residual > 0 => residual < 100 /\ residual \in 0 .. MaxAmount
      /\ ~(residual = 0 \/ ~small) /\ ~(residual > 0) => less < 100
  <2> HIDE DEF residual
  <2> QED
    BY <1>0, <1>1 DEF Abs, oresRoundingThreshold
<1>4. Validate(lines)
  OBVIOUS
<1> HIDE DEF residual, small, less, lines
<1>5. /\ r \in Line /\ ca \in Line /\ r.debit = sum /\ ca.debit = 0
      /\ under1 \in Line /\ under2 \in Line /\ under1.debit = 0 /\ under2.debit = residual
      /\ over1 \in Line /\ over2 \in Line /\ over1.debit = less /\ over2.debit = 0
  BY <1>0, <1>1 DEF Debit, Credit, Line, Amount
<1> HIDE DEF r, ca, under1, under2, over1, over2
<1>6. CASE residual = 0 \/ ~small
  <2>1. lines = <<r, ca>> \o << >>
    BY <1>2, <1>6, Zenon
  <2>2. lines \in Seq(Line) /\ Len(lines) = 2 /\ lines[1] = r /\ lines[2] = ca
    BY <1>5, <2>1
  <2>3. TrueTotal(lines) <= sum + 0 /\ TrueTotal(lines) \in Int
    BY <1>0, <1>4, <1>5, <2>2, FewLines
  <2> QED
    BY <1>0, <2>3 DEF lines, oresRoundingThreshold
<1>7. ASSUME NEW k \in Line, NEW l \in Line, NEW y \in 0 .. MaxAmount, y < 100,
             (k.debit = 0 /\ l.debit = y) \/ (k.debit = y /\ l.debit = 0),
             lines = <<r, ca>> \o <<k, l>>
      PROVE  TrueTotal(lines) \in Int /\ TrueTotal(lines) <= sum + oresRoundingThreshold - 1
  <2>1. /\ lines \in Seq(Line) /\ Len(lines) = 4
        /\ lines[1] = r /\ lines[2] = ca /\ lines[3] = k /\ lines[4] = l
    BY <1>5, <1>7
  <2>2. TrueTotal(lines) <= sum + y /\ TrueTotal(lines) \in Int
    <3>1. {lines[3].debit, lines[4].debit} = {0, y}
      BY <1>7, <2>1
    <3> QED
      BY <1>0, <1>4, <1>5, <2>1, <3>1, FewLines
  <2> QED
    BY <1>0, <1>7, <2>2 DEF oresRoundingThreshold
<1>8. CASE ~(residual = 0 \/ ~small) /\ residual > 0
  <2>1. lines = <<r, ca>> \o <<under1, under2>>
    BY <1>2, <1>8, Zenon
  <2>2. residual < 100 /\ residual \in 0 .. MaxAmount
    BY <1>3, <1>8
  <2>3. TrueTotal(lines) \in Int /\ TrueTotal(lines) <= sum + oresRoundingThreshold - 1
    <3>1. under1 \in Line /\ under2 \in Line /\ under1.debit = 0 /\ under2.debit = residual
      BY <1>5
    <3> QED
      BY <1>7, <2>1, <2>2, <3>1
  <2> QED
    BY <2>3 DEF lines
<1>9. CASE ~(residual = 0 \/ ~small) /\ ~(residual > 0)
  <2>1. lines = <<r, ca>> \o <<over1, over2>>
    BY <1>2, <1>9, Zenon
  <2>2. Len(lines) = 4 /\ lines[3] = over1
    BY <1>5, <2>1
  <2>3. WellFormed(lines[3])
    BY <1>4, <2>2 DEF Validate
  <2>4. less \in 0 .. MaxAmount
    BY <1>0, <1>1, <1>5, <2>2, <2>3 DEF WellFormed
  <2> QED
    BY <1>3, <1>5, <1>7, <1>9, <2>1, <2>4 DEF lines
<1> QED
  BY <1>6, <1>8, <1>9

\* The voucher of a payment in foreign currency adds up to the amount received or to
\* the receivable, whichever is larger (Settlement).
LEMMA ForeignPaymentTotal ==
  ASSUME NEW currency, currency # "SEK", NEW gross \in Amount, NEW paid \in Amount,
         NEW sum \in Amount, sum > 0, Validate(Settlement(currency, gross, paid, sum).lines)
  PROVE  LET total == TrueTotal(Settlement(currency, gross, paid, sum).lines)
         IN  /\ total \in Int
             /\ total <= IF gross > sum THEN gross ELSE sum
<1> DEFINE diff == Wrap(sum - gross)
           r == Debit(1930, sum)
           cg == Credit(1510, gross)
           gain == Credit(3960, diff)
           loss == Debit(7960, Wrap(-diff))
           tail == IF diff > 0 THEN <<gain>> ELSE IF diff < 0 THEN <<loss>> ELSE << >>
           lines == Settlement(currency, gross, paid, sum).lines
<1>0. MaxAmount \in Nat /\ sum \in 0 .. MaxAmount /\ gross \in Int /\ gross <= MaxAmount /\ 0 \in 0 .. MaxAmount
  BY AccountingAssumption DEF Amount
<1>1. lines = <<r, cg>> \o tail /\ Validate(lines)
  BY DEF Settlement
<1>2. diff \in Amount /\ Wrap(-diff) \in Amount
  <2>1. diff \in Amount
    BY <1>0, WrapType
  <2> HIDE DEF diff
  <2>2. -diff \in Int
    BY <1>0, <2>1 DEF Amount
  <2> QED
    BY <2>1, <2>2, WrapType
<1> HIDE DEF diff, lines, tail
<1>3. /\ r \in Line /\ cg \in Line /\ gain \in Line /\ loss \in Line
      /\ r.debit = sum /\ cg.debit = 0 /\ cg.credit = gross /\ gain.debit = 0 /\ loss.debit = Wrap(-diff)
  BY <1>0, <1>2 DEF Debit, Credit, Line, Amount
<1> HIDE DEF r, cg, gain, loss
<1>4. tail \in {<< >>, <<gain>>, <<loss>>}
  BY DEF tail
<1>5. /\ lines \in Seq(Line) /\ lines[1] = r /\ lines[2] = cg
      /\ tail = << >> => Len(lines) = 2
      /\ \A l \in {gain, loss} : tail = <<l>> => Len(lines) = 3 /\ lines[3] = l
  <2>1. ASSUME tail = << >>
        PROVE  lines \in Seq(Line) /\ lines[1] = r /\ lines[2] = cg /\ Len(lines) = 2
    <3>1. lines = <<r, cg>> \o << >>
      BY <1>1, <2>1, Zenon
    <3> QED
      BY <1>3, <3>1
  <2>2. ASSUME NEW l \in {gain, loss}, tail = <<l>>
        PROVE  lines \in Seq(Line) /\ lines[1] = r /\ lines[2] = cg /\ Len(lines) = 3 /\ lines[3] = l
    <3>1. lines = <<r, cg>> \o <<l>> /\ l \in Line
      BY <1>1, <1>3, <2>2, Zenon
    <3> QED
      BY <1>3, <3>1
  <2>3. lines \in Seq(Line) /\ lines[1] = r /\ lines[2] = cg
    BY <1>4, <2>1, <2>2, Zenon
  <2> QED
    BY <2>1, <2>2, <2>3, Zenon
<1>6. gross >= 0
  <2>1. WellFormed(lines[2])
    BY <1>1, <1>5 DEF Validate
  <2> QED
    BY <1>0, <1>3, <1>5, <2>1 DEF WellFormed
<1>7. diff = sum - gross
  <2>1. sum - gross \in Amount
    BY <1>0, <1>6 DEF Amount
  <2> QED
    BY <2>1, WrapId DEF diff
<1>8. CASE diff < 0
  <2>1. gross - sum \in 0 .. MaxAmount /\ -diff = gross - sum /\ gross > sum
    BY <1>0, <1>6, <1>7, <1>8
  <2>2. -diff \in Amount
    BY <1>0, <2>1 DEF Amount
  <2>3. Wrap(-diff) = gross - sum
    BY <2>1, <2>2, WrapId
  <2>4. tail = <<loss>>
    BY <1>0, <1>7, <1>8 DEF tail
  <2>5. Len(lines) = 3
    BY <1>5, <2>4, Zenon
  <2>6. lines[3].debit = gross - sum
    <3>1. lines[3] = loss
      BY <1>5, <2>4, Zenon
    <3>2. loss.debit = gross - sum
      BY <1>3, <2>3, Zenon
    <3> QED
      BY <3>1, <3>2, Zenon
  <2>7. TrueTotal(lines) \in Int /\ TrueTotal(lines) <= sum + (gross - sum)
    BY <1>0, <1>1, <1>3, <1>5, <2>1, <2>5, <2>6, FewLines
  <2> QED
    BY <1>0, <2>1, <2>7 DEF lines
<1>9. CASE ~(diff < 0)
  <2>1. ~(gross > sum)
    BY <1>0, <1>7, <1>9
  <2>2. tail \in {<< >>, <<gain>>}
    BY <1>9 DEF tail
  <2>3. Len(lines) = 2 \/ (Len(lines) = 3 /\ lines[3].debit = 0)
    <3>1. CASE tail = << >>
      BY <1>5, <3>1, Zenon
    <3>2. CASE tail = <<gain>>
      BY <1>3, <1>5, <3>2, Zenon
    <3> QED
      BY <2>2, <3>1, <3>2
  <2>4. TrueTotal(lines) \in Int /\ TrueTotal(lines) <= sum + 0
    BY <1>0, <1>1, <1>3, <1>5, <2>3, FewLines
  <2> QED
    BY <1>0, <2>1, <2>4 DEF lines
<1> QED
  BY <1>8, <1>9

\* What the assistant may book is under the ceiling in exact arithmetic: what
\* Validate accepts has not wrapped (runPostVerification, runRecordPayment).
LEMMA CeilingStep == AiUnderCeiling /\ [Next]_vars => AiUnderCeiling'
<1> SUFFICES ASSUME AiUnderCeiling, [Next]_vars PROVE AiUnderCeiling'
  OBVIOUS
<1>1. ASSUME NEW lines \in AiLines, runPostVerification(lines) PROVE AiUnderCeiling'
  <2>1. lines \in Seq(Line) /\ Validate(lines)
    BY <1>1, PrivacyAssumption DEF runPostVerification, books
  <2>2. /\ DebitTotal(lines)[Len(lines)] = TrueTotal(lines)
        /\ TrueTotal(lines) \in 0 .. MaxAmount
    BY <2>1, ValidateIsExact DEF TrueTotal
  <2>3. maxWriteOre = 0 \/ TrueTotal(lines) <= maxWriteOre
    BY <1>1, <2>2 DEF runPostVerification, checkCeiling
  <2>4. ~(maxWriteOre > 0 /\ TrueTotal(lines) > maxWriteOre)
    BY <2>2, <2>3, PrivacyAssumption, AccountingAssumption
  <2>5. books(lines, maxWriteOre)
    BY <1>1 DEF runPostVerification
  <2>6. aiOver' = (aiOver \/ (maxWriteOre > 0 /\ TrueTotal(lines) > maxWriteOre))
    BY <2>5, Zenon DEF books
  <2> QED
    BY <2>4, <2>6, Zenon DEF AiUnderCeiling
<1>2. ASSUME NEW p \in AiPayments, runRecordPayment(p) PROVE AiUnderCeiling'
  <2> DEFINE s == Settlement(p.currency, p.gross, p.paid, p.received)
             limit == paymentLimit(p)
  <2>1. /\ books(s.lines, limit)
        /\ maxWriteOre = 0 \/ p.received <= maxWriteOre
        /\ p.received > 0
    BY <1>2 DEF runRecordPayment, checkCeiling
  <2>2. p.gross \in Amount /\ p.paid \in Amount /\ p.received \in Amount /\ maxWriteOre \in Nat
    BY PrivacyAssumption
  <2>3. Validate(s.lines)
    BY <2>1 DEF books
  <2>4. /\ MaxAmount \in Nat /\ p.gross \in Int /\ p.received \in Int
    BY <2>2, AccountingAssumption DEF Amount
  <2>5. ~(maxWriteOre > 0 /\ TrueTotal(s.lines) > limit)
    <3>1. CASE p.currency = "SEK"
      <4>1. s = Settlement("SEK", p.gross, p.paid, p.received)
        BY <3>1
      <4>2. TrueTotal(s.lines) \in Int /\ TrueTotal(s.lines) <= p.received + oresRoundingThreshold - 1
        BY <2>1, <2>2, <2>3, <4>1, SekPaymentTotal
      <4> HIDE DEF s
      <4> QED
        BY <2>1, <2>2, <2>4, <3>1, <4>2 DEF oresRoundingThreshold, paymentLimit
    <3>2. CASE p.currency # "SEK"
      <4>1. /\ TrueTotal(s.lines) \in Int
            /\ TrueTotal(s.lines) <= IF p.gross > p.received THEN p.gross ELSE p.received
        BY <2>1, <2>2, <2>3, <3>2, ForeignPaymentTotal
      <4> HIDE DEF s
      <4> QED
        BY <2>1, <2>2, <2>4, <3>2, <4>1 DEF paymentLimit
    <3> QED
      BY <3>1, <3>2
  <2> HIDE DEF s, limit
  <2>6. aiOver' = (aiOver \/ (maxWriteOre > 0 /\ TrueTotal(s.lines) > limit))
    BY <2>1, Zenon DEF books
  <2> QED
    BY <2>5, <2>6, Zenon DEF AiUnderCeiling
<1>3. CASE UNCHANGED aiOver
  BY <1>3 DEF AiUnderCeiling
<1> QED
  BY <1>1, <1>2, <1>3
     DEF Next, vars, dispatch, erasure, handleAddCounterparty, CreateCounterparty,
         handleCounterpartyUpdate, UpdateCounterparty, EraseCounterparty, UnpaidInvoices, Fails,
         writeCounterparty, CountRetainedInvoices, eraseRow, purge, Reply, InvoiceStep, BillStep,
         ShieldStruct, callTool, DayPasses, DeleteOldShieldTokens

\* No voucher the assistant posts is over the ceiling, although the ceiling is
\* compared with a sum that may have wrapped; the voucher of a payment is over it by less
\* than a krona, or, in foreign currency, clears what the invoice was booked at and no
\* more, for every voucher, payment and width of an amount.
THEOREM AiStaysUnderCeiling == Spec => []AiUnderCeiling
<1>1. Init => AiUnderCeiling
  BY DEF Init, AiUnderCeiling
<1> QED
  BY <1>1, CeilingStep, PTL DEF Spec
=============================================================================
