-------------------------- MODULE RetentionProofs --------------------------
(***************************************************************************)
(* Proofs about Retention, for any documents, bills, bank lines, requests  *)
(* and any number of stops, and about BankBooking, whose lines it sweeps,  *)
(* for any set of handlers and transactions.                               *)
(***************************************************************************)
EXTENDS Retention, BankBooking, FiniteSetTheorems, TLAPS

\* What RetentionInv says of the documents, apart from their types.
DocsKept == NoCleartextServed /\ NamesSurvive /\ RowsWhole /\ ClearIsTodo /\ BlankedGone

\* The parts the proofs work with.
LEMMA Parts == RetentionInv <=> TypeOK /\ DocsKept
  BY DEF RetentionInv, BackfillKeeps, DocsKept

\* What is known of one row.
LEMMA RowType ==
  ASSUME TypeOK, NEW d \in Doc
  PROVE  /\ doc[d] \in DocRow /\ doc[d].row \in {"absent", "present", "deleted"}
         /\ doc[d].pii \in [Field -> {"none", "clear", "enc"}]
         /\ doc[d].bill \in Bill \cup {NoBill} /\ doc[d].old \in BOOLEAN
  BY DEF TypeOK, DocRow

\* A request that attaches names a bill and a document.
LEMMA CallType ==
  ASSUME TypeOK, NEW r \in Request, call[r].at \in {"attach", "upload", "attachNew"}
  PROVE  /\ call[r].bill \in Bill
         /\ call[r].at \in {"attach", "attachNew"} => call[r].doc \in Doc
  BY DEF TypeOK, Call, Idle

\* A step that rewrites neither the rows' existence nor their fields.
LEMMA SamePii ==
  ASSUME TypeOK, DocsKept, UNCHANGED <<server, dek, todo, orig, blanked>>,
         \A d \in Doc : /\ doc'[d].row = doc[d].row /\ doc'[d].pii = doc[d].pii
                        /\ doc[d].row # "present" => doc'[d].bill = doc[d].bill
  PROVE  DocsKept'
<1>1. \A d \in Doc : filled(d)' = filled(d) /\ shown(d)' = shown(d)
  BY DEF filled, shown
<1>2. NoCleartextServed' /\ NamesSurvive'
  BY <1>1 DEF DocsKept, NoCleartextServed, NamesSurvive
<1>3. RowsWhole' /\ ClearIsTodo' /\ BlankedGone'
  BY DEF DocsKept, RowsWhole, ClearIsTodo, BlankedGone, TypeOK
<1> QED
  BY <1>2, <1>3 DEF DocsKept

\* The row of a document that does not exist has the type of a row.
LEMMA AbsentType == Absent \in DocRow /\ Empty \in [Field -> {"none", "clear", "enc"}]
<1>1. Empty \in [Field -> {"none", "clear", "enc"}]
  BY DEF Empty
<1> QED
  BY <1>1, Zenon DEF Absent, DocRow

\* A document that is stored is encrypted as a whole.
LEMMA SaveKeeps ==
  ASSUME TypeOK, DocsKept, NEW d \in Doc, NEW F \in SUBSET Field, SaveDocument(d, F),
         UNCHANGED <<server, dek, todo, blanked>>
  PROVE  /\ DocsKept' /\ doc' \in [Doc -> DocRow] /\ orig' \in [Doc -> SUBSET Field]
         /\ d \notin blanked
<1> DEFINE p == [f \in Field |-> IF f \in F THEN "enc" ELSE "none"]
<1>1. /\ doc[d].row = "absent" /\ d \notin blanked
      /\ doc[d].pii = Empty
  BY DEF SaveDocument, DocsKept, BlankedGone, RowsWhole
<1> DEFINE x == [Absent EXCEPT !.row = "present", !.pii = p]
<1>2. doc' = [doc EXCEPT ![d] = x]
  BY DEF SaveDocument, InsertDocument
<1>3. /\ x \in DocRow /\ x.row = "present" /\ x.pii = p
      /\ doc' \in [Doc -> DocRow]
  <2>1. p \in [Field -> {"none", "clear", "enc"}]
    OBVIOUS
  <2> HIDE DEF p
  <2>2. x \in DocRow /\ x.row = "present" /\ x.pii = p
    BY <2>1, AbsentType DEF DocRow
  <2> HIDE DEF x
  <2> QED
    BY <1>2, <2>2 DEF TypeOK
<1> HIDE DEF x
<1>4. orig' \in [Doc -> SUBSET Field] /\ orig'[d] = F
  BY DEF SaveDocument, TypeOK
<1>5. doc'[d].row = "present" /\ doc'[d].pii = p
  BY <1>2, <1>3 DEF TypeOK
<1>6. \A e \in Doc : e # d => doc'[e] = doc[e] /\ orig'[e] = orig[e]
  BY <1>2 DEF TypeOK, SaveDocument
<1>7. filled(d)' = F /\ shown(d)' = F
  BY <1>5 DEF filled, shown, p
<1>8. \A e \in Doc : e # d => filled(e)' = filled(e) /\ shown(e)' = shown(e)
  BY <1>6 DEF filled, shown
<1>9. NamesSurvive'
  BY <1>4, <1>6, <1>7, <1>8 DEF DocsKept, NamesSurvive
<1>10. \A f \in Field : doc'[d].pii[f] # "clear"
  BY <1>5 DEF p
<1>11. d \notin todo
  BY <1>1 DEF DocsKept, RowsWhole
<1>12. NoCleartextServed' /\ ClearIsTodo'
  BY <1>6, <1>10 DEF DocsKept, NoCleartextServed, ClearIsTodo
<1>13. BlankedGone'
  BY <1>1, <1>6 DEF DocsKept, BlankedGone, TypeOK
<1>14. RowsWhole'
  BY <1>5, <1>6, <1>10, <1>11 DEF DocsKept, RowsWhole, TypeOK
<1> QED
  BY <1>1, <1>3, <1>4, <1>9, <1>12, <1>13, <1>14 DEF DocsKept

\* Before the first start: rows of an older version, all in clear.
LEMMA RetentionInit == Init => RetentionInv
<1> SUFFICES ASSUME Init PROVE TypeOK /\ DocsKept
  BY Parts
<1> DEFINE Old == [row : {"present"}, pii : [Field -> {"none", "clear"}] \ {Empty},
                   bill : Bill \cup {NoBill}, old : {FALSE}]
<1>a. \A x \in Old : x \in DocRow /\ x.row = "present" /\ \A f \in Field : x.pii[f] \in {"none", "clear"}
  <2> TAKE x \in Old
  <2>1. x.row = "present" /\ x.pii \in [Field -> {"none", "clear"}] /\ x.bill \in Bill \cup {NoBill}
    OBVIOUS
  <2>2. x.pii \in [Field -> {"none", "clear", "enc"}]
    BY <2>1
  <2>3. x = [row |-> x.row, pii |-> x.pii, bill |-> x.bill, old |-> x.old]
    OBVIOUS
  <2>4. x.old \in {FALSE}
    OBVIOUS
  <2>5. x.old \in BOOLEAN
    BY <2>4, Zenon
  <2>6. x.row \in {"absent", "present", "deleted"}
    BY <2>1
  <2> HIDE DEF Old
  <2>7. [row |-> x.row, pii |-> x.pii, bill |-> x.bill, old |-> x.old] \in DocRow
    BY <2>1, <2>2, <2>5, <2>6, Zenon DEF DocRow
  <2> QED
    BY <2>1, <2>3, <2>7
<1>b. Absent.pii = Empty /\ Absent.bill = NoBill /\ \A f \in Field : Empty[f] \in {"none", "clear"}
  BY DEF Absent, Empty
<1>c. doc \in [Doc -> {Absent} \cup Old]
  BY DEF Init
<1> HIDE DEF Old
<1>1. doc \in [Doc -> DocRow]
  BY <1>a, <1>c, AbsentType
<1>2. line \in [Line -> LineRow]
  <2>1. NoLine \in LineRow
    BY Zenon DEF NoLine, LineRow
  <2> QED
    BY <2>1 DEF Init
<1>3. \A d \in Doc : filled(d) \in SUBSET Field
  BY DEF filled
<1>4. TypeOK
  BY <1>1, <1>2, <1>3, RetentionAssumption DEF Init, TypeOK, Call
<1>5. \A d \in Doc, f \in Field : doc[d].pii[f] \in {"none", "clear"}
  BY <1>a, <1>b, <1>c
<1>6. \A d \in Doc : doc[d].row # "present" => doc[d].pii = Empty /\ doc[d].bill = NoBill
  BY <1>a, <1>b, <1>c
<1>7. NoCleartextServed /\ NamesSurvive /\ ClearIsTodo /\ BlankedGone
  BY DEF Init, NoCleartextServed, NamesSurvive, ClearIsTodo, BlankedGone
<1>8. RowsWhole
  BY <1>5, <1>6 DEF Init, RowsWhole
<1> QED
  BY <1>4, <1>7, <1>8 DEF DocsKept

\* A row of the backfill is rewritten as a whole, and keeps what it holds.
LEMMA BackfillRow ==
  ASSUME TypeOK, DocsKept, NEW d \in Doc, backfillDocumentPIIRow(d)
  PROVE  TypeOK' /\ DocsKept'
<1>1. /\ server = "booting" /\ d \in todo /\ todo' = todo \ {d}
      /\ UNCHANGED <<server, dek, line, sweeping, call, orig, blanked, stops>>
  BY DEF backfillDocumentPIIRow
<1>2. CASE ~dek
  <2>1. doc' = doc
    BY <1>2 DEF backfillDocumentPIIRow, companyDEK
  <2>2. TypeOK'
    BY <1>1, <2>1 DEF TypeOK
  <2>3. \A e \in Doc : filled(e)' = filled(e) /\ shown(e)' = shown(e)
    BY <2>1 DEF filled, shown
  <2>4. NoCleartextServed' /\ NamesSurvive'
    BY <1>1, <1>2, <2>1, <2>3 DEF DocsKept, NoCleartextServed, NamesSurvive
  <2>5. RowsWhole' /\ ClearIsTodo' /\ BlankedGone'
    BY <1>1, <1>2, <2>1 DEF DocsKept, RowsWhole, ClearIsTodo, BlankedGone
  <2> QED
    BY <2>2, <2>4, <2>5 DEF DocsKept
<1>3. CASE dek
  <2> DEFINE p == SetDocumentPIIEnc(doc[d].pii)
  <2>1. doc' = [doc EXCEPT ![d].pii = p]
    BY <1>3 DEF backfillDocumentPIIRow, companyDEK
  <2>2. p \in [Field -> {"none", "clear", "enc"}] /\ \A f \in Field : p[f] # "clear"
    BY DEF SetDocumentPIIEnc
  <2>3. \A f \in Field : p[f] # "none" <=> doc[d].pii[f] # "none"
    BY <1>1, RowType DEF SetDocumentPIIEnc, DocsKept, RowsWhole
  <2>4. doc[d].pii = Empty => p = Empty
    BY DEF SetDocumentPIIEnc, Empty
  <2> HIDE DEF p
  <2>5. /\ doc' \in [Doc -> DocRow] /\ doc'[d].row = doc[d].row /\ doc'[d].pii = p
        /\ doc'[d].bill = doc[d].bill
    BY <2>1, <2>2, RowType DEF TypeOK, DocRow
  <2>6. \A e \in Doc : e # d => doc'[e] = doc[e]
    BY <2>1 DEF TypeOK
  <2>7. TypeOK'
    BY <1>1, <2>5 DEF TypeOK
  <2>8. \A e \in Doc : filled(e)' = filled(e)
    BY <2>3, <2>5, <2>6 DEF filled
  <2>9. NamesSurvive' /\ NoCleartextServed'
    BY <1>1, <2>5, <2>6, <2>8 DEF DocsKept, NamesSurvive, NoCleartextServed
  <2>10. RowsWhole'
    BY <1>1, <2>2, <2>4, <2>5, <2>6 DEF DocsKept, RowsWhole, TypeOK
  <2>11. ClearIsTodo' /\ BlankedGone'
    BY <1>1, <2>2, <2>4, <2>5, <2>6 DEF DocsKept, ClearIsTodo, BlankedGone, TypeOK
  <2> QED
    BY <2>7, <2>9, <2>10, <2>11 DEF DocsKept
<1> QED
  BY <1>2, <1>3 DEF TypeOK

\* An attachment changes the bill of a row and nothing else.
LEMMA AttachKeeps ==
  ASSUME TypeOK, DocsKept, NEW d \in Doc, NEW b \in Bill, AttachDocumentToSupplier(d, b),
         UNCHANGED <<server, dek, todo, orig, blanked>>
  PROVE  DocsKept' /\ doc' \in [Doc -> DocRow]
<1>1. /\ doc' \in [Doc -> DocRow]
      /\ \A e \in Doc : /\ doc'[e].row = doc[e].row /\ doc'[e].pii = doc[e].pii
                        /\ doc[e].row # "present" => doc'[e].bill = doc[e].bill
  <2>1. CASE doc[d].row = "present" /\ doc' = [doc EXCEPT ![d].bill = b]
    <3>1. [doc[d] EXCEPT !.bill = b] \in DocRow
      BY RowType DEF DocRow
    <3>2. doc[d].row = "present" /\ doc' = [doc EXCEPT ![d] = [doc[d] EXCEPT !.bill = b]]
      BY <2>1
    <3>3. [doc[d] EXCEPT !.bill = b].row = doc[d].row /\ [doc[d] EXCEPT !.bill = b].pii = doc[d].pii
      BY RowType DEF DocRow
    <3> QED
      BY <3>1, <3>2, <3>3 DEF TypeOK
  <2> QED
    BY <2>1 DEF AttachDocumentToSupplier, TypeOK
<1> QED
  BY <1>1, SamePii

\* The document leg of the sweep empties whole rows and records which.
LEMMA SweepKeeps ==
  ASSUME TypeOK, DocsKept, sweepDocs
  PROVE  TypeOK' /\ DocsKept'
<1> DEFINE gone == {d \in Doc : AnonymizeOrphanDocuments(d)}
<1>1. /\ server = "up" /\ todo = {} /\ sweeping' = "idle"
      /\ UNCHANGED <<server, dek, line, todo, call, orig, stops>>
  BY DEF sweepDocs, TypeOK
<1>2. CASE UNCHANGED <<doc, blanked>>
  BY <1>1, <1>2, SamePii DEF TypeOK
<1>3. CASE /\ doc' = [d \in Doc |-> IF d \in gone THEN [doc[d] EXCEPT !.pii = Empty] ELSE doc[d]]
           /\ blanked' = blanked \cup gone
  <2>1. \A d \in gone : d \in Doc /\ doc[d].row = "present"
    BY DEF AnonymizeOrphanDocuments
  <2> HIDE DEF gone
  <2>2. \A d \in Doc : d \in gone => doc'[d] \in DocRow /\ doc'[d].row = "present" /\ doc'[d].pii = Empty
    BY <1>3, <2>1, RowType, AbsentType DEF DocRow
  <2>3. \A d \in Doc : d \notin gone => doc'[d] = doc[d]
    BY <1>3
  <2>4. TypeOK'
    <3>1. doc' \in [Doc -> DocRow]
      BY <1>3, <2>2, <2>3, RowType
    <3> QED
      BY <1>1, <1>3, <2>1, <3>1 DEF TypeOK
  <2>5. \A d \in Doc : d \notin gone => filled(d)' = filled(d) /\ shown(d)' = shown(d)
    BY <2>3 DEF filled, shown
  <2>6. NamesSurvive'
    BY <1>1, <1>3, <2>3, <2>5 DEF DocsKept, NamesSurvive
  <2>7. \A f \in Field : Empty[f] = "none"
    BY DEF Empty
  <2>8. NoCleartextServed' /\ ClearIsTodo'
    BY <1>1, <2>2, <2>3, <2>7 DEF DocsKept, NoCleartextServed, ClearIsTodo
  <2>9. BlankedGone'
    BY <1>3, <2>1, <2>2, <2>3 DEF DocsKept, BlankedGone, TypeOK
  <2>10. RowsWhole'
    BY <1>1, <2>2, <2>3, <2>7 DEF DocsKept, RowsWhole
  <2> QED
    BY <2>4, <2>6, <2>8, <2>9, <2>10 DEF DocsKept
<1> QED
  BY <1>2, <1>3 DEF sweepDocs

\* A deleted row is empty, and was not attached.
LEMMA DeleteKeeps ==
  ASSUME TypeOK, DocsKept, NEW d \in Doc, handleReceiptDelete(d)
  PROVE  TypeOK' /\ DocsKept'
<1> DEFINE x == [Absent EXCEPT !.row = "deleted"]
<1>1. /\ server = "up" /\ todo = {} /\ doc' = [doc EXCEPT ![d] = x]
      /\ UNCHANGED <<server, dek, line, todo, sweeping, call, orig, blanked, stops>>
  BY DEF handleReceiptDelete, DeleteDocument, TypeOK
<1>2. x \in DocRow /\ x.row = "deleted" /\ x.pii = Empty /\ x.bill = NoBill
  BY AbsentType DEF Absent, DocRow
<1> HIDE DEF x
<1>3. TypeOK' /\ doc'[d] = x
  BY <1>1, <1>2 DEF TypeOK
<1>4. \A e \in Doc : e # d => doc'[e] = doc[e] /\ filled(e)' = filled(e) /\ shown(e)' = shown(e)
  BY <1>1 DEF TypeOK, filled, shown
<1>5. \A f \in Field : Empty[f] = "none"
  BY DEF Empty
<1>6. NamesSurvive' /\ NoCleartextServed' /\ ClearIsTodo'
  BY <1>1, <1>2, <1>3, <1>4, <1>5 DEF DocsKept, NamesSurvive, NoCleartextServed, ClearIsTodo
<1>7. RowsWhole' /\ BlankedGone'
  BY <1>1, <1>2, <1>3, <1>4, <1>5 DEF DocsKept, RowsWhole, BlankedGone, TypeOK
<1> QED
  BY <1>3, <1>6, <1>7 DEF DocsKept

\* Every step keeps the invariant.
LEMMA RetentionStep == RetentionInv /\ [Next]_vars => RetentionInv'
<1> SUFFICES ASSUME TypeOK, DocsKept, [Next]_vars PROVE TypeOK' /\ DocsKept'
  BY DEF RetentionInv, BackfillKeeps, DocsKept
<1>1. CASE Start
  <2>1. TypeOK'
    BY <1>1 DEF Start, TypeOK
  <2>2. \A d \in Doc : filled(d)' = filled(d) /\ shown(d)' = shown(d)
    BY <1>1 DEF Start, filled, shown
  <2>3. NamesSurvive' /\ NoCleartextServed' /\ BlankedGone'
    BY <1>1, <2>2 DEF Start, DocsKept, NamesSurvive, NoCleartextServed, BlankedGone
  <2>4. \A d \in todo' : d \in Doc /\ ListDocumentsForPIIBackfill(d)
    BY <1>1 DEF Start
  <2>5. \A d \in Doc, f \in Field : doc[d].pii[f] = "clear" => d \in todo'
    <3> SUFFICES ASSUME NEW d \in Doc, NEW f \in Field, doc[d].pii[f] = "clear"
                 PROVE  ListDocumentsForPIIBackfill(d)
      BY <1>1 DEF Start
    <3>1. doc[d].row = "present"
      BY DEF DocsKept, RowsWhole, Empty
    <3>2. doc[d].pii["filename"] # "enc"
      BY DEF DocsKept, RowsWhole, Field
    <3> QED
      BY <3>1, <3>2 DEF ListDocumentsForPIIBackfill
  <2>6. ClearIsTodo'
    BY <1>1, <2>5 DEF Start, ClearIsTodo
  <2>7. \A d \in todo', f \in Field : doc[d].row = "present" /\ doc[d].pii[f] # "enc"
    BY <2>4 DEF ListDocumentsForPIIBackfill, DocsKept, RowsWhole
  <2>8. RowsWhole'
    BY <1>1, <2>4, <2>7 DEF Start, DocsKept, RowsWhole, ListDocumentsForPIIBackfill
  <2> QED
    BY <2>1, <2>3, <2>6, <2>8 DEF DocsKept
<1>2. CASE Serve
  <2>1. TypeOK'
    BY <1>2 DEF Serve, TypeOK
  <2>2. \A d \in Doc : filled(d)' = filled(d) /\ shown(d)' = shown(d)
    BY <1>2 DEF Serve, filled, shown
  <2>3. NoCleartextServed'
    BY <1>2 DEF Serve, DocsKept, ClearIsTodo, NoCleartextServed
  <2>4. dek => \A d \in Doc : shown(d) = filled(d)
    BY <1>2, RowType DEF Serve, DocsKept, ClearIsTodo, shown, filled
  <2>5. NamesSurvive'
    BY <1>2, <2>2, <2>4 DEF Serve, DocsKept, NamesSurvive
  <2>6. RowsWhole' /\ ClearIsTodo' /\ BlankedGone'
    BY <1>2 DEF Serve, DocsKept, RowsWhole, ClearIsTodo, BlankedGone
  <2> QED
    BY <2>1, <2>3, <2>5, <2>6 DEF DocsKept
<1>3. ASSUME NEW d \in Doc, backfillDocumentPIIRow(d) PROVE TypeOK' /\ DocsKept'
  BY <1>3, BackfillRow
<1>4. CASE Stop
  <2>1. TypeOK'
    BY <1>4, RetentionAssumption DEF Stop, TypeOK, Call
  <2>2. \A d \in Doc : filled(d)' = filled(d) /\ shown(d)' = shown(d)
    BY <1>4 DEF Stop, filled, shown
  <2>3. NamesSurvive' /\ NoCleartextServed' /\ BlankedGone' /\ ClearIsTodo' /\ RowsWhole'
    BY <1>4, <2>2 DEF Stop, DocsKept, NamesSurvive, NoCleartextServed, BlankedGone, ClearIsTodo, RowsWhole
  <2> QED
    BY <2>1, <2>3 DEF DocsKept
<1>5. CASE RepairDEK
  <2>1. TypeOK'
    BY <1>5 DEF RepairDEK, TypeOK
  <2>2. \A d \in Doc : filled(d)' = filled(d) /\ shown(d)' = shown(d)
    BY <1>5 DEF RepairDEK, filled, shown
  <2>3. NamesSurvive' /\ NoCleartextServed' /\ BlankedGone' /\ ClearIsTodo' /\ RowsWhole'
    BY <1>5, <2>2 DEF RepairDEK, DocsKept, NamesSurvive, NoCleartextServed, BlankedGone, ClearIsTodo, RowsWhole
  <2> QED
    BY <2>1, <2>3 DEF DocsKept
<1>6. CASE Age
  <2>0. UNCHANGED <<server, dek, todo, sweeping, call, orig, blanked, stops>>
    BY <1>6 DEF Age
  <2>1. ASSUME NEW d \in Doc, doc' = [doc EXCEPT ![d].old = TRUE], UNCHANGED line
        PROVE  TypeOK' /\ DocsKept'
    <3>1. [doc[d] EXCEPT !.old = TRUE] \in DocRow
      BY RowType DEF DocRow
    <3>2. /\ [doc[d] EXCEPT !.old = TRUE].row = doc[d].row /\ [doc[d] EXCEPT !.old = TRUE].pii = doc[d].pii
          /\ [doc[d] EXCEPT !.old = TRUE].bill = doc[d].bill
      BY RowType DEF DocRow
    <3>3. doc' = [doc EXCEPT ![d] = [doc[d] EXCEPT !.old = TRUE]]
      BY <2>1
    <3>4. /\ doc' \in [Doc -> DocRow]
          /\ \A e \in Doc : /\ doc'[e].row = doc[e].row /\ doc'[e].pii = doc[e].pii
                            /\ doc'[e].bill = doc[e].bill
      BY <3>1, <3>2, <3>3 DEF TypeOK
    <3>5. TypeOK'
      BY <2>0, <2>1, <3>4 DEF TypeOK
    <3> QED
      BY <2>0, <3>4, <3>5, SamePii
  <2>2. ASSUME NEW l \in Line, line' = [line EXCEPT ![l].old = TRUE], UNCHANGED doc
        PROVE  TypeOK' /\ DocsKept'
    <3>1. line' \in [Line -> LineRow]
      BY <2>2 DEF TypeOK, LineRow
    <3>2. TypeOK'
      BY <2>0, <2>2, <3>1 DEF TypeOK
    <3> QED
      BY <2>0, <2>2, <3>2, SamePii
  <2> QED
    BY <1>6, <2>1, <2>2 DEF Age
<1>7. CASE SweepDue
  <2>1. TypeOK' /\ UNCHANGED <<server, dek, doc, todo, orig, blanked>>
    BY <1>7 DEF SweepDue, TypeOK
  <2> QED
    BY <2>1, SamePii
<1>8. CASE sweepBank
  <2>1. line' \in [Line -> LineRow] /\ UNCHANGED <<server, dek, doc, todo, orig, blanked>>
    BY <1>8 DEF sweepBank, TypeOK, LineRow
  <2>2. TypeOK'
    BY <1>8, <2>1 DEF sweepBank, TypeOK
  <2> QED
    BY <2>1, <2>2, SamePii
<1>9. CASE sweepDocs
  BY <1>9, SweepKeeps
<1>10. ASSUME NEW d \in Doc, handleReceiptDelete(d) PROVE TypeOK' /\ DocsKept'
  BY <1>10, DeleteKeeps
<1>11. ASSUME NEW d \in Doc, NEW F \in {{"filename"}, Field}, handleReceiptUpload(d, F)
       PROVE  TypeOK' /\ DocsKept'
  <2>1. F \in SUBSET Field
    BY DEF Field
  <2>2. DocsKept' /\ doc' \in [Doc -> DocRow] /\ orig' \in [Doc -> SUBSET Field]
    BY <1>11, <2>1, SaveKeeps DEF handleReceiptUpload
  <2> QED
    BY <1>11, <2>2 DEF handleReceiptUpload, TypeOK
<1>12. ASSUME NEW r \in Request, NEW b \in Bill, NEW d \in Doc, handleSupplierInvoiceCreate(r, b, d)
       PROVE  TypeOK' /\ DocsKept'
  <2>1. TypeOK' /\ UNCHANGED <<server, dek, doc, todo, orig, blanked>>
    BY <1>12 DEF handleSupplierInvoiceCreate, goto, TypeOK, Call
  <2> QED
    BY <2>1, SamePii
<1>13. ASSUME NEW r \in Request, attachGiven(r) PROVE TypeOK' /\ DocsKept'
  <2>1. call[r].bill \in Bill /\ call[r].doc \in Doc
    BY <1>13, CallType DEF attachGiven
  <2>2. DocsKept' /\ doc' \in [Doc -> DocRow]
    BY <1>13, <2>1, AttachKeeps DEF attachGiven
  <2>3. call' \in [Request -> Call]
    BY <1>13, <2>1 DEF attachGiven, goto, TypeOK, Call
  <2> QED
    BY <1>13, <2>2, <2>3 DEF attachGiven, TypeOK
<1>14. ASSUME NEW r \in Request, attachNew(r) PROVE TypeOK' /\ DocsKept'
  <2>1. call[r].bill \in Bill /\ call[r].doc \in Doc
    BY <1>14, CallType DEF attachNew
  <2>2. DocsKept' /\ doc' \in [Doc -> DocRow]
    BY <1>14, <2>1, AttachKeeps DEF attachNew
  <2>3. call' \in [Request -> Call]
    BY <1>14, <2>1 DEF attachNew, goto, TypeOK, Call
  <2> QED
    BY <1>14, <2>2, <2>3 DEF attachNew, TypeOK
<1>15. ASSUME NEW r \in Request, NEW d \in Doc, saveUploadedReceipt(r, d) PROVE TypeOK' /\ DocsKept'
  <2>1. call[r].bill \in Bill /\ Field \in SUBSET Field
    BY <1>15, CallType DEF saveUploadedReceipt
  <2>2. call' \in [Request -> Call]
    BY <1>15, <2>1 DEF saveUploadedReceipt, goto, TypeOK, Call
  <2>3. CASE SaveDocument(d, Field)
    <3>1. DocsKept' /\ doc' \in [Doc -> DocRow] /\ orig' \in [Doc -> SUBSET Field]
      BY <1>15, <2>1, <2>3, SaveKeeps DEF saveUploadedReceipt
    <3> QED
      BY <1>15, <2>2, <3>1 DEF saveUploadedReceipt, TypeOK
  <2>4. CASE UNCHANGED <<doc, orig>>
    <3>1. DocsKept'
      BY <1>15, <2>4, SamePii DEF saveUploadedReceipt
    <3> QED
      BY <1>15, <2>2, <2>4, <3>1 DEF saveUploadedReceipt, TypeOK
  <2> QED
    BY <1>15, <2>3, <2>4 DEF saveUploadedReceipt
<1>16. ASSUME NEW l \in Line, handleBankImport(l) PROVE TypeOK' /\ DocsKept'
  <2>1. [NoLine EXCEPT !.status = "unmatched", !.text = TRUE] \in LineRow
    BY DEF NoLine, LineRow
  <2>2. line' \in [Line -> LineRow] /\ UNCHANGED <<server, dek, doc, todo, orig, blanked>>
    BY <1>16, <2>1 DEF handleBankImport, ImportBankStatement, InsertBankTxn, TypeOK
  <2>3. TypeOK'
    BY <1>16, <2>2 DEF handleBankImport, TypeOK
  <2> QED
    BY <2>2, <2>3, SamePii
<1>17. ASSUME NEW l \in Line, NEW s \in {"unmatched", "booking", "ignored", "booked"}, Book(l, s)
       PROVE  TypeOK' /\ DocsKept'
  <2>1. line' \in [Line -> LineRow] /\ UNCHANGED <<server, dek, doc, todo, orig, blanked>>
    BY <1>17 DEF Book, TypeOK, LineRow
  <2>2. TypeOK'
    BY <1>17, <2>1 DEF Book, TypeOK
  <2> QED
    BY <2>1, <2>2, SamePii
<1>18. CASE UNCHANGED vars
  <2>1. TypeOK'
    BY <1>18 DEF vars, TypeOK
  <2> QED
    BY <1>18, <2>1, SamePii DEF vars
<1> QED
  BY <1>1, <1>2, <1>3, <1>4, <1>5, <1>6, <1>7, <1>8, <1>9, <1>10, <1>11, <1>12, <1>13, <1>14,
     <1>15, <1>16, <1>17, <1>18 DEF Next, boot

\* The inductive invariant holds for ever.
THEOREM RetentionInvariance == Spec => []RetentionInv
  BY RetentionInit, RetentionStep, PTL DEF Spec

\* Through any number of stops the backfill serves nothing in clear and loses
\* nothing it encrypts (BackfillDocumentPII).
THEOREM BackfillIsSafe == Spec => []BackfillKeeps
<1>1. RetentionInv => BackfillKeeps
  BY DEF RetentionInv
<1> QED
  BY <1>1, RetentionInvariance, PTL

\* The steps that rewrite rows of the documents table, and what they may do to
\* a row: an attached one keeps its fields, an empty one that exists stays so.
RowStep(d) ==
  /\ doc[d].bill # NoBill =>
       /\ doc'[d].row = "present" /\ doc'[d].bill # NoBill
       /\ \A f \in filled(d) : doc'[d].pii[f] # "none"
  /\ doc[d].pii = Empty /\ doc[d].row # "absent" => doc'[d].pii = Empty

\* A row left as it is.
LEMMA SameRow ==
  ASSUME RowsWhole, NEW d \in Doc, doc'[d] = doc[d]
  PROVE  RowStep(d)
  BY DEF RowStep, RowsWhole, filled

\* Storing a document touches a row that does not exist.
LEMMA SaveRow ==
  ASSUME TypeOK, RowsWhole, NEW e \in Doc, NEW F, SaveDocument(e, F), NEW d \in Doc
  PROVE  RowStep(d)
<1>1. CASE d # e
  BY <1>1, SameRow DEF SaveDocument, InsertDocument, TypeOK
<1>2. CASE d = e
  BY <1>2 DEF SaveDocument, RowStep, RowsWhole
<1> QED
  BY <1>1, <1>2

\* An attachment gives a row that exists a bill.
LEMMA AttachRow ==
  ASSUME TypeOK, RowsWhole, RetentionAssumption, NEW e \in Doc, NEW b \in Bill,
         AttachDocumentToSupplier(e, b), NEW d \in Doc
  PROVE  RowStep(d)
<1>1. CASE doc' = doc
  BY <1>1, SameRow
<1>2. CASE doc[e].row = "present" /\ doc' = [doc EXCEPT ![e].bill = b]
  <2>1. CASE d # e
    BY <1>2, <2>1, SameRow DEF TypeOK
  <2>2. CASE d = e
    <3>1. doc'[d].row = "present" /\ doc'[d].pii = doc[d].pii /\ doc'[d].bill = b
      BY <1>2, <2>2, RowType DEF TypeOK, DocRow
    <3> QED
      BY <3>1 DEF RowStep, filled
  <2> QED
    BY <2>1, <2>2
<1> QED
  BY <1>1, <1>2 DEF AttachDocumentToSupplier

\* No step takes an attached row away or empties it, or fills an empty one.
LEMMA RowSteps ==
  ASSUME TypeOK, DocsKept, Next, NEW d \in Doc
  PROVE  RowStep(d)
<1>0. RowsWhole
  BY DEF DocsKept
<1>1. ASSUME doc' = doc PROVE RowStep(d)
  BY <1>0, <1>1, SameRow
<1>2. ASSUME NEW e \in Doc, backfillDocumentPIIRow(e) PROVE RowStep(d)
  <2>1. CASE d # e \/ ~dek
    BY <1>0, <1>2, <2>1, SameRow DEF backfillDocumentPIIRow, companyDEK, TypeOK
  <2>2. CASE d = e /\ dek
    <3> DEFINE p == SetDocumentPIIEnc(doc[d].pii)
    <3>1. doc' = [doc EXCEPT ![d].pii = p] /\ d \in todo
      BY <1>2, <2>2 DEF backfillDocumentPIIRow, companyDEK
    <3>2. \A f \in Field : doc[d].pii[f] # "none" => p[f] # "none"
      BY <1>0, <3>1, RowType DEF SetDocumentPIIEnc, RowsWhole
    <3>3. doc[d].pii = Empty => p = Empty
      BY DEF SetDocumentPIIEnc, Empty
    <3> HIDE DEF p
    <3>4. doc'[d].pii = p /\ doc'[d].row = doc[d].row /\ doc'[d].bill = doc[d].bill
      BY <3>1, RowType DEF TypeOK, DocRow
    <3> QED
      BY <1>0, <3>2, <3>3, <3>4 DEF RowStep, RowsWhole, filled
  <2> QED
    BY <2>1, <2>2 DEF TypeOK
<1>3. CASE Age
  <2>1. ASSUME NEW e \in Doc, doc' = [doc EXCEPT ![e].old = TRUE] PROVE RowStep(d)
    <3>1. doc'[d].row = doc[d].row /\ doc'[d].pii = doc[d].pii /\ doc'[d].bill = doc[d].bill
      BY <2>1, RowType DEF TypeOK, DocRow
    <3> QED
      BY <1>0, <3>1 DEF RowStep, RowsWhole, filled
  <2> QED
    BY <1>1, <1>3, <2>1 DEF Age
<1>4. CASE sweepDocs
  <2>1. CASE AnonymizeOrphanDocuments(d)
    <3>1. doc[d].bill = NoBill /\ doc[d].row = "present"
      BY <2>1 DEF AnonymizeOrphanDocuments
    <3>2. doc'[d] = doc[d] \/ doc'[d] = [doc[d] EXCEPT !.pii = Empty]
      BY <1>4 DEF sweepDocs
    <3>3. doc'[d].pii = doc[d].pii \/ doc'[d].pii = Empty
      BY <3>2, RowType DEF DocRow
    <3> QED
      BY <3>1, <3>3 DEF RowStep
  <2>2. CASE ~AnonymizeOrphanDocuments(d)
    BY <1>0, <1>4, <2>2, SameRow DEF sweepDocs
  <2> QED
    BY <2>1, <2>2
<1>5. ASSUME NEW e \in Doc, handleReceiptDelete(e) PROVE RowStep(d)
  <2>1. CASE d # e
    BY <1>0, <1>5, <2>1, SameRow DEF handleReceiptDelete, DeleteDocument, TypeOK
  <2>2. CASE d = e
    <3>1. doc[d].bill = NoBill /\ doc'[d] = [Absent EXCEPT !.row = "deleted"]
      BY <1>5, <2>2 DEF handleReceiptDelete, DeleteDocument, TypeOK
    <3>2. [Absent EXCEPT !.row = "deleted"].pii = Empty
      BY DEF Absent
    <3> QED
      BY <3>1, <3>2 DEF RowStep
  <2> QED
    BY <2>1, <2>2
<1>6. ASSUME NEW e \in Doc, NEW F, handleReceiptUpload(e, F) PROVE RowStep(d)
  BY <1>0, <1>6, SaveRow DEF handleReceiptUpload
<1>7. ASSUME NEW r \in Request, attachGiven(r) \/ attachNew(r) PROVE RowStep(d)
  <2>1. call[r].bill \in Bill /\ call[r].doc \in Doc /\ AttachDocumentToSupplier(call[r].doc, call[r].bill)
    BY <1>7, CallType DEF attachGiven, attachNew
  <2> QED
    BY <1>0, <2>1, AttachRow, RetentionAssumption
<1>8. ASSUME NEW r \in Request, NEW e \in Doc, saveUploadedReceipt(r, e) PROVE RowStep(d)
  BY <1>0, <1>1, <1>8, SaveRow DEF saveUploadedReceipt
<1> QED
  BY <1>1, <1>2, <1>3, <1>4, <1>5, <1>6, <1>7, <1>8
  DEF Next, boot, Start, Serve, Stop, RepairDEK, SweepDue, sweepBank, handleSupplierInvoiceCreate,
      handleBankImport, Book

\* What a step may do to a bank line: the text of a line that is booked, or being
\* booked, stays, and a text that is gone does not come back.
LineStep(l) ==
  /\ line[l].status \in {"booking", "booked"} => line'[l].text = line[l].text
  /\ line[l].status # "absent" /\ ~line[l].text => ~line'[l].text

\* No step blanks a retained line or fills a blanked one.
LEMMA LineStepTaken ==
  ASSUME TypeOK, Next, NEW l \in Line
  PROVE  LineStep(l)
<1>0. line[l] \in LineRow
  BY DEF TypeOK
<1>1. ASSUME line'[l] = line[l] PROVE LineStep(l)
  BY <1>1 DEF LineStep
<1>2. CASE Age
  <2>1. ASSUME NEW k \in Line, line' = [line EXCEPT ![k].old = TRUE] PROVE line'[l].text = line[l].text
    BY <1>0, <2>1 DEF TypeOK, LineRow
  <2> QED
    BY <1>1, <1>2, <2>1 DEF Age, LineStep
<1>3. CASE sweepBank
  <2>1. \/ line'[l] = line[l]
        \/ AnonymizeNonRetainedBankTxns(l) /\ line'[l] = [line[l] EXCEPT !.text = FALSE]
    BY <1>3 DEF sweepBank
  <2>2. CASE AnonymizeNonRetainedBankTxns(l)
    BY <2>2 DEF AnonymizeNonRetainedBankTxns, LineStep
  <2> QED
    BY <1>1, <2>1, <2>2
<1>4. ASSUME NEW k \in Line, handleBankImport(k) PROVE LineStep(l)
  BY <1>0, <1>1, <1>4 DEF handleBankImport, ImportBankStatement, InsertBankTxn, TypeOK, LineStep
<1>5. ASSUME NEW k \in Line, NEW s, Book(k, s) PROVE LineStep(l)
  <2>1. line'[l].text = line[l].text
    BY <1>0, <1>5 DEF Book, TypeOK, LineRow
  <2> QED
    BY <2>1 DEF LineStep
<1>6. ASSUME line' = line PROVE LineStep(l)
  BY <1>1, <1>6
<1> QED
  BY <1>2, <1>3, <1>4, <1>5, <1>6
  DEF Next, boot, Start, Serve, backfillDocumentPIIRow, Stop, RepairDEK, SweepDue, sweepDocs,
      handleReceiptDelete, handleReceiptUpload, handleSupplierInvoiceCreate, attachGiven, attachNew,
      saveUploadedReceipt

\* Attached receipts and booked lines keep their data, whatever sweep, deletion,
\* attachment and booking race (DeleteDocument, AnonymizeOrphanDocuments,
\* AnonymizeNonRetainedBankTxns).
THEOREM RetainedIsKept == Spec => RetainedStays
<1>1. ASSUME RetentionInv, [Next]_vars
      PROVE  /\ [\A d \in Doc : doc[d].bill # NoBill =>
                   /\ doc'[d].row = "present" /\ doc'[d].bill # NoBill
                   /\ \A f \in filled(d) : doc'[d].pii[f] # "none"]_vars
             /\ [\A l \in Line : line[l].status \in {"booking", "booked"} => line'[l].text = line[l].text]_vars
  BY <1>1, Parts, RowSteps, LineStepTaken DEF RowStep, LineStep
<1> QED
  BY <1>1, RetentionInvariance, PTL DEF Spec, RetainedStays, AttachedStays, BookedKeepsText

\* What the sweep blanked stays blank, through later imports and backfills
\* (InsertBankTxn, ListDocumentsForPIIBackfill).
THEOREM BlankIsFinal == Spec => BlankStaysBlank
<1>1. ASSUME RetentionInv, [Next]_vars
      PROVE  [/\ \A l \in Line : line[l].status # "absent" /\ ~line[l].text => ~line'[l].text
              /\ \A d \in blanked : doc'[d].pii = Empty]_vars
  <2> SUFFICES ASSUME Next
               PROVE  /\ \A l \in Line : line[l].status # "absent" /\ ~line[l].text => ~line'[l].text
                      /\ \A d \in blanked : doc'[d].pii = Empty
    BY <1>1
  <2>1. \A l \in Line : line[l].status # "absent" /\ ~line[l].text => ~line'[l].text
    BY <1>1, Parts, LineStepTaken DEF LineStep
  <2>2. \A d \in blanked : d \in Doc /\ doc[d].pii = Empty /\ doc[d].row # "absent"
    BY <1>1, Parts DEF DocsKept, BlankedGone, TypeOK
  <2>3. \A d \in blanked : doc'[d].pii = Empty
    BY <1>1, <2>2, Parts, RowSteps DEF RowStep
  <2> QED
    BY <2>1, <2>3
<1> QED
  BY <1>1, RetentionInvariance, PTL DEF Spec, BlankStaysBlank

-----------------------------------------------------------------------------
(* Module BankBooking                                                      *)

\* A task that is not idle names a transaction.
LEMMA TaskType ==
  ASSUME BankTypeOK, NEW w \in Worker, task[w].step # "idle"
  PROVE  /\ task[w] \in [step : Steps, txn : Txn, voucher : Nat]
         /\ task[w].txn \in Txn /\ task[w].voucher \in Nat /\ task[w] # Free
  BY DEF BankTypeOK, Task, Free

\* Vouchers are numbered by natural numbers.
LEMMA NextIdType ==
  ASSUME IsFiniteSet(book)
  PROVE  NextId \in Nat
  BY FS_CardinalityType DEF NextId

\* What a posting adds to the book.
LEMMA PostType ==
  ASSUME BankTypeOK, IsFiniteSet(book), NEW t \in Txn, NEW k \in {"payment", "account"},
         NEW a \in {"ack", "lost"}, Post(t, k, a)
  PROVE  /\ IsFiniteSet(book') /\ book' \subseteq Voucher /\ NextId \in Nat
         /\ book' = book \cup {[id |-> NextId, txn |-> t, kind |-> k, answer |-> a]}
<1>1. NextId \in Nat
  BY NextIdType
<1>2. book' = book \cup {[id |-> NextId, txn |-> t, kind |-> k, answer |-> a]}
  BY DEF Post
<1>3. IsFiniteSet(book')
  BY <1>2, FS_AddElement
<1> QED
  BY <1>1, <1>2, <1>3 DEF BankTypeOK, Voucher

\* Before the first import nothing is claimed, booked or posted.
LEMMA BankInvInit == BankInit => BankInv
<1> SUFFICES ASSUME BankInit PROVE BankInv
  OBVIOUS
<1>1. BankTypeOK
  BY DEF BankInit, BankTypeOK, Statuses, Task
<1>2. IsFiniteSet(book)
  BY FS_EmptySet DEF BankInit
<1>3. \A w \in Worker : task[w] = Free
  BY DEF BankInit
<1>4. OneClaim /\ MarkHasVoucher
  BY <1>3 DEF OneClaim, MarkHasVoucher, Holds, Free
<1>5. OpenIsUnpaid /\ KnownPaymentOnce /\ BookedHasVoucher
  BY DEF BankInit, OpenIsUnpaid, KnownPaymentOnce, VouchersOf, BookedHasVoucher
<1> QED
  BY <1>1, <1>2, <1>4, <1>5 DEF BankInv

\* Every step keeps the invariant; <1>2, <1>3 and <1>5 are what several actions
\* share: a task is started, a task ends and changes nothing, a payment is posted.
LEMMA BankInvStep == BankInv /\ [BankNext]_bankVars => BankInv'
<1> SUFFICES ASSUME BankInv, [BankNext]_bankVars PROVE BankInv'
  OBVIOUS
<1>0. BankTypeOK /\ IsFiniteSet(book)
  BY DEF BankInv
<1> USE DEF Statuses
<1>1. ASSUME NEW t \in Txn, ImportLine(t) PROVE BankInv'
  <2>1. /\ status[t] = "absent" /\ status' = [status EXCEPT ![t] = "unmatched"]
        /\ voucher' = voucher /\ book' = book /\ task' = task
    BY <1>1 DEF ImportLine
  <2> QED
    BY <1>0, <2>1 DEF BankInv, BankTypeOK, OneClaim, OpenIsUnpaid, KnownPaymentOnce, VouchersOf,
      MarkHasVoucher, BookedHasVoucher, Holds, Voucher
<1>2. ASSUME NEW w \in Worker, NEW t \in Txn, NEW s \in {"claim", "account"},
             task[w] = Free, Set(w, s, t, 0), UNCHANGED <<status, voucher, book>>
      PROVE  BankInv'
  <2>1. /\ task'[w] = [step |-> s, txn |-> t, voucher |-> 0]
        /\ \A u \in Worker \ {w} : task'[u] = task[u]
        /\ task' \in [Worker -> Task]
    BY <1>0, <1>2 DEF Set, BankTypeOK, Task, Steps
  <2>2. \A u \in Worker, x \in Txn : Holds(u, x)' => Holds(u, x) /\ task'[u] = task[u]
    BY <1>2, <2>1 DEF Holds
  <2> QED
    BY <1>0, <1>2, <2>1, <2>2 DEF BankInv, BankTypeOK, OneClaim, OpenIsUnpaid, KnownPaymentOnce,
      VouchersOf, MarkHasVoucher, BookedHasVoucher, Voucher
<1>3. ASSUME NEW w \in Worker, task[w] # Free, Done(w), UNCHANGED <<status, voucher, book>>
      PROVE  BankInv'
  <2>1. /\ task'[w] = Free /\ task' \in [Worker -> Task]
        /\ \A u \in Worker \ {w} : task'[u] = task[u]
    BY <1>0, <1>3 DEF Done, BankTypeOK, Task
  <2>2. \A u \in Worker, x \in Txn : Holds(u, x)' => Holds(u, x) /\ task'[u] = task[u]
    BY <2>1 DEF Holds, Free
  <2>3. \A u \in Worker : task'[u].step = "mark" => task'[u] = task[u]
    BY <2>1 DEF Free
  <2> QED
    BY <1>0, <1>3, <2>1, <2>2, <2>3 DEF BankInv, BankTypeOK, OneClaim, OpenIsUnpaid,
      KnownPaymentOnce, VouchersOf, MarkHasVoucher, BookedHasVoucher, Voucher
<1>4. ASSUME NEW w \in Worker, ClaimBankTxn(w) PROVE BankInv'
  <2> DEFINE t == task[w].txn
  <2>1. t \in Txn /\ task[w].step = "claim" /\ task[w] # Free
    BY <1>0, <1>4, TaskType DEF ClaimBankTxn
  <2>2. CASE status[t] # "unmatched"
    BY <1>3, <1>4, <2>1, <2>2 DEF ClaimBankTxn
  <2>3. CASE status[t] = "unmatched"
    <3>1. /\ status' = [status EXCEPT ![t] = "booking"] /\ voucher' = voucher /\ book' = book
          /\ task'[w] = [step |-> "pay", txn |-> t, voucher |-> 0]
          /\ \A u \in Worker \ {w} : task'[u] = task[u]
          /\ task' \in [Worker -> Task]
      BY <1>0, <1>4, <2>1, <2>3 DEF ClaimBankTxn, Set, BankTypeOK, Task, Steps
    <3>2. \A u \in Worker : ~Holds(u, t)
      BY <2>1, <2>3 DEF BankInv, OneClaim
    <3>3. \A u \in Worker, x \in Txn : Holds(u, x)' <=> IF u = w THEN x = t ELSE Holds(u, x)
      BY <3>1 DEF Holds, Free
    <3>4. \A v \in book : v.kind = "payment" /\ v.answer = "ack" => v.txn # t
      BY <2>3 DEF BankInv, OpenIsUnpaid
    <3>5. BankTypeOK'
      BY <1>0, <3>1 DEF BankTypeOK
    <3>6. OneClaim'
      BY <1>0, <2>1, <3>1, <3>2, <3>3 DEF BankInv, OneClaim, BankTypeOK
    <3>7. OpenIsUnpaid'
      BY <1>0, <2>1, <2>3, <3>1, <3>3, <3>4 DEF BankInv, OpenIsUnpaid, BankTypeOK, Voucher
    <3>8. MarkHasVoucher'
      BY <3>1 DEF BankInv, MarkHasVoucher
    <3> QED
      BY <1>0, <2>1, <2>3, <3>1, <3>5, <3>6, <3>7, <3>8
         DEF BankInv, KnownPaymentOnce, VouchersOf, BookedHasVoucher, BankTypeOK
  <2> QED
    BY <2>2, <2>3
<1>5. ASSUME NEW w \in Worker, NEW a \in {"ack", "lost"}, task[w].step = "pay",
             Post(task[w].txn, "payment", a), UNCHANGED <<status, voucher>>,
             Set(w, IF a = "ack" THEN "mark" ELSE "unclaim", task[w].txn, IF a = "ack" THEN NextId ELSE 0)
      PROVE  BankInv'
  <2> DEFINE t == task[w].txn
             n == [id |-> NextId, txn |-> t, kind |-> "payment", answer |-> a]
  <2>1. t \in Txn /\ task[w] # Free /\ Holds(w, t)
    BY <1>0, <1>5, TaskType DEF Holds
  <2>2. IsFiniteSet(book') /\ book' \subseteq Voucher /\ NextId \in Nat /\ book' = book \cup {n}
    BY <1>0, <1>5, <2>1, PostType
  <2>n. PICK m : m = n
    OBVIOUS
  <2>m. /\ m.id = NextId /\ m.txn = t /\ m.kind = "payment" /\ m.answer = a
        /\ book' = book \cup {m}
    BY <2>2, <2>n
  <2>3. /\ task'[w] = [step |-> IF a = "ack" THEN "mark" ELSE "unclaim", txn |-> t,
                       voucher |-> IF a = "ack" THEN NextId ELSE 0]
        /\ \A u \in Worker \ {w} : task'[u] = task[u]
        /\ task' \in [Worker -> Task]
    BY <1>0, <1>5, <2>1, <2>2 DEF Set, BankTypeOK, Task, Steps
  <2>4. \A u \in Worker, x \in Txn : Holds(u, x)' <=> Holds(u, x)
    BY <1>5, <2>1, <2>3 DEF Holds, Free
  <2>5. status[t] \in {"booking", "booked"} /\ \A u \in Worker : Holds(u, t) => u = w
    BY <2>1 DEF BankInv, OneClaim
  <2>6. \A v \in book : v.kind = "payment" /\ v.answer = "ack" => v.txn # t
    BY <1>5, <2>1 DEF BankInv, OpenIsUnpaid
  <2>7. BankTypeOK'
    BY <1>0, <1>5, <2>2, <2>3 DEF BankTypeOK
  <2>8. OneClaim'
    BY <1>5, <2>4 DEF BankInv, OneClaim
  <2>9. OpenIsUnpaid'
    <3>1. ASSUME NEW v \in book
          PROVE  /\ v.kind = "payment" /\ v.answer = "ack" =>
                      /\ status[v.txn] \in {"booking", "booked"}
                      /\ \A u \in Worker : Holds(u, v.txn)' => task'[u].step = "mark"
                 /\ v.kind = "account" => status[v.txn] = "booked"
      <4>1. v.txn \in Txn
        BY <1>0 DEF BankTypeOK, Voucher
      <4>2. v.kind = "payment" /\ v.answer = "ack" => ~Holds(w, v.txn)
        BY <1>5 DEF BankInv, OpenIsUnpaid
      <4> QED
        BY <2>3, <2>4, <4>1, <4>2 DEF BankInv, OpenIsUnpaid
    <3>2. ASSUME m.answer = "ack", NEW u \in Worker, Holds(u, m.txn)' PROVE task'[u].step = "mark"
      <4>1. u = w /\ a = "ack"
        BY <2>1, <2>m, <2>4, <2>5, <3>2
      <4> QED
        BY <2>3, <4>1
    <3> QED
      BY <1>5, <2>2, <2>m, <2>5, <3>1, <3>2 DEF OpenIsUnpaid
  <2>10. KnownPaymentOnce'
    BY <2>1, <2>2, <2>m, <2>6 DEF BankInv, KnownPaymentOnce, VouchersOf
  <2>11. MarkHasVoucher'
    BY <2>2, <2>m, <2>3 DEF BankInv, MarkHasVoucher
  <2>12. BookedHasVoucher'
    BY <1>5, <2>2 DEF BankInv, BookedHasVoucher
  <2> QED
    BY <2>2, <2>7, <2>8, <2>9, <2>10, <2>11, <2>12 DEF BankInv
<1>6. ASSUME NEW w \in Worker, PaymentFails(w) PROVE BankInv'
  <2> DEFINE t == task[w].txn
  <2>1. t \in Txn /\ task[w].step = "pay" /\ task[w] # Free /\ Holds(w, t)
    BY <1>0, <1>6, TaskType DEF PaymentFails, Holds
  <2>2. /\ status' = status /\ voucher' = voucher /\ book' = book
        /\ task'[w] = [step |-> "unclaim", txn |-> t, voucher |-> 0]
        /\ \A u \in Worker \ {w} : task'[u] = task[u]
        /\ task' \in [Worker -> Task]
    BY <1>0, <1>6, <2>1 DEF PaymentFails, Set, BankTypeOK, Task, Steps
  <2>3. \A u \in Worker, x \in Txn : Holds(u, x)' <=> Holds(u, x)
    BY <2>1, <2>2 DEF Holds, Free
  <2>4. OneClaim'
    BY <2>2, <2>3 DEF BankInv, OneClaim
  <2>5. OpenIsUnpaid'
    BY <1>0, <2>1, <2>2, <2>3 DEF BankInv, OpenIsUnpaid, BankTypeOK, Voucher
  <2>6. MarkHasVoucher'
    BY <2>2 DEF BankInv, MarkHasVoucher
  <2> QED
    BY <1>0, <2>2, <2>4, <2>5, <2>6
       DEF BankInv, BankTypeOK, KnownPaymentOnce, VouchersOf, BookedHasVoucher
<1>7. ASSUME NEW w \in Worker, UnclaimBankTxn(w) PROVE BankInv'
  <2> DEFINE t == task[w].txn
  <2>1. t \in Txn /\ task[w].step = "unclaim" /\ task[w] # Free /\ Holds(w, t)
    BY <1>0, <1>7, TaskType DEF UnclaimBankTxn, Holds
  <2>2. CASE status[t] # "booking"
    <3>1. status' = status
      BY <1>0, <1>7, <2>1, <2>2 DEF UnclaimBankTxn, BankTypeOK
    <3> QED
      BY <1>3, <1>7, <2>1, <3>1 DEF UnclaimBankTxn
  <2>3. CASE status[t] = "booking"
    <3>1. /\ status' = [status EXCEPT ![t] = "unmatched"] /\ voucher' = voucher /\ book' = book
          /\ task'[w] = Free /\ \A u \in Worker \ {w} : task'[u] = task[u]
          /\ task' \in [Worker -> Task]
      BY <1>0, <1>7, <2>1, <2>3 DEF UnclaimBankTxn, Done, BankTypeOK, Task
    <3>2. \A u \in Worker, x \in Txn : Holds(u, x)' => Holds(u, x) /\ u # w /\ x # t
      BY <2>1, <3>1 DEF BankInv, OneClaim, Holds, Free
    <3>3. \A v \in book : v.kind = "payment" /\ v.answer = "ack" => v.txn # t
      BY <2>1 DEF BankInv, OpenIsUnpaid
    <3>4. \A v \in book : v.kind = "account" => v.txn # t
      BY <2>3 DEF BankInv, OpenIsUnpaid
    <3>5. BankTypeOK'
      BY <1>0, <3>1 DEF BankTypeOK
    <3>6. OneClaim'
      BY <1>0, <2>1, <3>1, <3>2 DEF BankInv, OneClaim, BankTypeOK
    <3>7. OpenIsUnpaid'
      BY <1>0, <2>1, <3>1, <3>2, <3>3, <3>4 DEF BankInv, OpenIsUnpaid, BankTypeOK, Voucher
    <3>8. MarkHasVoucher'
      BY <3>1 DEF BankInv, MarkHasVoucher, Free
    <3> QED
      BY <1>0, <2>1, <2>3, <3>1, <3>5, <3>6, <3>7, <3>8
         DEF BankInv, KnownPaymentOnce, VouchersOf, BookedHasVoucher, BankTypeOK
  <2> QED
    BY <2>2, <2>3
<1>8. ASSUME NEW w \in Worker, MarkBooked(w) PROVE BankInv'
  <2> DEFINE t == task[w].txn
  <2>1. t \in Txn /\ task[w].step = "mark" /\ task[w] # Free /\ task[w].voucher \in Nat
    BY <1>0, <1>8, TaskType DEF MarkBooked
  <2>2. CASE ~Bookable(t)
    BY <1>3, <1>8, <2>1, <2>2 DEF MarkBooked
  <2>3. CASE Bookable(t)
    <3>1. /\ status' = [status EXCEPT ![t] = "booked"]
          /\ voucher' = [voucher EXCEPT ![t] = task[w].voucher] /\ book' = book
          /\ task'[w] = Free /\ \A u \in Worker \ {w} : task'[u] = task[u]
          /\ task' \in [Worker -> Task]
      BY <1>0, <1>8, <2>3 DEF MarkBooked, MarkBankTxnBooked, Done, BankTypeOK, Task
    <3>2. \A u \in Worker, x \in Txn : Holds(u, x)' => Holds(u, x) /\ u # w
      BY <3>1 DEF Holds, Free
    <3>3. BankTypeOK'
      BY <1>0, <2>1, <3>1 DEF BankTypeOK
    <3>4. OneClaim'
      BY <1>0, <2>1, <3>1, <3>2 DEF BankInv, OneClaim, BankTypeOK
    <3>5. OpenIsUnpaid'
      BY <1>0, <2>1, <3>1, <3>2 DEF BankInv, OpenIsUnpaid, BankTypeOK, Voucher
    <3>6. MarkHasVoucher'
      BY <3>1 DEF BankInv, MarkHasVoucher, Free
    <3>7. BookedHasVoucher'
      BY <1>0, <2>1, <3>1 DEF BankInv, BookedHasVoucher, MarkHasVoucher, BankTypeOK
    <3> QED
      BY <1>0, <3>1, <3>3, <3>4, <3>5, <3>6, <3>7 DEF BankInv, KnownPaymentOnce, VouchersOf
  <2> QED
    BY <2>2, <2>3
<1>9. ASSUME NEW w \in Worker, BookToAccount(w) PROVE BankInv'
  <2> DEFINE t == task[w].txn
  <2>1. t \in Txn /\ task[w].step = "account" /\ task[w] # Free
    BY <1>0, <1>9, TaskType DEF BookToAccount
  <2>2. CASE ~Bookable(t)
    BY <1>3, <1>9, <2>1, <2>2 DEF BookToAccount
  <2>3. CASE Bookable(t)
    <3> DEFINE n == [id |-> NextId, txn |-> t, kind |-> "account", answer |-> "ack"]
    <3>1. IsFiniteSet(book') /\ book' \subseteq Voucher /\ NextId \in Nat /\ book' = book \cup {n}
      BY <1>0, <1>9, <2>1, <2>3, PostType DEF BookToAccount
    <3>n. n.id = NextId /\ n.txn = t /\ n.kind = "account"
      OBVIOUS
    <3> HIDE DEF n
    <3>2. /\ status' = [status EXCEPT ![t] = "booked"]
          /\ voucher' = [voucher EXCEPT ![t] = NextId]
          /\ task'[w] = Free /\ \A u \in Worker \ {w} : task'[u] = task[u]
          /\ task' \in [Worker -> Task]
      BY <1>0, <1>9, <2>3 DEF BookToAccount, MarkBankTxnBooked, Done, BankTypeOK, Task
    <3>3. \A u \in Worker, x \in Txn : Holds(u, x)' => Holds(u, x) /\ u # w
      BY <3>2 DEF Holds, Free
    <3>4. \A v \in book : v.kind = "account" => v.txn # t
      BY <2>3 DEF BankInv, OpenIsUnpaid, Bookable
    <3>5. BankTypeOK'
      BY <1>0, <2>1, <3>1, <3>2 DEF BankTypeOK
    <3>6. OneClaim'
      BY <1>0, <2>1, <3>2, <3>3 DEF BankInv, OneClaim, BankTypeOK
    <3>7. OpenIsUnpaid'
      BY <1>0, <2>1, <3>1, <3>n, <3>2, <3>3 DEF BankInv, OpenIsUnpaid, BankTypeOK, Voucher
    <3>8. KnownPaymentOnce'
      BY <2>1, <3>1, <3>n, <3>4 DEF BankInv, KnownPaymentOnce, VouchersOf
    <3>9. MarkHasVoucher'
      BY <3>1, <3>2 DEF BankInv, MarkHasVoucher, Free
    <3>10. BookedHasVoucher'
      BY <1>0, <2>1, <3>1, <3>n, <3>2 DEF BankInv, BookedHasVoucher, BankTypeOK
    <3> QED
      BY <3>1, <3>5, <3>6, <3>7, <3>8, <3>9, <3>10 DEF BankInv
  <2> QED
    BY <2>2, <2>3
<1>10. ASSUME NEW w \in Worker, NEW t \in Txn, IgnoreBankTxn(w, t) PROVE BankInv'
  <2>1. /\ status[t] = "unmatched" /\ status' = [status EXCEPT ![t] = "ignored"]
        /\ voucher' = voucher /\ book' = book /\ task' = task
    BY <1>10 DEF IgnoreBankTxn
  <2> QED
    BY <1>0, <2>1 DEF BankInv, BankTypeOK, OneClaim, OpenIsUnpaid, KnownPaymentOnce, VouchersOf,
      MarkHasVoucher, BookedHasVoucher, Holds, Voucher
<1>11. CASE UNCHANGED bankVars
  BY <1>11 DEF bankVars, BankInv, BankTypeOK, OneClaim, OpenIsUnpaid, KnownPaymentOnce, VouchersOf,
    MarkHasVoucher, BookedHasVoucher, Holds
<1>12. ASSUME NEW w \in Worker, Step(w) PROVE BankInv'
  <2>1. CASE PaymentPosted(w)
    BY <1>5, <2>1 DEF PaymentPosted
  <2>2. CASE PaymentAckLost(w)
    BY <1>5, <2>2 DEF PaymentAckLost
  <2> QED
    BY <1>4, <1>6, <1>7, <1>8, <1>9, <1>12, <2>1, <2>2 DEF Step
<1>13. ASSUME NEW w \in Worker, NEW t \in Txn, ReadForInvoice(w, t) \/ ReadForAccount(w, t)
       PROVE  BankInv'
  BY <1>2, <1>13 DEF ReadForInvoice, ReadForAccount
<1>14. ASSUME NEW w \in Worker, HandlerStops(w) PROVE BankInv'
  BY <1>3, <1>14 DEF HandlerStops
<1> QED
  BY <1>1, <1>10, <1>11, <1>12, <1>13, <1>14 DEF BankNext

\* The invariant of the claim protocol holds in every reachable state.
THEOREM BankInvariance == BankSpec => []BankInv
  BY BankInvInit, BankInvStep, PTL DEF BankSpec

\* "exactly one caller wins": a claim is held by one handler.
THEOREM ClaimIsExclusive == BankSpec => []OneClaim
<1>1. BankInv => OneClaim
  BY DEF BankInv
<1> QED
  BY <1>1, BankInvariance, PTL

\* No transaction is paid twice by handlers that know the outcome of their
\* payment, nor booked to an account twice.
THEOREM PaidOnceWhenKnown == BankSpec => []KnownPaymentOnce
<1>1. BankInv => KnownPaymentOnce
  BY DEF BankInv
<1> QED
  BY <1>1, BankInvariance, PTL

\* A booked transaction points to a voucher of its own.
THEOREM BookedIsPosted == BankSpec => []BookedHasVoucher
<1>1. BankInv => BookedHasVoucher
  BY DEF BankInv
<1> QED
  BY <1>1, BankInvariance, PTL

\* A booked transaction stays booked on the voucher it was booked with.
THEOREM BookedStaysBooked == BankSpec => BookedIsFinal
<1>1. ASSUME BankInv, [BankNext]_bankVars
      PROVE  [\A t \in Txn : status[t] = "booked" =>
                status'[t] = "booked" /\ voucher'[t] = voucher[t]]_bankVars
  <2> SUFFICES ASSUME BankNext, NEW t \in Txn, status[t] = "booked"
               PROVE  status'[t] = "booked" /\ voucher'[t] = voucher[t]
    BY <1>1 DEF bankVars
  <2> USE DEF BankTypeOK, Bookable, MarkBankTxnBooked
  <2>1. BankTypeOK
    BY <1>1 DEF BankInv
  <2>2. ASSUME NEW x \in Txn, ImportLine(x) PROVE status'[t] = "booked" /\ voucher'[t] = voucher[t]
    BY <2>1, <2>2 DEF ImportLine
  <2>3. ASSUME NEW w \in Worker, Step(w) \/ HandlerStops(w)
        PROVE  status'[t] = "booked" /\ voucher'[t] = voucher[t]
    <3>1. CASE ClaimBankTxn(w)
      BY <2>1, <3>1 DEF ClaimBankTxn
    <3>2. CASE UnclaimBankTxn(w)
      BY <2>1, <3>2 DEF UnclaimBankTxn
    <3>3. CASE MarkBooked(w)
      BY <2>1, <3>3 DEF MarkBooked
    <3>4. CASE BookToAccount(w)
      BY <2>1, <3>4 DEF BookToAccount
    <3>5. CASE PaymentPosted(w) \/ PaymentFails(w) \/ PaymentAckLost(w) \/ HandlerStops(w)
      BY <3>5 DEF PaymentPosted, PaymentFails, PaymentAckLost, HandlerStops
    <3> QED
      BY <2>3, <3>1, <3>2, <3>3, <3>4, <3>5 DEF Step
  <2>4. ASSUME NEW w \in Worker, NEW x \in Txn,
               ReadForInvoice(w, x) \/ ReadForAccount(w, x) \/ IgnoreBankTxn(w, x)
        PROVE  status'[t] = "booked" /\ voucher'[t] = voucher[t]
    BY <2>1, <2>4 DEF ReadForInvoice, ReadForAccount, IgnoreBankTxn
  <2> QED
    BY <2>2, <2>3, <2>4 DEF BankNext
<1> QED
  BY <1>1, BankInvariance, PTL DEF BankSpec, BookedIsFinal

\* What Retention takes a bank line to go through is what the claim protocol does:
\* every change of a status is an import or one of LineSteps, whatever handlers race,
\* stop or lose an answer.
THEOREM LinesMoveAsAssumed ==
  BankSpec => [][\A t \in Txn : status'[t] # status[t] =>
                   <<status[t], status'[t]>> \in LineSteps \cup {<<"absent", "unmatched">>}]_bankVars
<1> DEFINE Moves == \A t \in Txn : status'[t] # status[t] =>
                      <<status[t], status'[t]>> \in LineSteps \cup {<<"absent", "unmatched">>}
<1>1. ASSUME BankInv, [BankNext]_bankVars
      PROVE  [Moves]_bankVars
  <2> SUFFICES ASSUME BankNext, NEW t \in Txn, status'[t] # status[t]
               PROVE  <<status[t], status'[t]>> \in LineSteps \cup {<<"absent", "unmatched">>}
    BY <1>1 DEF bankVars
  <2>1. status \in [Txn -> Statuses]
    BY <1>1 DEF BankInv, BankTypeOK
  <2>2. ASSUME NEW x \in Txn, ImportLine(x)
        PROVE  status[t] = "absent" /\ status'[t] = "unmatched"
    BY <2>1, <2>2 DEF ImportLine
  <2>3. ASSUME NEW w \in Worker, Step(w) \/ HandlerStops(w)
        PROVE  <<status[t], status'[t]>> \in LineSteps
    <3>1. CASE ClaimBankTxn(w)
      BY <2>1, <3>1 DEF ClaimBankTxn, LineSteps
    <3>2. CASE UnclaimBankTxn(w)
      BY <2>1, <3>2 DEF UnclaimBankTxn, LineSteps
    <3>3. CASE MarkBooked(w)
      BY <2>1, <3>3 DEF MarkBooked, MarkBankTxnBooked, Bookable, LineSteps
    <3>4. CASE BookToAccount(w)
      BY <2>1, <3>4 DEF BookToAccount, MarkBankTxnBooked, Bookable, LineSteps
    <3>5. CASE PaymentPosted(w) \/ PaymentFails(w) \/ PaymentAckLost(w) \/ HandlerStops(w)
      BY <3>5 DEF PaymentPosted, PaymentFails, PaymentAckLost, HandlerStops
    <3> QED
      BY <2>3, <3>1, <3>2, <3>3, <3>4, <3>5 DEF Step
  <2>4. ASSUME NEW w \in Worker, NEW x \in Txn,
               ReadForInvoice(w, x) \/ ReadForAccount(w, x) \/ IgnoreBankTxn(w, x)
        PROVE  <<status[t], status'[t]>> \in LineSteps
    BY <2>1, <2>4 DEF ReadForInvoice, ReadForAccount, IgnoreBankTxn, LineSteps
  <2> QED
    BY <2>2, <2>3, <2>4 DEF BankNext
<1> QED
  BY <1>1, BankInvariance, PTL DEF BankSpec
=============================================================================
