----------------------------- MODULE Retention -----------------------------
(***************************************************************************)
(* Personal data in receipts and bank lines: the encryption backfill at    *)
(* start, uploads, attaching to bills, deletion, statement import and the  *)
(* anonymising sweep (internal/store/store_document.go, store_bank.go,     *)
(* store_sweep.go, cmd/server/main.go).                                    *)
(*                                                                         *)
(* A document's file name and note are stored encrypted; rows of older     *)
(* versions hold them in clear until the backfill of a start has rewritten *)
(* them one by one.  Requests and the hourly sweep interleave statement by *)
(* statement, and the process may stop anywhere.  One company exists; its  *)
(* DEK may be unusable.                                                    *)
(***************************************************************************)
EXTENDS Integers, FiniteSets

CONSTANTS Doc, Bill, Line,  \* documents, supplier invoices, bank lines by fingerprint
          Request,          \* requests in flight
          NoBill,           \* no supplier invoice
          MaxStops          \* bound on the stops of the process

ASSUME RetentionAssumption == NoBill \notin Bill /\ MaxStops \in Nat

VARIABLES
  server,   \* "down", "booting" or "up"
  dek,      \* the company's DEK can be unwrapped
  doc,      \* the documents table
  line,     \* the bank_transactions table
  todo,     \* rows selected by the backfill of this start
  sweeping, \* the next statement of the sweep, "idle" between two sweeps
  call,     \* call[r]: what request r is doing
  orig,     \* history: orig[d], the fields d came with
  blanked,  \* history: documents the sweep has blanked
  stops

vars == <<server, dek, doc, line, todo, sweeping, call, orig, blanked, stops>>

Field == {"filename", "note"}

Empty == [f \in Field |-> "none"]

Absent == [row |-> "absent", pii |-> Empty, bill |-> NoBill, old |-> FALSE]

NoLine == [status |-> "absent", text |-> FALSE, old |-> FALSE]

Idle == [at |-> "idle"]

\* The DEK can be had: dek_wrapped unwraps under the current master key.
companyDEK == dek

\* What the lists and the download show of d: the encrypted columns, decrypted.
shown(d) == {f \in Field : doc[d].pii[f] = "enc"}

\* The fields of d that hold something.
filled(d) == {f \in Field : doc[d].pii[f] # "none"}

\* Before the start: rows written before the columns were encrypted.
Init ==
  /\ server = "down" /\ dek \in BOOLEAN
  /\ doc \in [Doc -> {Absent} \cup
       [row : {"present"}, pii : [Field -> {"none", "clear"}] \ {Empty}, bill : Bill \cup {NoBill}, old : {FALSE}]]
  /\ line = [l \in Line |-> NoLine]
  /\ todo = {} /\ sweeping = "idle"
  /\ call = [r \in Request |-> Idle]
  /\ orig = [d \in Doc |-> filled(d)] /\ blanked = {}
  /\ stops = 0

goto(r, c) == call' = [call EXCEPT ![r] = c]

-----------------------------------------------------------------------------
\* Fault: a row without a file name is not selected.
selectNamed(d) == doc[d].pii["filename"] = "clear"

\* ListDocumentsForPIIBackfill: no encrypted name, and something in clear.
ListDocumentsForPIIBackfill(d) ==
  /\ doc[d].row = "present"
  /\ doc[d].pii["filename"] # "enc" /\ \E f \in Field : doc[d].pii[f] = "clear"

\* The start up to the backfill's selection.
Start ==
  /\ server = "down"
  /\ server' = "booting" /\ todo' = {d \in Doc : ListDocumentsForPIIBackfill(d)}
  /\ UNCHANGED <<dek, doc, line, sweeping, call, orig, blanked, stops>>

\* encField of both fields, and the cleartext columns blanked: SetDocumentPIIEnc.
SetDocumentPIIEnc(p) == [f \in Field |-> IF p[f] = "clear" THEN "enc" ELSE "none"]

\* One row of the backfill.  Without a usable DEK it is skipped.
backfillDocumentPIIRow(d) ==
  /\ server = "booting" /\ d \in todo
  /\ todo' = todo \ {d}
  /\ doc' = IF companyDEK THEN [doc EXCEPT ![d].pii = SetDocumentPIIEnc(@)] ELSE doc
  /\ UNCHANGED <<server, dek, line, sweeping, call, orig, blanked, stops>>

\* The backfill is done: the sweeper starts with a sweep and the server listens.
Serve ==
  /\ server = "booting" /\ todo = {}
  /\ server' = "up" /\ sweeping' = "bank"
  /\ UNCHANGED <<dek, doc, line, todo, call, orig, blanked, stops>>

\* The process stops: a crash, a fatal error of the backfill, a deploy.
Stop ==
  /\ server # "down" /\ stops < MaxStops
  /\ server' = "down" /\ stops' = stops + 1
  /\ todo' = {} /\ sweeping' = "idle" /\ call' = [r \in Request |-> Idle]
  /\ UNCHANGED <<dek, doc, line, orig, blanked>>

\* An operator repairs dek_wrapped while the server is down.
RepairDEK ==
  /\ server = "down" /\ ~dek /\ dek' = TRUE
  /\ UNCHANGED <<server, doc, line, todo, sweeping, call, orig, blanked, stops>>

-----------------------------------------------------------------------------
\* InsertDocument: the cleartext columns are no longer written.
InsertDocument(d, fields) ==
  doc' = [doc EXCEPT ![d] = [Absent EXCEPT !.row = "present",
            !.pii = [f \in Field |-> IF f \in fields THEN "enc" ELSE "none"]]]

\* SaveDocument: encrypts, inserts, and logs.
SaveDocument(d, fields) ==
  /\ companyDEK /\ doc[d].row = "absent"
  /\ InsertDocument(d, fields)
  /\ orig' = [orig EXCEPT ![d] = fields]

\* POST /kvitton: an uploaded part has a file name, the note may be empty.
handleReceiptUpload(d, fields) ==
  /\ server = "up" /\ SaveDocument(d, fields)
  /\ UNCHANGED <<server, dek, line, todo, sweeping, call, blanked, stops>>

\* Fault: attached documents can be deleted.
DeleteAny(d) ==
  /\ doc[d].row = "present"
  /\ doc' = [doc EXCEPT ![d] = [Absent EXCEPT !.row = "deleted"]]

\* DELETE of an unattached document.
DeleteDocument(d) ==
  /\ doc[d].row = "present" /\ doc[d].bill = NoBill
  /\ doc' = [doc EXCEPT ![d] = [Absent EXCEPT !.row = "deleted"]]

\* POST /kvitton/{id}/delete.
handleReceiptDelete(d) ==
  /\ server = "up" /\ DeleteDocument(d)
  /\ UNCHANGED <<server, dek, line, todo, sweeping, call, orig, blanked, stops>>

\* AttachDocumentToSupplier, whose errors the caller ignores: a failed statement,
\* or no such row.
AttachDocumentToSupplier(d, b) ==
  \/ doc[d].row = "present" /\ doc' = [doc EXCEPT ![d].bill = b]
  \/ UNCHANGED doc

\* POST /supplier-invoices: bill b is created; d was the receipt on the form.
handleSupplierInvoiceCreate(r, b, d) ==
  /\ server = "up" /\ call[r] = Idle /\ doc[d].row # "absent"
  /\ goto(r, [at |-> "attach", bill |-> b, doc |-> d])
  /\ UNCHANGED <<server, dek, doc, line, todo, sweeping, orig, blanked, stops>>

\* It attaches the receipt it was given.
attachGiven(r) ==
  /\ call[r].at = "attach"
  /\ AttachDocumentToSupplier(call[r].doc, call[r].bill)
  /\ goto(r, [at |-> "upload", bill |-> call[r].bill])
  /\ UNCHANGED <<server, dek, line, todo, sweeping, orig, blanked, stops>>

\* saveUploadedReceipt: no file came with the form, or it could not be stored, or
\* it was stored but not logged (and its id is lost), or all went well.
saveUploadedReceipt(r, d) ==
  /\ call[r].at = "upload"
  /\ \/ SaveDocument(d, Field) /\ goto(r, [at |-> "attachNew", bill |-> call[r].bill, doc |-> d])
     \/ SaveDocument(d, Field) /\ goto(r, Idle)
     \/ goto(r, Idle) /\ UNCHANGED <<doc, orig>>
  /\ UNCHANGED <<server, dek, line, todo, sweeping, blanked, stops>>

\* It attaches the file it stored.
attachNew(r) ==
  /\ call[r].at = "attachNew"
  /\ AttachDocumentToSupplier(call[r].doc, call[r].bill)
  /\ goto(r, Idle)
  /\ UNCHANGED <<server, dek, line, todo, sweeping, orig, blanked, stops>>

-----------------------------------------------------------------------------
\* Fault: importing a line again stores its text again.
InsertBankTxnAgain(l) ==
  line' = [line EXCEPT ![l] =
    IF line[l].status = "absent" THEN [NoLine EXCEPT !.status = "unmatched", !.text = TRUE]
    ELSE [@ EXCEPT !.text = TRUE]]

\* InsertBankTxn of an entry with a text: ON CONFLICT (company_id, fingerprint) DO NOTHING.
InsertBankTxn(l) ==
  line' = IF line[l].status = "absent"
          THEN [line EXCEPT ![l] = [NoLine EXCEPT !.status = "unmatched", !.text = TRUE]]
          ELSE line

\* ImportBankStatement at the entry with fingerprint l.  The entries are stored
\* one by one, each in its own statement, and an error leaves the earlier ones.
ImportBankStatement(l) == companyDEK /\ InsertBankTxn(l)

\* POST /bank/import.
handleBankImport(l) ==
  /\ server = "up" /\ ImportBankStatement(l)
  /\ UNCHANGED <<server, dek, doc, todo, sweeping, call, orig, blanked, stops>>

\* ClaimBankTxn, MarkBankTxnIgnored, UnclaimBankTxn and MarkBankTxnBooked (the
\* steps of module BankBooking, seen from the line).
LineSteps == {<<"unmatched", "booking">>, <<"unmatched", "ignored">>,
              <<"booking", "unmatched">>, <<"booking", "booked">>, <<"unmatched", "booked">>}

Book(l, s) ==
  /\ server = "up" /\ <<line[l].status, s>> \in LineSteps
  /\ line' = [line EXCEPT ![l].status = s]
  /\ UNCHANGED <<server, dek, doc, todo, sweeping, call, orig, blanked, stops>>

-----------------------------------------------------------------------------
\* The retention window of d or l passes.
Age ==
  /\ \/ \E d \in Doc : /\ doc[d].row = "present" /\ ~doc[d].old
                       /\ doc' = [doc EXCEPT ![d].old = TRUE] /\ UNCHANGED line
     \/ \E l \in Line : /\ line[l].status # "absent" /\ ~line[l].old
                        /\ line' = [line EXCEPT ![l].old = TRUE] /\ UNCHANGED doc
  /\ UNCHANGED <<server, dek, todo, sweeping, call, orig, blanked, stops>>

\* The next sweep is due.
SweepDue ==
  /\ server = "up" /\ sweeping = "idle" /\ sweeping' = "bank"
  /\ UNCHANGED <<server, dek, doc, line, todo, call, orig, blanked, stops>>

\* The WHERE of AnonymizeNonRetainedBankTxns.
AnonymizeNonRetainedBankTxns(l) ==
  line[l].status \in {"unmatched", "ignored"} /\ line[l].text /\ line[l].old

\* The bank leg of AnonymizeNonRetainedPII; its failure skips the other one.
sweepBank ==
  /\ sweeping = "bank"
  /\ \/ /\ sweeping' = "docs"
        /\ line' = [l \in Line |-> IF AnonymizeNonRetainedBankTxns(l)
                                   THEN [line[l] EXCEPT !.text = FALSE] ELSE line[l]]
     \/ sweeping' = "idle" /\ UNCHANGED line
  /\ UNCHANGED <<server, dek, doc, todo, call, orig, blanked, stops>>

\* Fault: the predicate looks at the encrypted columns only.
orphanEncrypted(d) ==
  /\ doc[d].row = "present" /\ doc[d].bill = NoBill /\ doc[d].old
  /\ \E f \in Field : doc[d].pii[f] = "enc"

\* The WHERE of AnonymizeOrphanDocuments, cleartext included.
AnonymizeOrphanDocuments(d) ==
  /\ doc[d].row = "present" /\ doc[d].bill = NoBill /\ doc[d].old
  /\ filled(d) # {}

\* The document leg; it needs no DEK.
sweepDocs ==
  /\ sweeping = "docs" /\ sweeping' = "idle"
  /\ LET gone == {d \in Doc : AnonymizeOrphanDocuments(d)}
     IN  \/ /\ doc' = [d \in Doc |-> IF d \in gone THEN [doc[d] EXCEPT !.pii = Empty] ELSE doc[d]]
            /\ blanked' = blanked \cup gone
         \/ UNCHANGED <<doc, blanked>>
  /\ UNCHANGED <<server, dek, line, todo, call, orig, stops>>

boot == Start \/ Serve \/ \E d \in Doc : backfillDocumentPIIRow(d)

Next ==
  \/ boot \/ Stop \/ RepairDEK \/ Age
  \/ SweepDue \/ sweepBank \/ sweepDocs
  \/ \E d \in Doc : handleReceiptDelete(d)
  \/ \E d \in Doc, fields \in {{"filename"}, Field} : handleReceiptUpload(d, fields)
  \/ \E r \in Request, b \in Bill, d \in Doc : handleSupplierInvoiceCreate(r, b, d)
  \/ \E r \in Request : attachGiven(r) \/ attachNew(r)
  \/ \E r \in Request, d \in Doc : saveUploadedReceipt(r, d)
  \/ \E l \in Line : handleBankImport(l)
  \/ \E l \in Line, s \in {"unmatched", "booking", "ignored", "booked"} : Book(l, s)

Spec == Init /\ [][Next]_vars

\* The server is started again, its start goes on, and the sweep runs every hour
\* and succeeds some time.
FairSpec ==
  /\ Spec /\ WF_vars(boot)
  /\ SF_vars(SweepDue)
  /\ SF_vars(sweepBank /\ sweeping' = "docs") /\ SF_vars(sweepDocs /\ doc' # doc)

-----------------------------------------------------------------------------
DocRow ==
  [row : {"absent", "present", "deleted"}, pii : [Field -> {"none", "clear", "enc"}],
   bill : Bill \cup {NoBill}, old : BOOLEAN]

LineRow ==
  [status : {"absent", "unmatched", "booking", "ignored", "booked"}, text : BOOLEAN, old : BOOLEAN]

Call == {Idle} \cup [at : {"attach", "attachNew"}, bill : Bill, doc : Doc]
               \cup [at : {"upload"}, bill : Bill]

\* Every variable holds values of its kind, and the sweep runs only while the
\* server is up.
TypeOK ==
  /\ server \in {"down", "booting", "up"} /\ dek \in BOOLEAN
  /\ doc \in [Doc -> DocRow] /\ line \in [Line -> LineRow]
  /\ todo \subseteq Doc /\ (todo # {} => server = "booting")
  /\ sweeping \in {"idle", "bank", "docs"} /\ (sweeping # "idle" => server = "up")
  /\ call \in [Request -> Call]
  /\ orig \in [Doc -> SUBSET Field] /\ blanked \subseteq Doc /\ stops \in 0..MaxStops

\* While the server serves and the DEK is usable no name or note is in clear,
\* however often an earlier start stopped in the middle of its backfill.
NoCleartextServed ==
  server = "up" /\ dek => \A d \in Doc, f \in Field : doc[d].pii[f] # "clear"

\* A document that was neither deleted nor anonymised still has every field it
\* came with, through any number of interrupted backfills, and with a usable DEK
\* the operator sees them all (the lists read only the encrypted columns).
NamesSurvive ==
  \A d \in Doc :
    doc[d].row = "present" /\ d \notin blanked =>
      /\ filled(d) = orig[d]
      /\ server = "up" /\ dek => shown(d) = orig[d]

\* An attached receipt is räkenskapsinformation: no step deletes it, blanks a
\* field of it or takes it off its bill (a deletion or a sweep racing the attach).
AttachedStays ==
  [][\A d \in Doc : doc[d].bill # NoBill =>
       /\ doc'[d].row = "present" /\ doc'[d].bill # NoBill
       /\ \A f \in filled(d) : doc'[d].pii[f] # "none"]_vars

\* A line being booked, or booked, keeps its text (the sweep racing a booking).
BookedKeepsText ==
  [][\A l \in Line : line[l].status \in {"booking", "booked"} => line'[l].text = line[l].text]_vars

\* What the sweep blanked does not come back: not by importing the statement
\* again, and not by a backfill.
BlankStaysBlank ==
  [][/\ \A l \in Line : line[l].status # "absent" /\ ~line[l].text => ~line'[l].text
     /\ \A d \in blanked : doc'[d].pii = Empty]_vars

\* The data of an old document nobody attached is forgotten in the end, also in
\* clear and also when the DEK is unusable (AnonymizeOrphanDocuments).
OrphansForgotten ==
  \A d \in Doc :
    (doc[d].row = "present" /\ doc[d].old) ~> (doc[d].bill # NoBill \/ filled(d) = {})

\* The backfill keeps its two promises through any number of stops: nothing is
\* served in clear, and nothing it encrypts is lost.
BackfillKeeps == TypeOK /\ NoCleartextServed /\ NamesSurvive

\* Retained accounting data, receipts and bank lines alike, is never anonymised,
\* although the sweep and the handlers that attach and book run at once.
RetainedStays == AttachedStays /\ BookedKeepsText
-----------------------------------------------------------------------------
(* The inductive invariant behind them.                                    *)

\* A row that is not there holds nothing and is not attached, no row is encrypted in part, and a row
\* the backfill of this start still has to rewrite is not encrypted.
RowsWhole ==
  /\ \A d \in Doc : doc[d].row # "present" => doc[d].pii = Empty /\ doc[d].bill = NoBill
  /\ \A d \in Doc, f, g \in Field : doc[d].pii[f] = "clear" => doc[d].pii[g] # "enc"
  /\ \A d \in todo : doc[d].row = "present" /\ \A f \in Field : doc[d].pii[f] # "enc"

\* With a usable DEK, what is in clear while a start goes on is still to do.
ClearIsTodo ==
  server = "booting" /\ dek => \A d \in Doc, f \in Field : doc[d].pii[f] = "clear" => d \in todo

\* A blanked document is empty and its id is not given again.
BlankedGone == \A d \in blanked : doc[d].pii = Empty /\ doc[d].row # "absent"

RetentionInv ==
  /\ BackfillKeeps /\ RowsWhole /\ ClearIsTodo /\ BlankedGone
=============================================================================
