------------------------------ MODULE Privacy ------------------------------
(***************************************************************************)
(* Identities of customers and suppliers, and the assistant (packages      *)
(* shield and mcp, store_counterparty.go, store_mcp.go).                   *)
(*                                                                         *)
(* A counterparty is edited and erased (GDPR art. 17) by web requests made *)
(* of several statements.  MCP calls read identities of open invoices one  *)
(* by one, exchange each for a marker whose token goes into a vault, and   *)
(* only then reply.  An erasure purges the vault; the hourly sweep removes *)
(* tokens older than a day.  The assistant may also post vouchers and      *)
(* record payments, under a ceiling compared in wrapping arithmetic        *)
(* (modules Ledger and Accounting).                                        *)
(***************************************************************************)
EXTENDS Accounting

CONSTANTS Customer,     \* counterparties that are invoiced,
          Supplier,     \* and that send invoices
          Id,           \* the identities they can have
          Session,      \* MCP sessions
          Request,      \* requests in flight, of the web and of MCP
          NoId, Tomb,   \* no row; what an erased identity decrypts to
          AiLines,      \* the lines of the vouchers the assistant sends
          AiPayments,   \* the payments it records, and the invoices they are for
          maxWriteOre   \* the ceiling, 0 for none

ASSUME PrivacyAssumption ==
  /\ NoId \notin Id /\ Tomb \notin Id \cup {NoId}
  /\ maxWriteOre \in Nat
  /\ AiLines \subseteq Seq(Line)
  /\ AiPayments \subseteq [currency : STRING, gross : Amount, paid : Amount, received : Amount]

Party == Customer \cup Supplier

VARIABLES
  id,       \* id[p]: what the identity columns of p decrypt to
  erased,   \* parties with erased_at
  invoice,  \* invoice[p]: a customer invoice to p: "none", "draft" or "final"
  bill,     \* bill[p]: a supplier invoice from p
  retained, \* history: parties on a document that was booked while they had an identity
  vault,    \* vault[s, i]: the token of i in session s: "none", "new" or "old"
  call,     \* call[r]: what request r is doing
  leaked,   \* history: the fields that left in replies without a marker
  aiOver    \* history: the assistant booked a voucher over its limit

vars == <<id, erased, invoice, bill, retained, vault, call, leaked, aiOver>>

records == <<id, erased, invoice, bill, retained>>

Idle == [at |-> "idle"]

Init ==
  /\ id = [p \in Party |-> NoId] /\ erased = {}
  /\ invoice = [p \in Party |-> "none"] /\ bill = [p \in Party |-> "none"] /\ retained = {}
  /\ vault = [k \in Session \X (Id \cup {Tomb}) |-> "none"]
  /\ call = [r \in Request |-> Idle]
  /\ leaked = {} /\ aiOver = FALSE

goto(r, c) == call' = [call EXCEPT ![r] = c]

\* A statement fails, the request is answered with an error or its process stops.
\* To the assistant scrubError sends a fixed wording, without any data.
Fails(r) ==
  /\ call[r] # Idle /\ goto(r, Idle)
  /\ UNCHANGED <<records, vault, leaked, aiOver>>

-----------------------------------------------------------------------------
(* Counterparties and what is booked on them *)

\* The row of a new counterparty.
CreateCounterparty(p, i) ==
  /\ id[p] = NoId /\ id' = [id EXCEPT ![p] = i]
  /\ UNCHANGED <<erased, invoice, bill, retained, vault, call, leaked, aiOver>>

\* POST /counterparties; a form without a name adds nothing.
handleAddCounterparty(p, name) == name # NoId /\ CreateCounterparty(p, name)

\* UpdateCounterparty reads the row and refuses an erased one.
UpdateCounterparty(r, p, i) ==
  /\ call[r] = Idle /\ id[p] # NoId /\ p \notin erased
  /\ goto(r, [at |-> "update", party |-> p, id |-> i])
  /\ UNCHANGED <<records, vault, leaked, aiOver>>

\* POST /counterparties/{id}; a form without a name is sent back.
handleCounterpartyUpdate(r, p, name) == name # NoId /\ UpdateCounterparty(r, p, name)

\* Fault: the UPDATE has no erased_at IS NULL.
writeAlways(r) ==
  /\ call[r].at = "update"
  /\ id' = [id EXCEPT ![call[r].party] = call[r].id]
  /\ goto(r, Idle)
  /\ UNCHANGED <<erased, invoice, bill, retained, vault, leaked, aiOver>>

\* Its UPDATE ... WHERE erased_at IS NULL.
writeCounterparty(r) ==
  /\ call[r].at = "update"
  /\ id' = IF call[r].party \in erased THEN id ELSE [id EXCEPT ![call[r].party] = call[r].id]
  /\ goto(r, Idle)
  /\ UNCHANGED <<erased, invoice, bill, retained, vault, leaked, aiOver>>

\* EraseCounterparty reads the row; an erased one is done.
EraseCounterparty(r, p) ==
  /\ call[r] = Idle /\ id[p] # NoId /\ p \notin erased
  /\ goto(r, [at |-> "count", party |-> p])
  /\ UNCHANGED <<records, vault, leaked, aiOver>>

\* CountRetainedInvoices: customer invoices that are not drafts.
CountRetainedInvoices(r) ==
  /\ call[r].at = "count" /\ invoice[call[r].party] # "final"
  /\ goto(r, [call[r] EXCEPT !.at = "erase"])
  /\ UNCHANGED <<records, vault, leaked, aiOver>>

\* UPDATE ... WHERE erased_at IS NULL: the tombstone.
eraseRow(r) ==
  /\ call[r].at = "erase"
  /\ id' = [id EXCEPT ![call[r].party] = Tomb] /\ erased' = erased \cup {call[r].party}
  /\ goto(r, [call[r] EXCEPT !.at = "purge"])
  /\ UNCHANGED <<invoice, bill, retained, vault, leaked, aiOver>>

\* DeleteAllShieldTokens.
purge(r) ==
  /\ call[r].at = "purge"
  /\ vault' = [k \in DOMAIN vault |-> "none"]
  /\ goto(r, Idle)
  /\ UNCHANGED <<records, leaked, aiOver>>

\* Drafts are created for any counterparty of the company, and finalized
\* (modules Invoices and Books have the rest).
Document(p, docs) == CASE docs[p] = "none" -> "draft" [] docs[p] = "draft" -> "final"

InvoiceStep(p) ==
  /\ p \in Customer /\ id[p] # NoId /\ invoice[p] # "final"
  /\ invoice' = [invoice EXCEPT ![p] = Document(p, invoice)]
  /\ retained' = IF invoice[p] = "draft" /\ p \notin erased THEN retained \cup {p} ELSE retained
  /\ UNCHANGED <<id, erased, bill, vault, call, leaked, aiOver>>

BillStep(p) ==
  /\ p \in Supplier /\ id[p] # NoId /\ bill[p] # "final"
  /\ bill' = [bill EXCEPT ![p] = Document(p, bill)]
  /\ retained' = IF bill[p] = "draft" /\ p \notin erased THEN retained \cup {p} ELSE retained
  /\ UNCHANGED <<id, erased, invoice, vault, call, leaked, aiOver>>

-----------------------------------------------------------------------------
(* MCP calls *)

\* The identities in the results of the tools that list customers.
runUnpaid == {"customer", "orgnr"}
runMatchPayment == {"customer"}

\* Reports hold account codes and amounts; the SIE export only its shape; the audit
\* log leaves out the detail, which may name somebody.
runOverview == {}
runReport == {}
runExportSIE == {}
runAudit == {}

\* register: the read tools.
IdentityFields ==
  [pare_unpaid_invoices |-> runUnpaid, pare_match_payment |-> runMatchPayment,
   pare_financial_overview |-> runOverview, pare_trial_balance |-> runReport,
   pare_moms_report |-> runReport, pare_export_sie |-> runExportSIE,
   pare_recent_activity |-> runAudit]

\* The result types: the fields with a shield tag.
Tagged == {"customer", "orgnr"}

\* The tool runs; one that reports on customers lists the open invoices first.
callTool(r, s, tool) ==
  /\ call[r] = Idle
  /\ goto(r, [at |-> "read", session |-> s, fields |-> IdentityFields[tool], items |-> {},
              todo |-> IF IdentityFields[tool] = {} THEN {}
                       ELSE {p \in Party : invoice[p] = "final"}])
  /\ UNCHANGED <<records, vault, leaked, aiOver>>

\* UnpaidInvoices (and ListInvoiceSummaries) reads the customer of one invoice.
UnpaidInvoices(r, p) ==
  /\ call[r].at = "read" /\ p \in call[r].todo
  /\ goto(r, [call[r] EXCEPT !.todo = @ \ {p},
                !.items = @ \cup {[field |-> f, id |-> id[p], marked |-> FALSE] : f \in call[r].fields}])
  /\ UNCHANGED <<records, vault, leaked, aiOver>>

marked(x) == [x EXCEPT !.marked = TRUE]

\* The fields without a marker, and those among them that ShieldStruct will reach.
plain(r) == {x \in call[r].items : ~x.marked}
exposed(r) == {x \in plain(r) : x.field \in Tagged}

\* Put: ON CONFLICT DO NOTHING, so a token keeps the age of its first use.
Put(s, i) == vault' = [vault EXCEPT ![<<s, i>>] = IF @ = "none" THEN "new" ELSE @]

\* Fault: a value the vault did not take is left as it is.
ShieldStructLax(r, x) ==
  /\ call[r].at = "read" /\ call[r].todo = {} /\ x \in exposed(r)
  /\ \/ /\ Put(call[r].session, x.id)
        /\ goto(r, [call[r] EXCEPT !.items = (@ \ {x}) \cup {marked(x)}])
        /\ UNCHANGED leaked
     \/ /\ leaked' = leaked \cup plain(r) /\ goto(r, Idle) /\ UNCHANGED vault
  /\ UNCHANGED <<records, aiOver>>

\* ShieldStruct reaches the field x: the token is stored, then the field is
\* replaced by its marker.  An error ends the call with "shield error" (Fails).
ShieldStruct(r, x) ==
  /\ call[r].at = "read" /\ call[r].todo = {} /\ x \in exposed(r)
  /\ Put(call[r].session, x.id)
  /\ goto(r, [call[r] EXCEPT !.items = (@ \ {x}) \cup {marked(x)}])
  /\ UNCHANGED <<records, leaked, aiOver>>

\* The result is encoded and sent once the walk is over.
Reply(r) ==
  /\ call[r].at = "read" /\ call[r].todo = {} /\ exposed(r) = {}
  /\ leaked' = leaked \cup plain(r) /\ goto(r, Idle)
  /\ UNCHANGED <<records, vault, aiOver>>

\* The sum of the debits without wrapping.
TrueTotal(lines) == SumFunction([i \in DOMAIN lines |-> lines[i].debit])

checkCeiling(ore) == maxWriteOre = 0 \/ ore <= maxWriteOre

\* The assistant books a voucher, which adds up to more than the limit or not.
books(lines, limit) ==
  /\ Validate(lines)
  /\ aiOver' = (aiOver \/ (maxWriteOre > 0 /\ TrueTotal(lines) > limit))
  /\ UNCHANGED <<records, vault, call, leaked>>

\* pare_post_verification: the ceiling on the wrapped sum of the debits, then
\* Validate in PostVerification; a dry run changes nothing.
runPostVerification(lines) ==
  /\ checkCeiling(DebitTotal(lines)[Len(lines)])
  /\ books(lines, maxWriteOre)

\* What the voucher of a payment may add up to: in SEK the ceiling and a rest that is
\* written off; in foreign currency the ceiling or the whole receivable.
paymentLimit(p) ==
  IF p.currency = "SEK" THEN maxWriteOre + oresRoundingThreshold - 1
  ELSE IF p.gross > maxWriteOre THEN p.gross ELSE maxWriteOre

\* pare_record_payment: the ceiling on the amount received, then RecordPayment.
runRecordPayment(p) ==
  LET s == Settlement(p.currency, p.gross, p.paid, p.received)
  IN  /\ checkCeiling(p.received) /\ p.received > 0 /\ s.take
      /\ books(s.lines, paymentLimit(p))

-----------------------------------------------------------------------------
\* A day passes: every token in the vault is older than shieldTokenTTL.
DayPasses ==
  /\ vault' = [k \in DOMAIN vault |-> IF vault[k] = "new" THEN "old" ELSE vault[k]]
  /\ UNCHANGED <<records, call, leaked, aiOver>>

\* Fault: created_at is compared the wrong way round.
sweepNew ==
  /\ vault' = [k \in DOMAIN vault |-> IF vault[k] = "new" THEN "none" ELSE vault[k]]
  /\ UNCHANGED <<records, call, leaked, aiOver>>

\* DeleteOldShieldTokens, second part of Sweep.
DeleteOldShieldTokens ==
  /\ vault' = [k \in DOMAIN vault |-> IF vault[k] = "old" THEN "none" ELSE vault[k]]
  /\ UNCHANGED <<records, call, leaked, aiOver>>

erasure(r) == CountRetainedInvoices(r) \/ eraseRow(r) \/ purge(r)

\* POST /mcp.  A caller without the API key, an unknown method and an unknown tool
\* are answered without an effect.
dispatch ==
  \/ \E r \in Request, s \in Session, tool \in DOMAIN IdentityFields : callTool(r, s, tool)
  \/ \E lines \in AiLines : runPostVerification(lines)
  \/ \E p \in AiPayments : runRecordPayment(p)

Item == [field : Tagged, id : Id \cup {Tomb}, marked : BOOLEAN]

Form == Id \cup {NoId}

Next ==
  \/ \E p \in Party, name \in Form : handleAddCounterparty(p, name)
  \/ \E r \in Request, p \in Party, name \in Form : handleCounterpartyUpdate(r, p, name)
  \/ \E r \in Request, p \in Party : EraseCounterparty(r, p) \/ UnpaidInvoices(r, p)
  \/ \E r \in Request : Fails(r) \/ writeCounterparty(r) \/ erasure(r) \/ Reply(r)
  \/ \E p \in Party : InvoiceStep(p) \/ BillStep(p)
  \/ \E r \in Request, x \in Item : ShieldStruct(r, x)
  \/ dispatch \/ DayPasses \/ DeleteOldShieldTokens

Spec == Init /\ [][Next]_vars

\* Requests end (the server has timeouts), days pass, and the hourly sweep
\* succeeds some time.
FairSpec ==
  /\ Spec
  /\ \A r \in Request : WF_vars(Fails(r))
  /\ WF_vars(DayPasses) /\ WF_vars(DeleteOldShieldTokens)

-----------------------------------------------------------------------------
\* What a request may be doing.
Call == {Idle}
          \cup [at : {"update"}, party : Party, id : Id]
          \cup [at : {"count", "erase", "purge"}, party : Party]
          \cup [at : {"read"}, session : Session, fields : SUBSET Tagged, items : SUBSET Item,
                todo : SUBSET Party]

\* Every variable holds values of its kind.
TypeOK ==
  /\ id \in [Party -> Id \cup {NoId, Tomb}] /\ erased \subseteq Party /\ retained \subseteq Party
  /\ invoice \in [Party -> {"none", "draft", "final"}] /\ bill \in [Party -> {"none", "draft", "final"}]
  /\ vault \in [Session \X (Id \cup {Tomb}) -> {"none", "new", "old"}]
  /\ call \in [Request -> Call]
  /\ leaked \subseteq Item /\ aiOver \in BOOLEAN

\* Only markers reach the assistant: whatever fails between reading an identity
\* and replying, no value leaves unshielded (callTool, ShieldStruct).
OnlyMarkersLeave == leaked = {}

\* An erasure is final: an edit that read the row before it does not bring an
\* identity back (UpdateCounterparty racing EraseCounterparty).
ErasedStaysErased == \A p \in Party : p \in erased <=> id[p] = Tomb

\* No voucher the assistant posts adds up to more than the ceiling, although the
\* ceiling is compared with a sum that may have wrapped (runPostVerification).  A
\* payment is let through on the amount received (runRecordPayment), so its voucher
\* may add up to more: in SEK by less than a krona, in foreign currency to what the
\* invoice was booked at, however little was received, but to no more than that.
AiUnderCeiling == ~aiOver

\* No identity that nobody bears any more stays resolvable: a token an MCP call
\* stored after the purge, or one an interrupted erasure left, is swept.
StaleTokensGo ==
  \A s \in Session, i \in Id :
    (vault[s, i] # "none" /\ \A p \in Party : id[p] # i) ~>
      (vault[s, i] = "none" \/ \E p \in Party : id[p] = i)

\* A counterparty on retained accounting records keeps its identity.
RetainedKeepsIdentity == retained \cap erased = {}

\* The registers keep their kinds and an erasure, once answered, is final.
ErasureHolds == TypeOK /\ ErasedStaysErased
-----------------------------------------------------------------------------
(* The inductive invariant behind OnlyMarkersLeave and ErasureHolds.       *)

\* A counterparty on an invoice, or that a request works on, has a row.
PartiesKnown ==
  /\ \A p \in Party : invoice[p] # "none" => id[p] # NoId
  /\ \A r \in Request :
       /\ call[r].at \in {"update", "count", "erase", "purge"} => id[call[r].party] # NoId
       /\ call[r].at = "read" => \A p \in call[r].todo : id[p] # NoId

PrivacyInv == TypeOK /\ PartiesKnown /\ ErasedStaysErased /\ OnlyMarkersLeave
=============================================================================
