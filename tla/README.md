# Pare in TLA+

Pare is a self-hosted bookkeeping system (Go, PostgreSQL): a double-entry ledger
with invoices, payments, bank reconciliation, year-end close, an audit trail and an
MCP endpoint for AI clients. This directory holds its specification: what the store
does statement by statement, what the books promise, the small instances TLC checks,
and the proofs TLAPS checks for every instance.

Work from this directory:

    tlc -workers 2 -config posting_safety.cfg MCPosting    # a run
    tlapm PostingProofs.tla                                # the proofs of a module

## 1. The system

| Part | Code (`src/internal/`) | State | Operations | Talks to |
|---|---|---|---|---|
| Ledger write path | `store/store.go`, `store_audit.go`, `store_fiscalyear.go` | verifications, `companies.locked_through`, fiscal years, audit log | post, undo, close a year, lock, unlock, log | called by every part that posts |
| Customer invoices | `store/store_invoice.go`, `store_payment.go` | invoices, number sequence | create, delete, finalize, pay, credit | ledger write path |
| Bank reconciliation | `store/store_bank.go` | bank transactions | import, book to invoice, book to account, ignore | payments, ledger write path |
| Supplier invoices | `store/store_supplier.go` | supplier invoices | create, finalize, pay | ledger write path |
| Counterparties | `store/store_counterparty.go` | encrypted identities | create, update, erase (GDPR) | invoices, Shield vault |
| Documents and retention | `store/store_document.go`, `store_sweep.go`, `cmd/server/main.go` | encrypted receipts, texts of bank lines | upload, attach, delete, backfill of old rows at start-up, anonymising sweep | supplier invoices, bank lines |
| Shield and MCP | `shield/`, `mcp/`, `store/store_sweep.go` | token vault, MCP sessions | tokenize, sweep, purge; tool calls with a ceiling | store |
| Sessions and setup | `auth/`, `handler/server.go`, `handler/csrf.go` | users, sessions | set up, log in, log out, guard | store |
| SIE | `store/store_sie_import.go`, `sie/` | none of its own | export while the books go on, import into an empty company | ledger write path |
| Arithmetic | `ledger/`, `moms/`, `invoice/` | none | validate, reverse, VAT, rounding, reports | everywhere |
| Telemetry | `flarereport/` | log queue | enqueue, ship, flush | an HTTP sink |
| Web UI, parsers, rendering, e-mail, crypto, generated queries | `handler/web.go`, `bank/`, `render/`, `email/`, `crypto/`, `db/generated/` | none | forms, text formats, I/O | store |

Every HTTP or MCP request is a goroutine with its own pooled connection. There is no
lock in the process: what keeps requests apart is PostgreSQL under READ COMMITTED,
that is unique keys, row locks taken by UPDATE, and the row counts the code looks at.
The hard behaviours are therefore

- **decisions on what was read before the transaction** (a draft's status, the amount
  paid, the trial balance of a year, the period lock) and used after somebody else's commit;
- **numbers and hashes computed from the last committed row** (`MAX(number) + 1`, the
  last audit hash), where two requests read the same one;
- **operations that commit in several steps** (claim, pay and mark a bank line; draft,
  link and issue a credit note; a row and then its audit entry), and stop in between;
- **waiting**: an INSERT on a key that an open transaction holds, an UPDATE on its row;
- **a start that stops half way** (first-run setup, the encryption backfill) and is tried again;
- **background work beside the requests**: the hourly sweep of sessions, tokens, receipts
  and bank lines, and the goroutine that ships logs behind a bounded channel.

`PROJECT.json` lists these hazards, each at its line, with the properties that are there for it.

## 2. Modules

| Module | Models | Extends / instantiates |
|---|---|---|
| `Journal` | abstract: the books as atomic writes (book, lock, trail) | |
| `Posting` | the write path, one action per SQL statement | `J == INSTANCE Journal` |
| `MCPosting` | instances of `Posting` | `Posting` |
| `PostingProofs` | proofs about `Posting`, and that it implements `Journal` | `Posting`, `TLAPS` |
| `Invoices`, `MCInvoices` | invoices, payments and credit notes under races | |
| `InvoicesProofs` | proofs about `Invoices` | `Invoices`, `LedgerProofs` |
| `BankBooking`, `MCBankBooking` | the claim protocol of bank lines, with crashes | |
| `Ledger` | package `ledger`: amounts of a machine's width, lines, Validate, Reverse (no state) | |
| `LedgerProofs` | facts about finite sums, about `Wrap` and about Validate, for every width of an amount | `Ledger`, `FiniteSetTheorems`, `TLAPS` |
| `Accounting` | the rest of the arithmetic: VAT, rounding, settlements, reports (no state) | `Ledger` |
| `Books`, `MCBooks` | what documents put in the books over several years, to the ore | `Accounting` |
| `BooksProofs` | proofs about `Books`, `Sie` and the line builders of `Accounting` on which both rest | `Books`, `Sie`, `LedgerProofs`, `SequenceTheorems` |
| `Access`, `MCAccess` | setup, accounts, sessions, the filters before a write | |
| `AccessProofs` | proofs about `Access` | `Access`, `TLAPS` |
| `Retention`, `MCRetention` | receipts and bank lines as personal data: backfill, attach, delete, sweep | |
| `RetentionProofs` | proofs about `Retention` and `BankBooking`, and that the two fit | `Retention`, `BankBooking`, `FiniteSetTheorems`, `TLAPS` |
| `Privacy`, `MCPrivacy` | counterparties, erasure, the Shield vault, MCP calls, the AI ceiling | `Accounting` |
| `PrivacyProofs` | proofs about `Privacy` | `Privacy`, `LedgerProofs` |
| `Sie`, `MCSie` | SIE files: export, the text of a file, import | `Accounting` |
| `LogShipper`, `MCLogShipper` | log shipping: window, scrub, channel, batches | |
| `LogShipperProofs` | proofs about `LogShipper` | `LogShipper`, `FiniteSetTheorems`, `SequenceTheorems`, `TLAPS` |

### Posting

`stage[r]` is the last statement of request `r` that has returned; `num`, `prev`,
`aid` and `seen` are its Go locals (the number, the audit hash, the audit id and the
trial balance it has read); `vers`, `locked`, `closed`, `rows` and `audit` are the
committed tables; `nextId` is the sequence of `audit_log.id`, which is not
transactional. Uncommitted rows are not in the tables: they follow from the stage
(`HoldsNumber`, `HoldsYear`, `HoldsCompany`, `HoldsPrev`) and make others wait or,
once committed, fail. So `InsertVerification` is disabled while another open
transaction holds the same (series, number) and fails when it is committed, as the
unique index does. The actions of one voucher are

    Begin, CheckPeriod, ReadNumber, InsertVerification, ReadAuditHash, DrawAuditId,
    InsertAuditLog, Commit

a close begins with `ReadYear` (outside the transaction) and has `MarkYearClosed` and
`SetLockedThrough` in between; a lock is `Begin, SetLockedThrough` and the log; a
counterparty write is `WriteRow`, committed at once, and the log. `Rollback` may
happen at every stage. The HMAC of an audit entry is taken to be injective: a hash is
the sequence of the entries it covers. `Validate` and the chart check are a verdict
of the request (`Verdicts`).

`Trail`, the hash of the last audit entry, maps the tables to the `Journal`; every
commit is one of its steps and every other statement a stutter (`ImplementsJournal`).

### Invoices

A worker reads the invoice (`ReadDraft`, `ReadPayable`, `ReadCreditable`), decides,
and then runs its transaction (`FinalizeInvoice`, `RecordPayment`, `CreditInvoice`) as
one action on the row as it is by then. One action is right for the invoice row: the
transaction's UPDATE locks it and all its effects are committed together. What happens
between the statements inside (numbers, audit, rollbacks) is `Posting`'s subject; its
outcome is `Fail`. `CreditInvoice` is three commits: `CreateCreditNote`,
`SetInvoiceCredits`, `CreditInvoice`. A voucher keeps its effect on account 1510
(`ar`) and the money received (`sek`).

### BankBooking

`task[w]` is the next statement of a handler and the bank line it works on.
`PaymentPosted`, `PaymentFails` and `PaymentAckLost` are the three ways
`RecordPayment` can end; the last is a commit whose answer is lost. `HandlerStops` is a
cancelled request or a process that stops: the claim it made stays.

### Accounting and Books

`Posting`, `Invoices` and `BankBooking` know a voucher by what the races are about.
`Books` has its lines. `Ledger` and `Accounting` translate the packages `ledger`, `moms`
and `invoice` and the line builders of the store: every sum, product and negation of
int64s goes through `Wrap`, whose width is the constant `MaxAmount`; divisions round as
Go's do. Sums over lines, codes and vouchers are `SumFunction` of the library, wrapped
once where the code wraps at every addition (the same residue). The SQL sums of a trial
balance fail instead of wrapping (`SumsFit`), and its rows come in the order of the
accounts (`CloseLines` takes them by rank).

`book` is the sequence of committed vouchers, `locked` and `closed` the period lock
and the closed years (dates are known by their year), `sale` and `bill` the customer
and supplier invoices. A handler reads what it decides on in one step (`ReadYear`,
`ReadDraftInvoice`, `ReadCreditable`, `ReadPayable`, `ReadDraftBill`, `ReadOpenBill`),
keeps it in `task[w]`, and runs its transaction (`CloseFiscalYear`, `FinalizeInvoice`,
`CreditInvoice`, `RecordPayment`, `FinalizeSupplierInvoice`, `RecordSupplierPayment`) in
another, on the rows as they are by then, or fails. What a transaction does about a stale
reading is the code's: bills (`SetBill`), settling payments and closes look at the row
count and are rolled back; a finalization and a credit do not, and their voucher is posted
although the row does not change; an instalment is added whatever the status; the
trial balance of a close is not read again.

Three marks say so, and the properties that depend on the reading are stated with them:

- `applied`, of a voucher: the row of its document or year took it. `FALSE` for the second
  voucher of an invoice that two handlers finalized or credited, for that of a draft
  deleted meanwhile, and for whatever is typed by hand. The tie-outs and the VAT return
  are about the others (`OfSeries`).
- `astray`: the invoices on which a settling payment and another payment went past each
  other, so that 1510 was credited for both. `ReceivablesTie` is claimed until there is one.
- `missed`: the closed years of which a voucher came between the trial balance and the
  transaction: the bokslut leaves it out, and the closed and locked year keeps a result.
  The properties of the year end are about the other years.

A hand-written voucher may have any lines and any series (`ManualSeries`), those of the
documents and of the bokslut included, as in the web form, the MCP tool and a SIE file. The
query under a close leaves out the whole series `O`, so a voucher typed into it is left out
as well: the properties of the year end are about years without one (`OnlyBokslut`).
Undo never changes a document, so the tie-out properties speak of the document series
(`F`, `B`; `L`, `LB`) and not of `R`.

### Access

`company`, `chart`, `profile`, `role` and `rows` are the tables; `call[r]` is the next
statement of a request. Setup is a chain of commits (`InsertCompany`, `seedChart`,
`setupProfile`, `setupUser`, `InsertSession`), each of which may be the last (`Fails`).
`HasUsers` is read before, and an error of it counts as "no users" (`readFails`). A write
passes `csrfProtect`, `requireSession` and `blockViewerWrites` and is made later, as a
step of its own. `issued`, `ended` and `writes` are history variables. The invited
viewer and the settings form stand for every write of the group.

### Retention

`doc` holds, per document, whether the row exists, how each of its two personal fields
is stored (`none`, `clear`, `enc`), its bill and whether its retention window has
passed; `line` the same for bank lines. A start selects the rows to encrypt (`Start`),
rewrites them one by one (`backfillDocumentPIIRow`) and only then listens (`Serve`); it
may stop at every row. The sweep is two statements (`sweepBank`, `sweepDocs`), the
second skipped when the first fails. The states of a bank line come from `BankBooking`
(`LineSteps`). That the DEK cannot be unwrapped is the variable `dek`.

### Privacy

A counterparty's identity is a value; erasing replaces it by `Tomb`. `UpdateCounterparty`
and `EraseCounterparty` read the row, and write in a later step. An MCP call reads the
identities of the open invoices one by one (`UnpaidInvoices`), exchanges them for
markers one by one (`ShieldStruct`, which stores a token in `vault` first) and then
replies. The vault is keyed by session and identity because the token is an HMAC of
both. `aiOver` records that the assistant has booked a voucher above its limit, counted
without wrapping (`books`). The limit of a posted voucher is the ceiling. The lines of a
payment are those of `Accounting` (`Settlement`), and its limit is what the check leaves
possible (`paymentLimit`), because the ceiling is compared with the amount received: in SEK
the ceiling and 99 öre, since the voucher also clears a rest of less than a krona; in
foreign currency the ceiling or the whole receivable, whichever is more, since the voucher
clears that whatever was received.

### Sie

`journal` is the book of the company that exports, `ledger` that of the one that imports.
A file is what its reader sees: records split into fields, amounts as sign, kronor and
digits, dates that parse or do not. `ExportSIE` is a row of separate reads, so a voucher
may be posted between them: the marks `torn` and `backdated` say so, and the properties
that depend on the reads are stated for files without them. `ListVerifications` is every
permutation of the journal that the `ORDER BY` allows, since how PostgreSQL compares the
names of two series depends on its collation; a trial balance that cannot be read, or whose
sums do not fit, leaves its records out (`Read`). `ImportSIE` is one transaction of many statements;
its uncommitted account rows and numbers make other imports wait, and PostgreSQL's
deadlock detection (external) ends one of two that wait for each other.

### LogShipper

Loggers run `Handle` concurrently: `allow` counts in the window of the minute, `ship`
scrubs, `enqueue` never waits. `run` receives, ticks and posts; a post is one step that
ends with or without success, and is never tried again. `Exit` loses what is queued.

## 3. Runs

Passing runs:

- `posting_safety`: three requests out of eleven jobs (vouchers before and after the
  year end, refused vouchers, an undo, a close, two locks, an unlock, a note, a
  row write), symmetric in the requests. Three are needed for the longest conflict
  (two writers and the one whose commit makes one of them stale); jobs repeat, so
  three vouchers of one series compete for numbers too.
- `posting_live`: three requests under fairness, without symmetry. Deadlock is
  checked in both: `Quiet` is the only way to stop.
- `invoices_safety`: two handlers, three invoices, four vouchers. Amounts are scaled:
  total 4, tolerance 2, payments 1 (an instalment, or a settling one within the
  tolerance), 2, and 5 (an overpayment within the tolerance).
- `bank_safety`: three handlers, one credit and one debit line, four vouchers.

- `books`: two handlers, four vouchers, and one of two subjects (`MCSpec` keeps every step
  within `OneSubject`: TLC explores the behaviours of either, not their mixtures, which only
  the proofs cover). `Documents`: one customer invoice (in SEK, or foreign), one bill
  (domestic, or reverse charge), and beside them one hand-written or undone voucher. Four vouchers is the
  shortest that has an invoice, two instalments with a write-off and a credit; both
  handlers may hold a reading of the same document. Amounts are chosen to round
  (`MCBooks` says what each is for) and are 30 bits wide, so that sums of four of the
  largest stay within TLC's own integers; one of the hand-written vouchers balances only
  modulo the width. `YearEnds`: two years, a cost and an income that may be posted in series
  `F` and `O`; four vouchers make a close in each of two years after a voucher in
  each, or a close, its undo, an unlock and a second posting.

- `logship`: two loggers, a channel of one line, batches of two, two records per minute,
  four records, two minutes: every limit is met and passed. Records have each shape the
  scrub tells apart (`MCShape`).
- `access`: two requests, two addresses, two tokens, sessions of one tick in three. Two
  requests are what a race of setups takes, and the second address tells them apart.
- `retention`: two documents in every state an older version can have left them, one
  bill, one bank line, one request and one stop in the middle of anything.
- `privacy`: two customers, one of them a supplier too, one identity, one session, two
  requests. Beside them the assistant writes vouchers and payments (the ceiling is checked
  in each by itself, so a few are enough). Amounts are 11 bits wide and the ceiling is 300:
  debits wrap below it, and payments are over it, at it with a rest written off, and in
  foreign currency (`MCPrivacy`).
- `sie`: two vouchers out of four (two years, a series of two words, a text outside
  CP437), two imports of the exported file or of one of three foreign ones, and a voucher
  posted by hand. The two companies meet only in the file, so imports begin when the
  export has ended (`exporting`).

The runs on invoices, bank lines, books, SIE files and logs stop when the bound is used
up, so they do not check deadlock.

Two runs show where the code does not do what a comment says (the quotations are in
`PROJECT.json`, "findings"):

- `privacy_retention`: a supplier is erased although a bill of theirs is booked;
- `sie_double_import`: a file sent twice is imported twice.

The models have more behaviours of this kind, for which no run is kept; they are listed
as hazards where they bite.

- A voucher that has passed the period check is committed after a lock that covers it.
- A bokslut leaves out a voucher committed between its trial balance
  (`store_fiscalyear.go:88`) and its transaction (`:114`), and the closed year keeps a result.
- An invoice that another handler finalized or deleted meanwhile is finalized again: its
  series `F` voucher is posted, with the VAT and the receivable, and no invoice names it
  (`store_invoice.go:91`, row count not looked at in `:135`); a number is used up too. Two
  credits of one invoice are both booked in the same way (`:249`, `:314`).
- A settling payment and an instalment that decided on the same amount paid, or two
  instalments, take more than the total and leave 1510 negative (`store_payment.go:84`).
- A payment of one öre that the assistant records passes the ceiling, and its voucher
  clears a foreign invoice of any size (`tools.go:474`), although `mcp.go:71` has a cap on
  "a single AI write".
- A bank line is booked to an account while the payment of a claim is being posted, or
  stays in `booking` when the process stops.
- A balance sheet over an earlier year that is still open has that year's result in its
  result row.
- A counterparty row may lack its audit entry.

Where several properties are facets of one promise a run checks their conjunction
(`RegisterSound`, `SettledOwesNothing`, `VouchersSound`, `ReskontraTies`, `QueueSound`,
`ShippedSafely`, `SetupSound`, `SessionsEndOnTime`, `BackfillKeeps`, `RetainedStays`,
`ErasureHolds`, `RoundTrip`, `LedgerSound`); the parts have names of their own in the modules.

Every property of a passing run has a fault operator (`...NoKey`, `...OnPool`,
`...Unchecked`, ...) next to the definition it changes, under which TLC finds the
property violated.

**Fairness.** `Posting!FairSpec` is weak fairness of each request's own next
statement: a goroutine is scheduled and PostgreSQL runs a statement that need not
wait. Rollback is not forced. A statement that waits stays disabled until the holder
commits or rolls back.

- `LogShipper`: a goroutine inside `Handle` goes on. `LoggingNeverStalls` assumes nothing
  of `run` or of Flare; `AcceptedIsPosted` also assumes `RunGoesOn`: a post ends (the
  client has a timeout) and Go's `select` chooses a case that is ready again and again.
- `Access`: the hourly sweep is tried again for ever, a failed one included.
- `Retention`: a stopped server is started again and its start goes on; the sweep comes
  every hour and some time succeeds (strong fairness, because a stop disables it).
- `Privacy`: requests end (the server has timeouts), days pass, the sweep succeeds.
- `Sie`: a statement that waits for nothing is executed, and a deadlock is detected.

## 4. Proofs

`PostingProofs` proves, for every set of requests, series, dates and jobs (from
`PostingAssumption` only, which lets vouchers be posted by hand in every series, that of
the bokslut too), type correctness, `SeriesGapFree`, `AuditChainIntact`,
`PostedIffAudited`, `LockMatchesTrail`, `YearClosedOnce` and that `Posting` implements
`Journal`. None of the properties is inductive, because they only speak of committed
rows. `IInv` adds what the open transactions know:

- `RowsOwned`: a committed row is the one its request computed, so rows can be traced
  back to locals;
- `NumbersHeld`: a number that is held follows a committed one, is free, and is held
  once; with it a commit appends to its series;
- `YearsHeld`: the same for the fiscal year a close has marked;
- `IdsDrawn`, `HashesHeld`, `ChainTotal`: a hash that has been read is older than the
  id drawn after it, the `prev_hash` of an uncommitted entry is free, and every entry
  but the last has a successor. Together they give `HeldIsNext`: the entry a
  transaction holds was hashed on the entry that is last when it commits, which is
  why id order and chain order agree.

`LockMatchesTrail` needs the chain: two writers of `locked_through` are kept apart by
the row lock only until the commit, and the order of their entries is the order of
their commits because of `HeldIsNext`.

`InvoicesProofs` proves `RegisterSound`, `IssuedIsFinal` and `ForeignPaidOnce` for any
number of handlers and invoices, any total, threshold and set of payments. `InvoicesInv`
adds what makes a stale reading harmless. `TasksHeld`: an invoice a handler has read for
payment or credit is still issued, and one in foreign currency will be settled in full;
`PaymentsHeld`: a payment belongs to an issued invoice, and a foreign one has left
`finalized`, so the second settlement updates no row and is rolled back. Every step is
shown to keep the rows (`RowsKeep`: nothing disappears, changes its currency or leaves the
issued states) and to issue at most one row, with the next number (`NumbersGrow`).

The same module proves `PaidMatchesBook` and `SettledOwesNothing`. `SettlementInv` adds
what connects a stale decision to the row it is applied to: a handler that is about to
settle an invoice books at least what the invoice owes by now, because the amount paid
only grows (`PayHeld`); and as long as an invoice is not settled all that was received for
it was credited to 1510, so a voucher adds the same to `paid` and to the sum over the book.

`LedgerProofs` proves, from `MaxAmount > 0` only, the facts on which the posting choke
point rests. `OverflowShows`: a sum of two non-negative amounts is either exact or
negative, so Validate's test after every line misses no overflow. `ReversalValidates`: the
reversal of an accepted voucher is accepted (it has the same two sequences of amounts,
swapped). `ValidateIsExact`: a voucher of any length that Validate accepts balances in
exact arithmetic and its total is an amount. The last one is an induction over the lines.
The provers cannot use an induction rule, so the proof takes the least line after which
the running total is not the exact sum of the lines so far, and shows that the line before
it is not either (`LeastNat`, and `LeastSubset` for the subsets of a finite set, proved in
the module). Sums over a set are `SumFunctionOnSet` of the library; what the proofs need of
them (the empty sum, one more index, equal functions, sums that add up) is proved there
once, in the same way.

`BooksProofs` proves all the safety properties of `Books` for every width of an amount, any
documents, years, handlers, payments and any number of vouchers.

- `VouchersAreSound` (`VouchersSound`). Every builder of lines is shown to give lines
  (amounts within their columns, accounts that are numbers) whatever it is given, because
  each of its amounts went through `Wrap`; whatever is posted has passed Validate, and
  `ValidateIsExact` does the rest. `SoundInv` adds that an invoice says what was entered.
- `ReskontraAlwaysTies` (`ReskontraTies`). A voucher of a document changes the balance of
  an account by what its lines add to it, every other one leaves it alone (`Documented`,
  `Aside`), so each posting is compared with the change of the one row it belongs to.
  `SalesInv`: an invoice that was issued has a voucher that validates, hence one whose gross
  did not wrap. A settlement is exact whenever it is taken (`SettlementType`), because the
  amount paid it read and the one it adds fit in the column. While `astray` is empty the
  amount a settling payment has read is the amount paid by then, so it clears what is left.
  `BillsInv`: the lines a handler computed before its transaction still match the debt of
  the bill, because no step changes what a bill says; the row count then lets one of them post.
- `ClosedYearsAreZero` (`CloseZeroesYear`). The bokslut of a year adds to every result
  account the opposite of the balance it has read (`CloseLinesType`: the accounts are
  taken by rank, each once); unless the year is marked as `missed` that is the balance by
  then (`Late`). `CloseInv`: what is applied in series `O` belongs to a closed year,
  so a year that is being closed has no bokslut. Later vouchers are of other
  years for as long as the year is left alone.

- `ResultRowIsTheYears` (`ResultRowAfterCloses`). The result row is what the balance
  accounts have left over. Each voucher balances, so over all accounts the vouchers of a
  year add to nothing; exchanging the sum over accounts with the sum over vouchers, the
  balance accounts have what the result accounts have, negated (`SumSwap`, `ClassesInv`: no
  line is outside the classes 1 to 8). The years that are closed and left alone add nothing
  (`YearsZero`, the same fact for accounts without lines in the year), so what remains is the
  result of the year itself, in the machine's integers.
- `BooksAreTheDocuments`: on every account the vouchers of the series `F` and `L` add up to
  what the invoices and bills in force call for (`DocumentsBooked`), those aside whose
  document had moved on when they were posted (`applied`). It is inductive with
  `BillTasksInv`: the lines of a handler that is about to book a bill are those the bill calls
  for now.
- `MomsIsTheDocuments` (`MomsMatchesDocuments`): the return follows from it account by
  account. The boxes are sums of several accounts and wrap once they pass the largest
  amount, so the theorem states the property for every state where the return's own amounts
  fit (`ReturnFits`); the run checks it without that condition, on amounts that are far below.

The hypotheses are about constants of the instance, and are those under which
the properties are meant. `KnownCodes`: an
invoice bears the codes of `codeOrder`, which are the options of the form; `GrossSEK` counts
every code and `VerificationLines` only these, so with another code the two totals differ.
`CostIsNoDebt` and `CostIsNoVAT`: a bill is not booked as a cost on 2440 itself, nor on an
account of the return. `ChartClasses`: the accounts a user types begin with 1 to 8; one that
does not is in neither of the two reports. All of them hold in `MCBooks`.

The last part of the module is about `Sie`. The constants are assumed to be what the code
makes of its input (`SieAssumption`): vouchers of the exporting company have lines of
amounts and words that are not empty in their series; the lines of a file have the fields
that Parse reads by position. `SieInv` has three parts.

- `ImportsInv`: an import in the middle of its file has posted the first vouchers of it, in
  order and each validated, and has the rest to do; a finished one has them side by side in
  the ledger, where only finished imports and the hand have rows.
- `NumbersInv`: committed rows of a series have different numbers, each with its
  predecessor, and so has what a transaction sees, the committed rows and its own
  (`RowsNumbered`). The number an import is about to insert may have been taken since it was
  read; what stays true is that its predecessor is there and that its own rows do not have it
  (`Ready`). The unique key does the rest, which waits for an open holder and fails
  on a committed one.
- `ExportInv`: what an export has listed is a permutation of the first vouchers of the
  journal, those posted later are outside the year unless the marks say so, the opening
  balances are empty and the closing ones are the totals of what was listed.

`ImportedBooksAreSound` (`LedgerSound`) follows from the first two: a finite set of numbers
that has every predecessor down to 1 is `1 .. n` (`NoGap`), and a block of rows has as many
as its file has vouchers. `ExportedBooksReturn` (`RoundTrip`) needs all three. An amount is
read as it was written (`AmountSurvives`, for every amount, the smallest included), so a
validated line comes back from one signed amount (`LineSurvives`) and a voucher with it
(`VoucherSurvives`); a sum does not depend on the order of its terms (`SumReindexed`), which
gives the balances of the ledger from those of the journal, through the order of the file
and the place where the block landed.

`AccessProofs` proves `SetupSound`, `WritesByLiveOwner` and `LiveSessionsStay` for any
number of requests, addresses and tokens. `AccessInv` adds what a request in flight
knows: a setup past its INSERT is the founder's, and past the seeding it has a chart
(`SetupHeld`); a request about to write has an owner and had a good session
(`CallsHeld`); a token that was logged out has no row (`EndedGone`). The argument rests on
one index: `one_company` lets one setup past `InsertCompany`.

`RetentionProofs` proves `BackfillKeeps`, `RetainedStays` and `BlankStaysBlank` for any
documents, bills, lines, requests and any number of stops. `RetentionInv` adds that no row
is encrypted in part and that a row still to be rewritten is not encrypted (`RowsWhole`:
otherwise the rewrite would blank what had been encrypted), that with a usable DEK
whatever is in clear during a start is still to do (`ClearIsTodo`), and that a blanked row
stays empty (`BlankedGone`).

The second part of the module is about `BankBooking`: it proves `OneClaim`,
`KnownPaymentOnce`, `BookedHasVoucher` and `BookedIsFinal` for every set of handlers and
lines, from `BankInv`: a line with a payment its handler knows of is `booking` or
`booked`, and the only step left to a holder of it is the mark (`OpenIsUnpaid`).
`LinesMoveAsAssumed` ties the two modules together: every change of a line's status in the claim protocol is an import
or one of `LineSteps`, the steps `Retention` gives its bank lines. (The definitions of
`BankBooking` bear names of their own, `BankInit`, `BankNext`, so that one module can
extend both.)

`PrivacyProofs` proves `OnlyMarkersLeave` and `ErasureHolds` for any counterparties,
identities, sessions and requests. `PrivacyInv` adds `PartiesKnown`: a counterparty on an
invoice, or that a request works on, has a row, so what a tool reads is an identity or the
tombstone, every field it shows has a shield tag, and an edit that read the row before the
erasure meets `erased_at`. It also proves `AiUnderCeiling` for any vouchers, any
payments, any ceiling and every width: the handler compares the ceiling with a sum
of debits that may have wrapped, before Validate; but a voucher that is posted passed
Validate, its sums are exact (`ValidateIsExact`), and so the sum compared was the true one.
A payment in SEK debits what was received and at most the rest that is written off, which
the threshold bounds (`SekPaymentTotal`); one in foreign currency debits what was received
and the loss, the whole receivable together, or what was received alone when that is more
(`ForeignPaymentTotal`).

`LogShipperProofs` proves `QueueSound`, `PostedInOrder` and `ShippedSafely` for any number
of loggers, any shapes of records and any sizes. `ShipperInv` adds what is on its way:
the lines between admission and the channel are finitely many, differ from each other and
from the accepted ones (`IdsHeld`), are clean, and count for the window that admitted them
(`WindowHeld`). The last one carries the cap: a line may enter the channel after its
window has been reset, so the cap on accepted lines is only inductive together with the
lines still waiting.

Only model-checked:

- liveness (`EveryRequestAnswered`, `LoggingNeverStalls`, `AcceptedIsPosted`,
  `ExpiredSessionsGo`, `OrphansForgotten`, `StaleTokensGo`, `ImportsEnd`), which is beyond
  the prover;
- `MomsMatchesDocuments` in states where the return itself overflows, for which it is not
  claimed (see `ReturnFits`);
- the runs that end in a violation.

## 5. Not modelled, and the plan

Left out: the parsers of bank statements (`bank/`: pure text, no state), rendering,
e-mail, templates and form parsing of the web UI, configuration, cryptographic
primitives, and the queries that only read for a view. Names and free texts of a SIE file
are followed only as far as the code page. `UnshieldString` and `Resolve` have no caller.
The Sentry path of `flarereport.go` keeps no state. Several companies: the schema has rows
per company, an installation has one (`00008_company_singleton.sql`), and every query is
scoped to it. `Books` runs a transaction in one step; the statements inside it are in
`Posting`.

What remains: the suppliers' protocol of `Books` (a bill is booked and paid once) as a
module of its own that `Books` implements, so that it can be proved without the arithmetic.
Every invariant and action property of a passing run is proved. To make that possible the
rows of `Sie` are told apart by their places (`By`, `BalancesOf` with a set of indices)
where a filter or a sort would do for TLC: what those return for every input is an
induction over data.
