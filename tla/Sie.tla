------------------------------- MODULE Sie -------------------------------
(***************************************************************************)
(* SIE 4 files: the export of one company's books (ExportSIE, sie.Write)   *)
(* and the import into another, empty one (sie.Parse, ImportSIE).          *)
(*                                                                         *)
(* The export is a row of separate reads while the books go on.  A file is *)
(* what the parser will see of it: the records, split into fields.  The    *)
(* import is one transaction under READ COMMITTED whose rows and account   *)
(* locks other imports wait for.  The books of the exporting company are   *)
(* in journal, those of the importing one in ledger.                       *)
(***************************************************************************)
EXTENDS Accounting

CONSTANTS Vouchers,    \* what the exporting company may post: [series, date, text, lines]
          MaxPosted,   \* bound: how many vouchers it posts
          Foreign,     \* files of other programs
          OwnPosts,    \* vouchers the importing company posts by hand: [series, date, lines]
          Chart,       \* the accounts both have from the start
          Import       \* import requests, each served once

\* A #VER line of a file has the fields that Parse takes by position (a missing one
\* is an empty word to it), and what is a date is a day.
FileOK(f) ==
  /\ f.year \in Nat /\ f.vers \in Seq(Range(f.vers))
  /\ \A i \in DOMAIN f.vers :
       /\ 1 \in DOMAIN f.vers[i].head /\ 3 \in DOMAIN f.vers[i].head
       /\ f.vers[i].head[3].kind = "date" => f.vers[i].head[3].val \in Nat

ASSUME SieAssumption ==
  /\ MaxPosted \in Nat
  /\ "hand" \notin Import  \* who posts a voucher: an import, or "hand"
  /\ \A v \in Vouchers :
       v.date \in Nat /\ v.lines \in Seq(Line) /\ v.series \in Seq(STRING) /\ "" \notin Range(v.series)
  /\ \A v \in OwnPosts : v.date \in Nat
  /\ \A f \in Foreign : FileOK(f)

VARIABLES
  journal,  \* the exporting company's vouchers, in the order of posting
  exp,      \* the export in progress
  file,     \* the file it wrote, a sequence of at most one
  ledger,   \* the importing company's committed vouchers, [series, number, date, lines, by]
  imp       \* imp[r]: what import r is doing

sieVars == <<journal, exp, file, ledger, imp>>

-----------------------------------------------------------------------------
(* Fields of a file.  A series is a sequence of words: it is not quoted.   *)

Field(kind, val) == [kind |-> kind, val |-> val]

verSeries(s) == IF s = << >> THEN <<Field("word", "")>> ELSE [i \in DOMAIN s |-> Field("word", s[i])]

\* Ore as kronor, a point and two digits.
amount(n) ==
  [neg |-> n < 0, kr |-> Abs(n) \div 100, frac |-> <<(Abs(n) % 100) \div 10, Abs(n) % 10>>]

\* The first two digits after the point, filled up with zeros.
parseAmount(t) ==
  LET d == t.frac \o <<0, 0>>
      n == Wrap(t.kr * 100 + 10 * d[1] + d[2])
  IN  IF t.neg THEN Wrap(-n) ELSE n

\* What does not parse as a date is the zero time.
parseYMD(f) == IF f.kind = "date" THEN f.val ELSE 0

-----------------------------------------------------------------------------
(* Export *)

YearOf(d) == d \div 10
YearStart(y) == 10 * y
YearEnd(y) == 10 * y + 9

NotStarted == [at |-> "idle"]

NextNumber(rows, s) == 1 + Max({0} \cup {v.number : v \in {w \in Range(rows) : w.series = s}})

\* Bound: the two companies are two installations that meet only in the file, so
\* the imports start when one file is written, or when there is none to write.
exporting == file = << >> /\ \A r \in Import : imp[r] = NotStarted

\* A voucher is posted while an export may be under way.
PostVoucher(v) ==
  /\ Len(journal) < MaxPosted /\ exporting
  /\ Validate(v.lines)
  /\ journal' = Append(journal, [series |-> v.series, number |-> NextNumber(journal, v.series),
                                date |-> v.date, text |-> v.text, lines |-> v.lines])
  /\ exp' = IF exp.at = "idle" THEN exp
            ELSE [exp EXCEPT !.torn = @ \/ v.date <= YearEnd(exp.year),
                             !.backdated = @ \/ v.date < YearStart(exp.year)]
  /\ UNCHANGED <<file, ledger, imp>>

\* ORDER BY vdate, series, number, with nothing said of how the names of two
\* series compare.
Ordered(vs) ==
  \A i, j \in DOMAIN vs : i < j =>
    \/ vs[i].date < vs[j].date
    \/ vs[i].date = vs[j].date /\ (vs[i].series = vs[j].series => vs[i].number < vs[j].number)

Permuted(vs, p) == [i \in DOMAIN vs |-> vs[p[i]]]

ListVerifications ==
  {vs \in {Permuted(journal, p) : p \in Bijection(DOMAIN journal, DOMAIN journal)} : Ordered(vs)}

\* ExportSIE lists the vouchers; the year is the one of the earliest.  Their
\* lines, read next, never change.  Bound: one file.
ExportSIE ==
  /\ exporting /\ exp.at = "idle" /\ journal # << >>
  /\ \E vers \in ListVerifications :
       exp' = [at |-> "opening", vers |-> vers, year |-> YearOf(vers[1].date),
               ib |-> << >>, ub |-> << >>, torn |-> FALSE, backdated |-> FALSE]
  /\ UNCHANGED <<journal, file, ledger, imp>>

IsBalance(a) == Classify(a) \in {1, 2}

\* The rows other than zero of a trial balance, of one kind of account.
Rows(tb, P(_)) == [a \in {x \in DOMAIN tb : P(x) /\ tb[x] # 0} |-> tb[a]]

\* TrialBalanceAsOf: on all vouchers up to a day.
BalancesAsOf(day) == BalancesOf(journal, {k \in DOMAIN journal : journal[k].date <= day})

\* What the caller makes of it: no rows when it fails, as it does when a sum does
\* not fit.
Read(tb) == {<< >>} \cup (IF SumsFit(tb) THEN {Rows(tb, IsBalance)} ELSE {})

\* Fault: the opening balance as of the first day of the year, not the day before.
openingDate(year) == YearStart(year)

dayBefore(year) == YearStart(year) - 1

\* The balances of the day before the year, for #IB.
readOpening ==
  /\ exp.at = "opening"
  /\ \E ib \in Read(BalancesAsOf(dayBefore(exp.year))) :
       exp' = [exp EXCEPT !.at = "closing", !.ib = ib]
  /\ UNCHANGED <<journal, file, ledger, imp>>

\* And those of its last day, for #UB (#RES follows the same way).
readClosing ==
  /\ exp.at = "closing"
  /\ \E ub \in Read(BalancesAsOf(YearEnd(exp.year))) :
       exp' = [exp EXCEPT !.at = "write", !.ub = ub]
  /\ UNCHANGED <<journal, file, ledger, imp>>

\* One #VER block.
verRecord(v) ==
  [head |-> verSeries(v.series) \o <<Field("number", v.number), Field("date", v.date)>>,
   trans |-> [i \in DOMAIN v.lines |->
                [account |-> v.lines[i].account,
                 amount |-> amount(Wrap(v.lines[i].debit - v.lines[i].credit))]]]

amounts(f) == [a \in DOMAIN f |-> amount(f[a])]

\* Write: every character must be in CP437, or there is no file.  The fields of,
\* torn and backdated are not in the file: they say what it was made of.
Write ==
  /\ exp.at = "write"
  /\ exp' = NotStarted
  /\ file' = IF \E v \in Range(exp.vers) : v.text = "outside CP437" THEN << >>
             ELSE <<[year |-> exp.year, konto |-> Chart, ib |-> amounts(exp.ib), ub |-> amounts(exp.ub),
                     vers |-> [i \in DOMAIN exp.vers |-> verRecord(exp.vers[i])],
                     of |-> exp.vers, torn |-> exp.torn, backdated |-> exp.backdated]>>
  /\ UNCHANGED <<journal, ledger, imp>>

-----------------------------------------------------------------------------
(* Import *)

\* A signed amount as a line; zero stays a debit of zero.
lineOf(a, n) == IF n >= 0 THEN Debit(a, n) ELSE Credit(a, Wrap(-n))

\* The opening balances as one voucher on the first day of the year.
opening(f) ==
  LET used == {a \in DOMAIN f.ib : parseAmount(f.ib[a]) # 0}
      as == SetToSortSeq(used, <)
  IN  IF used = {} THEN << >>
      ELSE <<[series |-> <<"IB">>, date |-> YearStart(f.year),
              lines |-> [i \in DOMAIN as |-> lineOf(as[i], parseAmount(f.ib[as[i]]))]]>>

\* Parse of a #VER block and what ImportSIE makes of it: the fields by position.
voucher(f, v) ==
  [series |-> IF v.head[1].val = "" THEN <<"A">> ELSE <<v.head[1].val>>,
   date |-> parseYMD(v.head[3]),
   lines |-> [i \in DOMAIN v.trans |-> lineOf(v.trans[i].account, parseAmount(v.trans[i].amount))]]

ImportVouchers(f) == opening(f) \o [i \in DOMAIN f.vers |-> voucher(f, f.vers[i])]

\* A row of verifications, with its lines and who posted it.
Row(v, n, by) == [series |-> v.series, number |-> n, date |-> v.date, lines |-> v.lines, by |-> by]

goto(r, c) == imp' = [imp EXCEPT ![r] = c]

InTx == {"seed", "number", "insert", "commit"}

\* Fault: an error leaves the transaction open.
rollbackForgotten(r) == imp' = imp

\* inTx rolls the transaction of r back.
rollback(r) == goto(r, [at |-> "failed", file |-> imp[r].file])

\* POST /sie/import: the file is parsed and the transaction begins.
handleSIEImport(r, f) ==
  /\ imp[r] = NotStarted /\ (journal = << >> \/ file # << >>)
  /\ goto(r, [at |-> "count", file |-> f, todo |-> ImportVouchers(f), rows |-> << >>, number |-> 0])
  /\ UNCHANGED <<journal, exp, file, ledger>>

\* ErrLedgerNotEmpty unless there is no voucher.
CountVerifications(r) ==
  /\ imp[r].at = "count"
  /\ IF ledger = << >> THEN goto(r, [imp[r] EXCEPT !.at = "seed"]) ELSE rollback(r)
  /\ UNCHANGED <<journal, exp, file, ledger>>

Open(q) == imp[q].at \in InTx \ {"seed"}

\* The imports that hold the row of an account r seeds, or the key r inserts.
Blockers(r) ==
  {q \in Import \ {r} : Open(q) /\
     \/ imp[r].at = "seed" /\ imp[r].file.konto \cap imp[q].file.konto # {}
     \/ imp[r].at = "insert" /\ \E v \in Range(imp[q].rows) :
          v.series = Head(imp[r].todo).series /\ v.number = imp[r].number}

\* UpsertAccount for the chart of the file: waits for the rows.
UpsertAccount(r) ==
  /\ imp[r].at = "seed" /\ Blockers(r) = {}
  /\ goto(r, [imp[r] EXCEPT !.at = "number"])
  /\ UNCHANGED <<journal, exp, file, ledger>>

\* postVerification up to the number: Validate, the chart, MAX(number) + 1 over the
\* committed rows and its own.
NextVerificationNumber(r) ==
  /\ imp[r].at = "number" /\ imp[r].todo # << >>
  /\ LET v == Head(imp[r].todo)
     IN  IF Validate(v.lines) /\ \A i \in DOMAIN v.lines : v.lines[i].account \in Chart \cup imp[r].file.konto
         THEN goto(r, [imp[r] EXCEPT !.at = "insert", !.number = NextNumber(ledger \o imp[r].rows, v.series)])
         ELSE rollback(r)
  /\ UNCHANGED <<journal, exp, file, ledger>>

Taken(s, n) == \E v \in Range(ledger) : v.series = s /\ v.number = n

\* The row r inserts.
rowOf(r) == Row(Head(imp[r].todo), imp[r].number, r)

inserted(r) ==
  [imp[r] EXCEPT !.at = "number", !.todo = Tail(@), !.rows = Append(@, rowOf(r))]

\* Fault: no UNIQUE (company_id, series, number).
InsertVerificationNoKey(r) ==
  /\ imp[r].at = "insert"
  /\ goto(r, inserted(r))
  /\ UNCHANGED <<journal, exp, file, ledger>>

\* INSERT INTO verifications: waits for an uncommitted row with its key, fails on
\* a committed one.
InsertVerification(r) ==
  /\ imp[r].at = "insert" /\ Blockers(r) = {}
  /\ IF Taken(Head(imp[r].todo).series, imp[r].number) THEN rollback(r) ELSE goto(r, inserted(r))
  /\ UNCHANGED <<journal, exp, file, ledger>>

\* logAudit, at the end; it waits for another import that has logged.
logAudit(r) ==
  /\ imp[r].at = "number" /\ imp[r].todo = << >>
  /\ \A q \in Import \ {r} : imp[q].at # "commit"
  /\ goto(r, [imp[r] EXCEPT !.at = "commit"])
  /\ UNCHANGED <<journal, exp, file, ledger>>

Commit(r) ==
  /\ imp[r].at = "commit"
  /\ ledger' = ledger \o imp[r].rows
  /\ goto(r, [at |-> "done", file |-> imp[r].file])
  /\ UNCHANGED <<journal, exp, file>>

Working(r) == imp[r].at \in InTx \cup {"count"}

\* A statement fails: the connection, or the hash read by logAudit is no longer the last.
Fails(r) ==
  /\ Working(r)
  /\ rollback(r)
  /\ UNCHANGED <<journal, exp, file, ledger>>

\* PostgreSQL ends one of two transactions that wait for each other.
DeadlockDetected(r) ==
  /\ \E q \in Blockers(r) : r \in Blockers(q)
  /\ rollback(r)
  /\ UNCHANGED <<journal, exp, file, ledger>>

\* The importing company posts a voucher by hand (module Posting has the
\* statements); it waits like InsertVerification.  Bound: each one once.
PostByHand(v) ==
  LET n == NextNumber(ledger, v.series)
  IN  /\ Validate(v.lines)
      /\ \A w \in Range(ledger) : w.by # "hand"
      /\ \A q \in Import : Open(q) =>
           ~\E w \in Range(imp[q].rows) : w.series = v.series /\ w.number = n
      /\ ledger' = Append(ledger, Row(v, n, "hand"))
      /\ UNCHANGED <<journal, exp, file, imp>>

-----------------------------------------------------------------------------
SieInit ==
  /\ journal = << >> /\ exp = NotStarted /\ file = << >>
  /\ ledger = << >> /\ imp = [r \in Import |-> NotStarted]

\* The statements of an import, in their order.
ImportSIE(r) ==
  \/ CountVerifications(r) \/ UpsertAccount(r) \/ NextVerificationNumber(r)
  \/ InsertVerification(r) \/ logAudit(r) \/ Commit(r)

SieNext ==
  \/ \E v \in Vouchers : PostVoucher(v)
  \/ ExportSIE \/ readOpening \/ readClosing \/ Write
  \/ \E r \in Import, f \in Foreign \cup Range(file) : handleSIEImport(r, f)
  \/ \E r \in Import : ImportSIE(r) \/ Fails(r) \/ DeadlockDetected(r)
  \/ \E v \in OwnPosts : PostByHand(v)

SieSpec == SieInit /\ [][SieNext]_sieVars

\* The database goes on with a statement that waits for nothing.
FairSpec == SieSpec /\ \A r \in Import : WF_sieVars(ImportSIE(r)) /\ WF_sieVars(DeadlockDetected(r))

-----------------------------------------------------------------------------
\* The vouchers of import r in the ledger.
By(r) == {k \in DOMAIN ledger : ledger[k].by = r}

Done(r) == imp[r].at = "done"

\* An import of the exported file, to which nothing was posted before its year
\* while it was read.
OwnImport(r) == Done(r) /\ imp[r].file \in Range(file) /\ ~imp[r].file.backdated

\* Books, files and rows have their shapes; a voucher in the ledger is balanced.
SieTypeOK ==
  /\ Len(journal) <= MaxPosted /\ Len(file) <= 1
  /\ exp.at \in {"idle", "opening", "closing", "write"}
  /\ \A r \in Import : imp[r].at \in InTx \cup {"idle", "count", "done", "failed"}
  /\ \A v \in Range(ledger) : v.date \in Nat /\ v.number \in Nat /\ Validate(v.lines)

\* Export and import together keep the balance of every account to the ore,
\* through the text of the amounts and the opening balances (ExportSIE, Write,
\* Parse, ImportSIE).
BalancesSurvive ==
  \A r \in Import : OwnImport(r) =>
    LET was == Balances(imp[r].file.of)
        is == BalancesOf(ledger, By(r))
    IN  \A a \in DOMAIN was \cup DOMAIN is : BalanceOf(is, a) = BalanceOf(was, a)

\* And the vouchers arrive side by side and in order, each with its lines, its
\* date and its series when that is one word.
VouchersSurvive ==
  \A r \in Import : OwnImport(r) =>
    LET was == imp[r].file.of
    IN  \E n \in 0 .. Len(ledger) :
          /\ By(r) = n + 1 .. n + Len(was)
          /\ \A i \in DOMAIN was :
               /\ ledger[n + i].lines = was[i].lines
               /\ Len(was[i].series) = 1 =>
                    ledger[n + i].series = was[i].series /\ ledger[n + i].date = was[i].date

\* The closing balances in a file are those of the vouchers in it, when no such
\* voucher was posted between the reads.
FileConsistent ==
  \A f \in Range(file) : ~f.torn /\ DOMAIN f.ub # {} =>
    LET tb == BalancesOf(f.of, {i \in DOMAIN f.of : f.of[i].date <= YearEnd(f.year)})
    IN  \A a \in DOMAIN tb : IsBalance(a) =>
          BalanceOf([x \in DOMAIN f.ub |-> parseAmount(f.ub[x])], a) = tb[a]

\* An import leaves all of its vouchers or none, whatever fails in the middle
\* (TestImportSIEUnbalancedAborts, for every interleaving).
AllOrNothing ==
  \A r \in Import :
    Cardinality(By(r)) = IF Done(r) THEN Len(ImportVouchers(imp[r].file)) ELSE 0

\* The ledger an import lands in numbers every series 1, 2, 3, ...
NumbersGapless ==
  \A s \in {ledger[k].series : k \in DOMAIN ledger} :
    LET K == {k \in DOMAIN ledger : ledger[k].series = s}
    IN  {ledger[k].number : k \in K} = 1 .. Cardinality(K)

\* Imports that wait for each other's accounts and numbers all come to an end.
ImportsEnd == \A r \in Import : imp[r].at = "count" ~> imp[r].at \in {"done", "failed"}

\* A file is imported at most once.
ImportedOnce ==
  \A r, q \in Import : Done(r) /\ Done(q) /\ imp[r].file = imp[q].file /\ By(r) # {} => r = q

\* A year exported and imported again is the same year: its balances, its
\* vouchers and the balances the file itself states.
RoundTrip == BalancesSurvive /\ VouchersSurvive /\ FileConsistent

\* The books imports land in are sound at every moment: balanced rows, whole
\* imports only, and series without gaps, whatever races and whatever fails.
LedgerSound == SieTypeOK /\ AllOrNothing /\ NumbersGapless
=============================================================================
