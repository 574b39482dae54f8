------------------------------ MODULE Posting ------------------------------
(***************************************************************************)
(* The write path of the store for one company, statement by statement,    *)
(* as PostgreSQL runs it under READ COMMITTED: every request is a          *)
(* goroutine with its own transaction, and each action below is one SQL    *)
(* statement of it.  Covered: PostVerification, UndoVerification (with the *)
(* other postings dated time.Now()), CloseFiscalYear, LockPeriod,          *)
(* UnlockPeriod, LogUserAction, and the writes that commit first and log   *)
(* afterwards (CreateCounterparty, UpdateCounterparty, EraseCounterparty). *)
(*                                                                         *)
(* A row a transaction wrote and has not committed is not in the tables    *)
(* here: it follows from the request's stage and its locals, and it blocks *)
(* the same key or row for everybody else until the commit or rollback.    *)
(***************************************************************************)
EXTENDS Integers, Sequences, FiniteSets

CONSTANTS Req,          \* the requests of a behaviour, each served once
          Series,       \* verification series
          closeSeries,  \* the series CloseFiscalYear posts in
          Dates,        \* posting dates, positive integers
          EndOf,        \* EndOf[d]: last day of the fiscal year holding d
          Jobs          \* what a request may ask for

Kinds == {"post", "undo", "close", "lock", "unlock", "note", "write"}

\* What postVerification makes of the lines: Validate accepts them or not, and
\* every account is in the chart or not.
Verdicts == {"ok", "invalid", "unknown"}

Job == [kind : Kinds, series : Series, date : Dates, lines : Verdicts]

ASSUME PostingAssumption ==
  /\ Dates \subseteq Nat \ {0}
  /\ EndOf \in [Dates -> Dates]
  /\ closeSeries \in Series
  /\ Jobs \subseteq Job
  /\ \A j \in Jobs : j.kind = "close" => j.series = closeSeries /\ EndOf[j.date] = j.date

VARIABLES
  job,      \* job[r]: what request r asks for
  stage,    \* stage[r]: the last statement of r that has returned
  num,      \* num[r]: the verification number r read
  prev,     \* prev[r]: the audit hash r read
  aid,      \* aid[r]: the audit id r drew from the sequence
  seen,     \* seen[r]: the vouchers in the trial balance a close of r rests on
  vers,     \* verifications (committed rows)
  locked,   \* companies.locked_through, 0 for NULL (committed)
  closed,   \* the ends_on of the fiscal years with closed_at set (committed)
  rows,     \* business rows written outside a transaction, by request
  audit,    \* audit_log (committed rows)
  nextId    \* audit_log_id_seq: the last id drawn

local == <<num, prev, aid, seen>>
tables == <<vers, locked, closed, rows, audit>>
vars == <<job, stage, local, tables, nextId>>

-----------------------------------------------------------------------------
(* The audit hash.  HMAC-SHA256 under a secret key is taken to be injective, *)
(* so a hash is modelled by the chain of entries it covers.                  *)

Entry(action, target) == [action |-> action, target |-> target]

Fields == [action : Kinds, target : Req \cup Dates \cup {0}]

Genesis == << >>

auditHash(p, fields) == Append(p, fields)

Hash == Seq(Fields)

\* The fields logAudit is called with.
FieldsOf(r) ==
  Entry(job[r].kind,
        IF job[r].kind \in {"post", "undo", "close", "write"} THEN r
        ELSE IF job[r].kind = "lock" THEN job[r].date ELSE 0)

Voucher == [req : Req, series : Series, number : Nat, date : Dates]

AuditRow == [id : Nat, prev : Hash, hash : Hash, fields : Fields, by : Req]

-----------------------------------------------------------------------------
(* Stages, and the uncommitted rows and locks that follow from them.       *)

Stages == {"idle", "open", "checked", "numbered", "posted", "marked",
           "written", "hashed", "drawn", "logged", "done", "failed"}

Logging == {"written", "hashed", "drawn", "logged"}

Posts(r) == job[r].kind \in {"post", "undo", "close"}

\* r's transaction has inserted its verification.
HoldsNumber(r) == Posts(r) /\ stage[r] \in {"posted", "marked"} \cup Logging

\* r's transaction has updated its fiscal year.
HoldsYear(r) == job[r].kind = "close" /\ stage[r] \in {"marked"} \cup Logging

\* r's transaction has updated the company row.
HoldsCompany(r) == job[r].kind \in {"lock", "unlock", "close"} /\ stage[r] \in Logging

\* r's transaction has inserted its audit row.
HoldsPrev(r) == stage[r] = "logged"

\* Fault: the voucher is dated with the lock instead of the posting date.
VoucherDatedByLock(r) ==
  [req |-> r, series |-> job[r].series, number |-> num[r], date |-> locked]

VoucherOf(r) ==
  [req |-> r, series |-> job[r].series, number |-> num[r], date |-> job[r].date]

AuditRowOf(r) ==
  [id |-> aid[r], prev |-> prev[r], hash |-> auditHash(prev[r], FieldsOf(r)),
   fields |-> FieldsOf(r), by |-> r]

\* SELECT COALESCE(MAX(number), 0) + 1 over the committed rows of the series.
NextVerificationNumber(s, n) ==
  /\ n \in {1} \cup {v.number + 1 : v \in {w \in vers : w.series = s}}
  /\ \A v \in vers : v.series = s => v.number < n

\* SELECT entry_hash ... ORDER BY id DESC LIMIT 1, '' when there is none.
GetLastAuditHash(h) ==
  \/ audit = {} /\ h = Genesis
  \/ \E a \in audit : (\A b \in audit : b.id <= a.id) /\ h = a.hash

-----------------------------------------------------------------------------
Init ==
  /\ job \in [Req -> Jobs]
  /\ stage = [r \in Req |-> "idle"]
  /\ num = [r \in Req |-> 0]
  /\ prev = [r \in Req |-> Genesis]
  /\ aid = [r \in Req |-> 0]
  /\ seen = [r \in Req |-> {}]
  /\ vers = {} /\ locked = 0 /\ closed = {} /\ rows = {} /\ audit = {}
  /\ nextId = 0

Goto(r, s) == stage' = [stage EXCEPT ![r] = s]

\* pool.Begin; a request without a transaction starts with its first statement.
Begin(r) ==
  /\ stage[r] = "idle"
  /\ job[r].kind # "close"
  /\ Goto(r, "open")
  /\ UNCHANGED <<job, local, tables, nextId>>

\* CloseFiscalYear reads the year and its trial balance before its transaction.
ReadYear(r) ==
  /\ stage[r] = "idle"
  /\ job[r].kind = "close"
  /\ LET year == {v \in vers : EndOf[v.date] = job[r].date /\ v.series # closeSeries}
     IN  IF job[r].date \in closed \/ year = {}      \* ErrYearClosed, ErrNothingToClose
         THEN Goto(r, "failed") /\ UNCHANGED seen
         ELSE /\ Goto(r, "open")
              /\ seen' = [seen EXCEPT ![r] = {v.req : v \in year}]
  /\ UNCHANGED <<job, num, prev, aid, tables, nextId>>

\* UndoVerification posts its reversal with time.Now(), not with a date.
StampedNow(r) == job[r].kind = "undo"

\* date.After(locked_through): the lock is midnight of its day, and time.Now()
\* is after the midnight of its own day.
PeriodOpen(r) == IF StampedNow(r) THEN job[r].date >= locked ELSE job[r].date > locked

\* postVerification up to the chart check: Validate, GetCompany, ListAccounts.
CheckPeriod(r) ==
  /\ stage[r] = "open"
  /\ Posts(r)
  /\ Goto(r, IF job[r].lines = "ok" /\ PeriodOpen(r) THEN "checked" ELSE "failed")
  /\ UNCHANGED <<job, local, tables, nextId>>

ReadNumber(r) ==
  /\ stage[r] = "checked"
  /\ \E n \in {1} \cup {v.number + 1 : v \in vers} :
       NextVerificationNumber(job[r].series, n) /\ num' = [num EXCEPT ![r] = n]
  /\ Goto(r, "numbered")
  /\ UNCHANGED <<job, prev, aid, seen, tables, nextId>>

\* Fault: no UNIQUE (company_id, series, number).
InsertVerificationNoKey(r) ==
  /\ stage[r] = "numbered"
  /\ Goto(r, IF job[r].kind = "close" THEN "posted" ELSE "written")
  /\ UNCHANGED <<job, local, tables, nextId>>

\* Fault: the insert runs on the pool instead of the open transaction.
InsertVerificationOnPool(r) ==
  /\ stage[r] = "numbered"
  /\ IF \E v \in vers : v.series = job[r].series /\ v.number = num[r]
     THEN Goto(r, "failed") /\ UNCHANGED vers
     ELSE /\ Goto(r, IF job[r].kind = "close" THEN "posted" ELSE "written")
          /\ vers' = vers \cup {VoucherOf(r)}
  /\ UNCHANGED <<job, local, locked, closed, rows, audit, nextId>>

\* INSERT INTO verifications and its lines: waits for an uncommitted row with
\* the same (series, number), fails on a committed one.
InsertVerification(r) ==
  /\ stage[r] = "numbered"
  /\ ~ \E q \in Req \ {r} : /\ HoldsNumber(q)
                            /\ job[q].series = job[r].series
                            /\ num[q] = num[r]
  /\ IF \E v \in vers : v.series = job[r].series /\ v.number = num[r]
     THEN Goto(r, "failed")
     ELSE Goto(r, IF job[r].kind = "close" THEN "posted" ELSE "written")
  /\ UNCHANGED <<job, local, tables, nextId>>

\* Fault: the row count of the UPDATE is not looked at.
MarkYearClosedUnchecked(r) ==
  /\ stage[r] = "posted"
  /\ ~ \E q \in Req \ {r} : HoldsYear(q) /\ job[q].date = job[r].date
  /\ Goto(r, "marked")
  /\ UNCHANGED <<job, local, tables, nextId>>

\* UPDATE fiscal_years ... WHERE closed_at IS NULL, and the row count checked.
MarkYearClosed(r) ==
  /\ stage[r] = "posted"
  /\ ~ \E q \in Req \ {r} : HoldsYear(q) /\ job[q].date = job[r].date
  /\ Goto(r, IF job[r].date \in closed THEN "failed" ELSE "marked")
  /\ UNCHANGED <<job, local, tables, nextId>>

\* Fault: the lock is set on the pool instead of the open transaction.
SetLockedThroughOnPool(r) ==
  /\ \/ stage[r] = "open" /\ job[r].kind \in {"lock", "unlock"}
     \/ stage[r] = "marked"
  /\ locked' = IF job[r].kind = "unlock" THEN 0 ELSE job[r].date
  /\ Goto(r, "written")
  /\ UNCHANGED <<job, local, vers, closed, rows, audit, nextId>>

\* UPDATE companies SET locked_through: waits for the row.
SetLockedThrough(r) ==
  /\ \/ stage[r] = "open" /\ job[r].kind \in {"lock", "unlock"}
     \/ stage[r] = "marked"
  /\ ~ \E q \in Req \ {r} : HoldsCompany(q)
  /\ Goto(r, "written")
  /\ UNCHANGED <<job, local, tables, nextId>>

\* LogUserAction has nothing to write before its entry.
StartNote(r) ==
  /\ stage[r] = "open" /\ job[r].kind = "note"
  /\ Goto(r, "written")
  /\ UNCHANGED <<job, local, tables, nextId>>

\* The insert or update of a counterparty, committed on its own.
WriteRow(r) ==
  /\ stage[r] = "open" /\ job[r].kind = "write"
  /\ rows' = rows \cup {r}
  /\ Goto(r, "written")
  /\ UNCHANGED <<job, local, vers, locked, closed, audit, nextId>>

ReadAuditHash(r) ==
  /\ stage[r] = "written"
  /\ \E h \in {Genesis} \cup {a.hash : a \in audit} :
       GetLastAuditHash(h) /\ prev' = [prev EXCEPT ![r] = h]
  /\ Goto(r, "hashed")
  /\ UNCHANGED <<job, num, aid, seen, tables, nextId>>

\* The INSERT draws its id before it can find out that it has to wait.
DrawAuditId(r) ==
  /\ stage[r] = "hashed"
  /\ nextId' = nextId + 1
  /\ aid' = [aid EXCEPT ![r] = nextId + 1]
  /\ Goto(r, "drawn")
  /\ UNCHANGED <<job, num, prev, seen, tables>>

\* Fault: no unique index on (company_id, prev_hash).
InsertAuditLogNoIndex(r) ==
  /\ stage[r] = "drawn"
  /\ Goto(r, "logged")
  /\ UNCHANGED <<job, local, tables, nextId>>

\* Fault: a conflicting insert is tried again and again with the same hash.
InsertAuditLogRetried(r) ==
  /\ stage[r] = "drawn"
  /\ ~ \E q \in Req \ {r} : HoldsPrev(q) /\ prev[q] = prev[r]
  /\ ~ \E a \in audit : a.prev = prev[r]
  /\ Goto(r, "logged")
  /\ UNCHANGED <<job, local, tables, nextId>>

\* The INSERT meets idx_audit_prev_hash: it waits for an uncommitted row with
\* the same prev_hash and fails on a committed one.
InsertAuditLog(r) ==
  /\ stage[r] = "drawn"
  /\ ~ \E q \in Req \ {r} : HoldsPrev(q) /\ prev[q] = prev[r]
  /\ Goto(r, IF \E a \in audit : a.prev = prev[r] THEN "failed" ELSE "logged")
  /\ UNCHANGED <<job, local, tables, nextId>>

\* Fault: a close does not lock the year it closes.
CommitCloseUnlocked(r) ==
  /\ stage[r] = "logged"
  /\ vers' = IF Posts(r) THEN vers \cup {VoucherOf(r)} ELSE vers
  /\ closed' = IF job[r].kind = "close" THEN closed \cup {job[r].date} ELSE closed
  /\ locked' = IF job[r].kind = "lock" THEN job[r].date
               ELSE IF job[r].kind = "unlock" THEN 0 ELSE locked
  /\ audit' = audit \cup {AuditRowOf(r)}
  /\ Goto(r, "done")
  /\ UNCHANGED <<job, local, rows, nextId>>

\* tx.Commit: everything the transaction wrote becomes visible at once.
Commit(r) ==
  /\ stage[r] = "logged"
  /\ vers' = IF Posts(r) THEN vers \cup {VoucherOf(r)} ELSE vers
  /\ closed' = IF job[r].kind = "close" THEN closed \cup {job[r].date} ELSE closed
  /\ locked' = IF job[r].kind \in {"lock", "close"} THEN job[r].date
               ELSE IF job[r].kind = "unlock" THEN 0 ELSE locked
  /\ audit' = audit \cup {AuditRowOf(r)}
  /\ Goto(r, "done")
  /\ UNCHANGED <<job, local, rows, nextId>>

\* A statement fails (cancelled request, lost connection): defer tx.Rollback.
Rollback(r) ==
  /\ stage[r] \notin {"idle", "done", "failed"}
  /\ Goto(r, "failed")
  /\ UNCHANGED <<job, local, tables, nextId>>

Step(r) ==
  \/ Begin(r) \/ ReadYear(r) \/ CheckPeriod(r) \/ ReadNumber(r)
  \/ InsertVerification(r) \/ MarkYearClosed(r) \/ SetLockedThrough(r)
  \/ StartNote(r) \/ WriteRow(r)
  \/ ReadAuditHash(r) \/ DrawAuditId(r) \/ InsertAuditLog(r) \/ Commit(r)

Finished(r) == stage[r] \in {"done", "failed"}

\* Every request has been answered.
Quiet == (\A r \in Req : Finished(r)) /\ UNCHANGED vars

Next == (\E r \in Req : Step(r) \/ Rollback(r)) \/ Quiet

Spec == Init /\ [][Next]_vars

\* A goroutine runs on and the database answers every statement that need not wait.
FairSpec == Spec /\ \A r \in Req : WF_vars(Step(r))

-----------------------------------------------------------------------------
TypeOK ==
  /\ job \in [Req -> Jobs]
  /\ stage \in [Req -> Stages]
  /\ num \in [Req -> Nat]
  /\ prev \in [Req -> Hash]
  /\ aid \in [Req -> Nat]
  /\ seen \in [Req -> SUBSET Req]
  /\ vers \subseteq Voucher
  /\ locked \in Dates \cup {0}
  /\ closed \subseteq Dates
  /\ rows \subseteq Req
  /\ audit \subseteq AuditRow
  /\ nextId \in Nat

\* The numbers of every series are 1, 2, 3, ... without a gap and without a
\* duplicate, whatever the interleaving of MAX(number) + 1 reads, inserts and
\* rollbacks (NextVerificationNumber, UNIQUE (company_id, series, number)).
SeriesGapFree ==
  /\ \A v, w \in vers : v.series = w.series /\ v.number = w.number => v = w
  /\ \A v \in vers : \A n \in 1 .. v.number :
       \E w \in vers : w.series = v.series /\ w.number = n

\* VerifyAuditChain, which walks the committed entries in id order, finds every
\* entry linked to the one before it, the first one to '', and every hash right.
AuditChainIntact ==
  \A a \in audit :
    /\ a.hash = auditHash(a.prev, a.fields)
    /\ \/ a.prev = Genesis /\ \A b \in audit : a.id <= b.id
       \/ \E b \in audit : /\ b.id < a.id /\ b.hash = a.prev
                           /\ \A c \in audit : c.id <= b.id \/ c.id >= a.id
    /\ \A b \in audit : b.id = a.id => b = a

\* A verification is in the books exactly when its entry is in the audit trail:
\* the two are committed together (PostVerification's one transaction).
PostedIffAudited ==
  \A r \in Req : Posts(r) =>
    ((\E v \in vers : v.req = r) <=> (\E a \in audit : a.by = r))

\* The period lock in force is the one the last lock, unlock or close entry of
\* the audit trail announced, although lock changes and entries race.
LockMatchesTrail ==
  LET lockKinds == {"lock", "unlock", "close"}
      moved == {a \in audit : a.fields.action \in lockKinds}
  IN  IF moved = {} THEN locked = 0
      ELSE \E a \in moved : /\ \A b \in moved : b.id <= a.id
                            /\ locked = IF a.fields.action = "unlock" THEN 0
                                        ELSE job[a.by].date

\* The vouchers CloseFiscalYear posted; a hand-written voucher or an import may
\* bear its series too.
Bokslut == {v \in vers : job[v.req].kind = "close"}

\* A fiscal year has at most one bokslut, and it has one exactly when it is
\* marked closed: two concurrent CloseFiscalYear calls never both post, whatever
\* is posted by hand in the series of the bokslut.
YearClosedOnce ==
  /\ \A v, w \in Bokslut : v.date = w.date => v = w
  /\ \A d \in Dates : d \in closed <=> \E v \in Bokslut : v.date = d

\* Every request is answered: the lock order (verification number, fiscal year,
\* company row, audit hash) leaves no cycle of transactions waiting on each other.
EveryRequestAnswered == \A r \in Req : <>Finished(r)

-----------------------------------------------------------------------------
(* The committed tables implement the Journal: the number sequences, the    *)
(* lock and the chain move in one step, at the commit.                      *)

Trail == IF audit = {} THEN Genesis
         ELSE (CHOOSE a \in audit : \A b \in audit : b.id <= a.id).hash

J == INSTANCE Journal WITH book <- vers, trail <- Trail

\* Every committed write is one atomic step of the Journal, and nothing else is.
ImplementsJournal == J!Spec

-----------------------------------------------------------------------------
(* The inductive invariant: what the open transactions know of the tables. *)

\* A committed row is the one its request wrote, and a request that is done has
\* committed all its rows.
RowsOwned ==
  /\ \A v \in vers : Posts(v.req) /\ stage[v.req] = "done" /\ v = VoucherOf(v.req)
  /\ \A a \in audit : stage[a.by] = "done" /\ a = AuditRowOf(a.by)
  /\ \A r \in Req : stage[r] = "done" =>
       AuditRowOf(r) \in audit /\ (Posts(r) => VoucherOf(r) \in vers)

\* A number that has been read follows a committed one; one that has been
\* inserted is still free, and held by one transaction.
NumbersHeld ==
  /\ \A r \in Req : stage[r] \in {"checked", "numbered", "posted", "marked"} => Posts(r)
  /\ \A r \in Req : (stage[r] = "numbered" \/ HoldsNumber(r)) =>
       /\ num[r] >= 1
       /\ \/ num[r] = 1
          \/ \E v \in vers : v.series = job[r].series /\ v.number = num[r] - 1
  /\ \A r \in Req : HoldsNumber(r) =>
       \A v \in vers : v.series = job[r].series => v.number # num[r]
  /\ \A q, r \in Req :
       HoldsNumber(q) /\ HoldsNumber(r) /\ job[q].series = job[r].series /\ num[q] = num[r]
         => q = r
  /\ \A v \in vers : v.number >= 1

\* A year that a transaction has marked is still open to everybody else.
YearsHeld ==
  /\ \A r \in Req : stage[r] \in {"posted", "marked"} => job[r].kind = "close"
  /\ \A r \in Req : HoldsYear(r) => job[r].date \notin closed
  /\ \A q, r \in Req : HoldsYear(q) /\ HoldsYear(r) /\ job[q].date = job[r].date => q = r

\* Audit ids are drawn once.
IdsDrawn ==
  /\ \A r \in Req : stage[r] \in {"drawn", "logged", "done"} => aid[r] <= nextId
  /\ \A q, r \in Req : /\ stage[q] \in {"drawn", "logged", "done"}
                       /\ stage[r] \in {"drawn", "logged", "done"}
                       /\ aid[q] = aid[r]
                       => q = r

\* A hash that has been read is a committed one, older than the id drawn after
\* it; the prev_hash of an uncommitted entry is still free, and held once.
HashesHeld ==
  /\ \A r \in Req : stage[r] \in {"hashed", "drawn", "logged"} =>
       \/ prev[r] = Genesis
       \/ \E a \in audit : a.hash = prev[r] /\ (stage[r] # "hashed" => a.id < aid[r])
  /\ \A r \in Req : HoldsPrev(r) => \A a \in audit : a.prev # prev[r]
  /\ \A q, r \in Req : HoldsPrev(q) /\ HoldsPrev(r) /\ prev[q] = prev[r] => q = r

\* Every entry but the last has a successor, and a trail has a first entry.
ChainTotal ==
  /\ audit # {} => \E a \in audit : a.prev = Genesis
  /\ \A a \in audit : \/ \A b \in audit : b.id <= a.id
                      \/ \E b \in audit : b.prev = a.hash

\* The state of the open transactions and of the tables, together.
IInv ==
  /\ TypeOK /\ RowsOwned
  /\ NumbersHeld /\ SeriesGapFree
  /\ YearsHeld /\ YearClosedOnce
  /\ IdsDrawn /\ HashesHeld /\ ChainTotal /\ AuditChainIntact
  /\ LockMatchesTrail

=============================================================================
