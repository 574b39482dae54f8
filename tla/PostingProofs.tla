--------------------------- MODULE PostingProofs ---------------------------
(***************************************************************************)
(* Proofs about Posting, for any set of requests, series, dates and jobs.  *)
(***************************************************************************)
EXTENDS Posting, SequenceTheorems, TLAPS

-----------------------------------------------------------------------------
(* Facts about the data of a request.                                      *)

\* What Jobs \subseteq Job says of the fields of a request's job.
LEMMA JobTypes ==
  ASSUME TypeOK, NEW r \in Req
  PROVE  /\ job[r] \in Job
         /\ job[r].kind \in Kinds
         /\ job[r].series \in Series
         /\ job[r].date \in Dates
         /\ job[r].date \in Nat \ {0}
         /\ job[r].kind = "close" => job[r].series = closeSeries
<1>1. job[r] \in Jobs
  BY DEF TypeOK
<1>2. job[r] \in Job
  BY <1>1, PostingAssumption
<1>3. job[r].kind \in Kinds /\ job[r].series \in Series /\ job[r].date \in Dates
  BY <1>2 DEF Job
<1> QED
  BY <1>1, <1>2, <1>3, PostingAssumption

\* The fields logAudit hashes, and the rows a request writes, are well typed.
LEMMA RowTypes ==
  ASSUME TypeOK, NEW r \in Req
  PROVE  /\ FieldsOf(r) \in Fields
         /\ VoucherOf(r) \in Voucher
         /\ AuditRowOf(r) \in AuditRow
<1>1. FieldsOf(r) \in Fields
  BY JobTypes DEF FieldsOf, Fields, Entry
<1>2. VoucherOf(r) \in Voucher
  BY JobTypes DEF VoucherOf, Voucher, TypeOK
<1>3. auditHash(prev[r], FieldsOf(r)) \in Hash
  BY <1>1, AppendProperties DEF auditHash, Hash, TypeOK
<1>4. AuditRowOf(r) \in AuditRow
  BY <1>1, <1>3 DEF AuditRowOf, AuditRow, TypeOK
<1> QED
  BY <1>1, <1>2, <1>4

\* Two audit hashes agree only on the same chain; none of them is the genesis.
LEMMA HashInjective ==
  ASSUME NEW h \in Hash, NEW g \in Hash, NEW e \in Fields, NEW f \in Fields
  PROVE  /\ auditHash(h, e) = auditHash(g, f) => h = g /\ e = f
         /\ auditHash(h, e) # Genesis
  BY AppendInjective, AppendProperties DEF auditHash, Hash, Genesis

-----------------------------------------------------------------------------
(* Type correctness.                                                       *)

\* Requests start with a job of Jobs and empty locals, on empty tables.
LEMMA TypeInit == Init => TypeOK
  BY PostingAssumption DEF Init, TypeOK, Stages, Hash, Genesis

\* Every statement leaves the locals and the tables well typed.
LEMMA TypeStep == TypeOK /\ [Next]_vars => TypeOK'
<1> SUFFICES ASSUME TypeOK, [Next]_vars PROVE TypeOK'
  OBVIOUS
<1> USE DEF Stages
<1>1. ASSUME NEW r \in Req, Begin(r) PROVE TypeOK'
  BY <1>1 DEF TypeOK, Begin, Goto, local, tables
<1>2. ASSUME NEW r \in Req, ReadYear(r) PROVE TypeOK'
  <2> DEFINE year == {v \in vers : EndOf[v.date] = job[r].date /\ v.series # closeSeries}
  <2>1. {v.req : v \in year} \subseteq Req
    BY DEF TypeOK, Voucher
  <2>2. seen' \in [Req -> SUBSET Req]
    BY <1>2, <2>1 DEF TypeOK, ReadYear
  <2>3. stage' \in [Req -> Stages]
    BY <1>2 DEF TypeOK, ReadYear, Goto
  <2> QED
    BY <1>2, <2>2, <2>3 DEF TypeOK, ReadYear, tables
<1>3. ASSUME NEW r \in Req, CheckPeriod(r) PROVE TypeOK'
  BY <1>3 DEF TypeOK, CheckPeriod, Goto, local, tables
<1>4. ASSUME NEW r \in Req, ReadNumber(r) PROVE TypeOK'
  <2>1. num' \in [Req -> Nat]
    BY <1>4 DEF TypeOK, ReadNumber, Voucher
  <2> QED
    BY <1>4, <2>1 DEF TypeOK, ReadNumber, Goto, tables
<1>5. ASSUME NEW r \in Req, InsertVerification(r) PROVE TypeOK'
  BY <1>5 DEF TypeOK, InsertVerification, Goto, local, tables
<1>6. ASSUME NEW r \in Req, MarkYearClosed(r) PROVE TypeOK'
  BY <1>6 DEF TypeOK, MarkYearClosed, Goto, local, tables
<1>7. ASSUME NEW r \in Req, SetLockedThrough(r) PROVE TypeOK'
  BY <1>7 DEF TypeOK, SetLockedThrough, Goto, local, tables
<1>8. ASSUME NEW r \in Req, StartNote(r) PROVE TypeOK'
  BY <1>8 DEF TypeOK, StartNote, Goto, local, tables
<1>9. ASSUME NEW r \in Req, WriteRow(r) PROVE TypeOK'
  BY <1>9 DEF TypeOK, WriteRow, Goto, local
<1>10. ASSUME NEW r \in Req, ReadAuditHash(r) PROVE TypeOK'
  <2>0. Genesis \in Hash
    BY DEF Hash, Genesis
  <2>1. prev' \in [Req -> Hash]
    BY <1>10, <2>0 DEF TypeOK, ReadAuditHash, AuditRow
  <2> QED
    BY <1>10, <2>1 DEF TypeOK, ReadAuditHash, Goto, tables
<1>11. ASSUME NEW r \in Req, DrawAuditId(r) PROVE TypeOK'
  BY <1>11 DEF TypeOK, DrawAuditId, Goto, tables
<1>12. ASSUME NEW r \in Req, InsertAuditLog(r) PROVE TypeOK'
  BY <1>12 DEF TypeOK, InsertAuditLog, Goto, local, tables
<1>13. ASSUME NEW r \in Req, Commit(r) PROVE TypeOK'
  <2>1. vers' \subseteq Voucher /\ audit' \subseteq AuditRow
    BY <1>13, RowTypes DEF TypeOK, Commit
  <2>2. locked' \in Dates \cup {0} /\ closed' \subseteq Dates
    BY <1>13, JobTypes DEF TypeOK, Commit
  <2> QED
    BY <1>13, <2>1, <2>2 DEF TypeOK, Commit, Goto, local
<1>14. ASSUME NEW r \in Req, Rollback(r) PROVE TypeOK'
  BY <1>14 DEF TypeOK, Rollback, Goto, local, tables
<1>15. CASE UNCHANGED vars
  BY <1>15 DEF TypeOK, vars, local, tables
<1> QED
  BY <1>1, <1>2, <1>3, <1>4, <1>5, <1>6, <1>7, <1>8, <1>9, <1>10, <1>11, <1>12, <1>13,
     <1>14, <1>15 DEF Next, Step, Quiet

\* Every reachable state of the write path is well typed.
THEOREM TypeCorrect == Spec => []TypeOK
  BY TypeInit, TypeStep, PTL DEF Spec

-----------------------------------------------------------------------------
(* Every step but a commit leaves the tables the properties speak of alone, *)
(* and only touches the locals of a request that is not done.               *)

Working(r) ==
  /\ UNCHANGED <<job, vers, locked, closed, audit>>
  /\ \A q \in Req \ {r} : /\ stage'[q] = stage[q] /\ num'[q] = num[q]
                          /\ prev'[q] = prev[q] /\ aid'[q] = aid[q]
  /\ stage[r] # "done" /\ stage'[r] # "done"

\* A step of a request is its commit, or it changes no committed ledger row and
\* nothing of the other requests.
LEMMA StepFrame ==
  ASSUME TypeOK, NEW r \in Req, Step(r) \/ Rollback(r)
  PROVE  Commit(r) \/ Working(r)
<1> USE DEF Working, TypeOK, Goto, local, tables
<1>1. CASE Begin(r)
  BY <1>1 DEF Begin
<1>2. CASE ReadYear(r)
  <2>1. stage[r] = "idle" /\ (Goto(r, "failed") \/ Goto(r, "open"))
    BY <1>2 DEF ReadYear
  <2>2. UNCHANGED <<job, num, prev, aid, vers, locked, closed, audit>>
    BY <1>2 DEF ReadYear
  <2> QED
    BY <2>1, <2>2
<1>3. CASE CheckPeriod(r)
  BY <1>3 DEF CheckPeriod
<1>4. CASE ReadNumber(r)
  <2>1. stage[r] = "checked" /\ Goto(r, "numbered") /\ \A q \in Req \ {r} : num'[q] = num[q]
    BY <1>4 DEF ReadNumber
  <2>2. UNCHANGED <<job, prev, aid, vers, locked, closed, audit>>
    BY <1>4 DEF ReadNumber
  <2> QED
    BY <2>1, <2>2
<1>5. CASE InsertVerification(r)
  BY <1>5 DEF InsertVerification
<1>6. CASE MarkYearClosed(r)
  BY <1>6 DEF MarkYearClosed
<1>7. CASE SetLockedThrough(r)
  BY <1>7 DEF SetLockedThrough
<1>8. CASE StartNote(r)
  BY <1>8 DEF StartNote
<1>9. CASE WriteRow(r)
  BY <1>9 DEF WriteRow
<1>10. CASE ReadAuditHash(r)
  <2>1. stage[r] = "written" /\ Goto(r, "hashed") /\ \A q \in Req \ {r} : prev'[q] = prev[q]
    BY <1>10 DEF ReadAuditHash
  <2>2. UNCHANGED <<job, num, aid, vers, locked, closed, audit>>
    BY <1>10 DEF ReadAuditHash
  <2> QED
    BY <2>1, <2>2
<1>11. CASE DrawAuditId(r)
  BY <1>11 DEF DrawAuditId
<1>12. CASE InsertAuditLog(r)
  BY <1>12 DEF InsertAuditLog
<1>13. CASE Rollback(r)
  BY <1>13 DEF Rollback
<1> QED
  BY <1>1, <1>2, <1>3, <1>4, <1>5, <1>6, <1>7, <1>8, <1>9, <1>10, <1>11, <1>12, <1>13
     DEF Step

\* The rows of a request are what they were as long as its job and locals are.
LEMMA RowsFrame ==
  ASSUME NEW q \in Req, UNCHANGED job, num'[q] = num[q], prev'[q] = prev[q], aid'[q] = aid[q]
  PROVE  /\ VoucherOf(q)' = VoucherOf(q) /\ AuditRowOf(q)' = AuditRowOf(q)
         /\ FieldsOf(q)' = FieldsOf(q) /\ Posts(q)' = Posts(q)
<1>1. FieldsOf(q)' = FieldsOf(q) /\ Posts(q)' = Posts(q)
  BY DEF FieldsOf, Posts
<1> QED
  BY <1>1 DEF VoucherOf, AuditRowOf

\* Only a commit adds rows, and they are the ones its request wrote.
LEMMA RowsOwnedStep ==
  ASSUME TypeOK, RowsOwned, NEW r \in Req, Step(r) \/ Rollback(r)
  PROVE  RowsOwned'
<1>1. CASE Working(r)
  <2>1. \A v \in vers : v.req \in Req /\ v.req # r
    BY <1>1 DEF TypeOK, Voucher, RowsOwned, Working
  <2>2. \A a \in audit : a.by \in Req /\ a.by # r
    BY <1>1 DEF TypeOK, AuditRow, RowsOwned, Working
  <2>3. \A q \in Req \ {r} : /\ VoucherOf(q)' = VoucherOf(q) /\ AuditRowOf(q)' = AuditRowOf(q)
                             /\ Posts(q)' = Posts(q) /\ stage'[q] = stage[q]
    BY <1>1, RowsFrame DEF Working
  <2>4. vers' = vers /\ audit' = audit /\ stage'[r] # "done"
    BY <1>1 DEF Working
  <2> QED
    BY <2>1, <2>2, <2>3, <2>4 DEF RowsOwned
<1>2. CASE Commit(r)
  <2>1. \A q \in Req : /\ VoucherOf(q)' = VoucherOf(q) /\ AuditRowOf(q)' = AuditRowOf(q)
                       /\ Posts(q)' = Posts(q)
    BY <1>2, RowsFrame DEF Commit, local
  <2>2. /\ stage'[r] = "done" /\ stage[r] # "done"
        /\ \A q \in Req \ {r} : stage'[q] = stage[q]
    BY <1>2 DEF Commit, Goto, TypeOK
  <2>3. /\ audit' = audit \cup {AuditRowOf(r)}
        /\ Posts(r) => vers' = vers \cup {VoucherOf(r)}
        /\ ~Posts(r) => vers' = vers
    BY <1>2 DEF Commit
  <2>4. AuditRowOf(r).by = r /\ VoucherOf(r).req = r
    BY DEF AuditRowOf, VoucherOf
  <2>5. (\A v \in vers : v.req \in Req) /\ (\A a \in audit : a.by \in Req)
    BY DEF TypeOK, Voucher, AuditRow
  <2> QED
    BY <2>1, <2>2, <2>3, <2>4, <2>5 DEF RowsOwned
<1> QED
  BY <1>1, <1>2, StepFrame

-----------------------------------------------------------------------------
(* Verification numbers.                                                   *)

\* A step that is neither the read nor the insert of a number acquires none.
LEMMA NumbersFrame ==
  ASSUME TypeOK, NumbersHeld, NEW r \in Req, Working(r), num'[r] = num[r],
         HoldsNumber(r)' => HoldsNumber(r),
         stage'[r] \in {"checked", "numbered", "posted", "marked"} => Posts(r),
         stage'[r] # "numbered"
  PROVE  NumbersHeld'
<1>1. \A q \in Req : /\ num'[q] = num[q] /\ job'[q] = job[q]
                     /\ HoldsNumber(q)' => HoldsNumber(q)
                     /\ stage'[q] = "numbered" => stage[q] = "numbered"
                     /\ stage'[q] \in {"checked", "numbered", "posted", "marked"} => Posts(q)'
  BY DEF Working, HoldsNumber, Posts, NumbersHeld
<1>2. vers' = vers
  BY DEF Working
<1> QED
  BY <1>1, <1>2 DEF NumbersHeld

\* The read, the insert (with its unique key) and the commit of a number keep the
\* series gap-free and the numbers held by open transactions apart.
LEMMA NumbersStep ==
  ASSUME TypeOK, RowsOwned, NumbersHeld, SeriesGapFree, NEW r \in Req, Step(r) \/ Rollback(r)
  PROVE  NumbersHeld' /\ SeriesGapFree'
<1> USE DEF Logging
<1>1. CASE Working(r)
  <2>1. SeriesGapFree'
    BY <1>1 DEF Working, SeriesGapFree
  <2> SUFFICES NumbersHeld'
    BY <2>1
  <2>2. CASE ReadNumber(r)
    <3>1. PICK n \in {1} \cup {v.number + 1 : v \in vers} :
            NextVerificationNumber(job[r].series, n) /\ num' = [num EXCEPT ![r] = n]
      BY <2>2 DEF ReadNumber
    <3>2. n >= 1 /\ num'[r] = n
      BY <3>1 DEF TypeOK, NumbersHeld, Voucher
    <3>3. n = 1 \/ \E v \in vers : v.series = job[r].series /\ v.number = n - 1
      BY <3>1 DEF NextVerificationNumber, TypeOK, Voucher
    <3>4. stage'[r] = "numbered" /\ Posts(r)
      BY <2>2 DEF ReadNumber, Goto, TypeOK, NumbersHeld
    <3> QED
      BY <1>1, <3>2, <3>3, <3>4 DEF NumbersHeld, HoldsNumber, Posts, Working
  <2>3. CASE InsertVerification(r)
    <3>1. num' = num /\ stage[r] = "numbered"
      BY <2>3 DEF InsertVerification, local
    <3>2. CASE stage'[r] = "failed"
      BY <1>1, <3>1, <3>2, NumbersFrame DEF HoldsNumber
    <3>3. CASE stage'[r] # "failed"
      <4>1. /\ stage'[r] \in {"posted", "written"}
            /\ \A v \in vers : v.series = job[r].series => v.number # num[r]
        BY <2>3, <3>3 DEF InsertVerification, Goto, TypeOK
      <4>2. ~ \E q \in Req \ {r} : /\ HoldsNumber(q) /\ job[q].series = job[r].series
                                   /\ num[q] = num[r]
        BY <2>3 DEF InsertVerification
      <4> QED
        BY <1>1, <3>1, <4>1, <4>2 DEF NumbersHeld, HoldsNumber, Posts, Working
    <3> QED
      BY <3>2, <3>3
  <2>4. CASE Begin(r)
    BY <1>1, <2>4, NumbersFrame DEF Begin, Goto, TypeOK, local, HoldsNumber
  <2>5. CASE ReadYear(r)
    BY <1>1, <2>5, NumbersFrame DEF ReadYear, Goto, TypeOK, local, HoldsNumber
  <2>6. CASE CheckPeriod(r)
    BY <1>1, <2>6, NumbersFrame DEF CheckPeriod, Goto, TypeOK, local, HoldsNumber
  <2>7. CASE MarkYearClosed(r)
    BY <1>1, <2>7, NumbersFrame DEF MarkYearClosed, Goto, TypeOK, local, HoldsNumber, Posts, NumbersHeld
  <2>8. CASE SetLockedThrough(r)
    BY <1>1, <2>8, NumbersFrame DEF SetLockedThrough, Goto, TypeOK, local, HoldsNumber, Posts, NumbersHeld
  <2>9. CASE StartNote(r)
    BY <1>1, <2>9, NumbersFrame DEF StartNote, Goto, TypeOK, local, HoldsNumber, Posts
  <2>10. CASE WriteRow(r)
    BY <1>1, <2>10, NumbersFrame DEF WriteRow, Goto, TypeOK, local, HoldsNumber, Posts
  <2>11. CASE ReadAuditHash(r)
    BY <1>1, <2>11, NumbersFrame DEF ReadAuditHash, Goto, TypeOK, HoldsNumber, Posts
  <2>12. CASE DrawAuditId(r)
    BY <1>1, <2>12, NumbersFrame DEF DrawAuditId, Goto, TypeOK, HoldsNumber, Posts
  <2>13. CASE InsertAuditLog(r)
    BY <1>1, <2>13, NumbersFrame DEF InsertAuditLog, Goto, TypeOK, local, HoldsNumber, Posts
  <2>14. CASE Rollback(r)
    BY <1>1, <2>14, NumbersFrame DEF Rollback, Goto, TypeOK, local, HoldsNumber, Posts
  <2>15. ~Commit(r)
    BY <1>1 DEF Working, Commit, Goto, TypeOK
  <2> QED
    BY <2>1, <2>2, <2>3, <2>4, <2>5, <2>6, <2>7, <2>8, <2>9, <2>10, <2>11, <2>12, <2>13,
       <2>14, <2>15 DEF Step
<1>2. CASE Commit(r)
  <2>1. /\ stage[r] = "logged" /\ stage' = [stage EXCEPT ![r] = "done"]
        /\ UNCHANGED <<job, num>>
    BY <1>2 DEF Commit, Goto, local
  <2>2. \A q \in Req : /\ HoldsNumber(q)' => HoldsNumber(q) /\ q # r
                       /\ stage'[q] = "numbered" => stage[q] = "numbered"
                       /\ stage'[q] \in {"checked", "numbered", "posted", "marked"} => Posts(q)'
    BY <2>1 DEF HoldsNumber, Posts, NumbersHeld, TypeOK
  <2>3. CASE ~Posts(r)
    <3>1. vers' = vers
      BY <1>2, <2>3 DEF Commit
    <3> QED
      BY <2>1, <2>2, <3>1 DEF NumbersHeld, SeriesGapFree
  <2>4. CASE Posts(r)
    <3> DEFINE n == VoucherOf(r)
    <3>1. vers' = vers \cup {n}
      BY <1>2, <2>4 DEF Commit
    <3>2. /\ n.series = job[r].series /\ n.number = num[r] /\ num[r] \in Nat
      BY DEF VoucherOf, TypeOK
    <3>3. HoldsNumber(r)
      BY <2>1, <2>4 DEF HoldsNumber
    <3>4. NumbersHeld'
      BY <2>1, <2>2, <3>1, <3>2, <3>3 DEF NumbersHeld
    <3>5. \A v \in vers : v.series = n.series => v.number # n.number
      BY <3>2, <3>3 DEF NumbersHeld
    <3>6. \A i \in 1 .. n.number :
            \E w \in vers' : w.series = n.series /\ w.number = i
      <4>1. SUFFICES ASSUME NEW i \in 1 .. n.number, i # n.number
                     PROVE  \E w \in vers : w.series = n.series /\ w.number = i
        BY <3>1
      <4>2. PICK v \in vers : v.series = n.series /\ v.number = n.number - 1
        BY <3>2, <3>3, <4>1 DEF NumbersHeld
      <4>3. i \in 1 .. v.number
        BY <3>2, <4>1, <4>2
      <4> QED
        BY <4>2, <4>3 DEF SeriesGapFree
    <3>7. SeriesGapFree'
      BY <3>1, <3>5, <3>6 DEF SeriesGapFree
    <3> QED
      BY <3>4, <3>7
  <2> QED
    BY <2>3, <2>4
<1> QED
  BY <1>1, <1>2, StepFrame

-----------------------------------------------------------------------------
(* Fiscal years.                                                           *)

\* The UPDATE of a fiscal year and its row count let one bokslut voucher through.
LEMMA YearsStep ==
  ASSUME TypeOK, RowsOwned, NumbersHeld, YearsHeld, YearClosedOnce,
         NEW r \in Req, Step(r) \/ Rollback(r)
  PROVE  YearsHeld' /\ YearClosedOnce'
<1> USE DEF Logging
<1>1. CASE Working(r)
  <2>1. YearClosedOnce'
    BY <1>1 DEF Working, YearClosedOnce, Bokslut
  <2>2. CASE MarkYearClosed(r)
    <3>1. /\ stage[r] = "posted" /\ job[r].kind = "close"
          /\ stage'[r] # "failed" => stage'[r] = "marked" /\ job[r].date \notin closed
          /\ ~ \E q \in Req \ {r} : HoldsYear(q) /\ job[q].date = job[r].date
      BY <2>2 DEF MarkYearClosed, Goto, TypeOK, YearsHeld
    <3>2. \A q \in Req \ {r} : HoldsYear(q)' <=> HoldsYear(q)
      BY <1>1 DEF Working, HoldsYear
    <3>3. job' = job /\ closed' = closed
      BY <1>1 DEF Working
    <3>4. stage'[r] = "failed" => ~HoldsYear(r)'
      BY DEF HoldsYear
    <3>5. \A q \in Req \ {r} : stage'[q] = stage[q]
      BY <1>1 DEF Working
    <3>6. \A q \in Req : HoldsYear(q)' => job[q].date \notin closed
      BY <3>1, <3>2, <3>4 DEF YearsHeld
    <3>7. \A p, q \in Req : HoldsYear(p)' /\ HoldsYear(q)' /\ job[p].date = job[q].date => p = q
      BY <3>1, <3>2, <3>4 DEF YearsHeld
    <3> QED
      BY <2>1, <3>1, <3>3, <3>5, <3>6, <3>7 DEF YearsHeld
  <2>3. CASE ~MarkYearClosed(r)
    <3>1. /\ stage'[r] \in {"posted", "marked"} => job[r].kind = "close"
          /\ HoldsYear(r)' => HoldsYear(r)
      <4> USE DEF Goto, TypeOK, HoldsYear
      <4>1. CASE Begin(r)
        BY <4>1 DEF Begin
      <4>2. CASE ReadYear(r)
        BY <4>2 DEF ReadYear
      <4>3. CASE CheckPeriod(r)
        BY <4>3 DEF CheckPeriod
      <4>4. CASE ReadNumber(r)
        BY <4>4 DEF ReadNumber
      <4>5. CASE InsertVerification(r)
        BY <4>5 DEF InsertVerification
      <4>6. CASE SetLockedThrough(r)
        BY <4>6 DEF SetLockedThrough
      <4>7. CASE StartNote(r)
        BY <4>7 DEF StartNote
      <4>8. CASE WriteRow(r)
        BY <4>8 DEF WriteRow
      <4>9. CASE ReadAuditHash(r)
        BY <4>9 DEF ReadAuditHash
      <4>10. CASE DrawAuditId(r)
        BY <4>10 DEF DrawAuditId
      <4>11. CASE InsertAuditLog(r)
        BY <4>11 DEF InsertAuditLog
      <4>12. CASE Rollback(r)
        BY <4>12 DEF Rollback
      <4>13. ~Commit(r)
        BY <1>1 DEF Working, Commit
      <4> QED
        BY <2>3, <4>1, <4>2, <4>3, <4>4, <4>5, <4>6, <4>7, <4>8, <4>9, <4>10, <4>11, <4>12,
           <4>13 DEF Step
    <3>2. \A q \in Req \ {r} : stage'[q] = stage[q] /\ (HoldsYear(q)' <=> HoldsYear(q))
      BY <1>1 DEF Working, HoldsYear
    <3>3. job' = job /\ closed' = closed
      BY <1>1 DEF Working
    <3>4. \A q \in Req : HoldsYear(q)' => HoldsYear(q)
      BY <3>1, <3>2
    <3> QED
      BY <2>1, <3>1, <3>2, <3>3, <3>4 DEF YearsHeld
  <2> QED
    BY <2>2, <2>3
<1>2. CASE Commit(r)
  <2>1. /\ stage[r] = "logged" /\ stage' = [stage EXCEPT ![r] = "done"] /\ job' = job
    BY <1>2 DEF Commit, Goto
  <2>2. \A q \in Req : /\ HoldsYear(q)' => HoldsYear(q) /\ q # r
                       /\ stage'[q] \in {"posted", "marked"} => job'[q].kind = "close"
    BY <2>1 DEF HoldsYear, TypeOK, YearsHeld
  <2>3. CASE job[r].kind # "close"
    <3>1. closed' = closed
      BY <1>2, <2>3 DEF Commit
    <3>2. \A v \in vers' \ vers : v.req = r
      BY <1>2, <2>3 DEF Commit, VoucherOf
    <3>3. vers \subseteq vers'
      BY <1>2 DEF Commit
    <3>4. Bokslut' = Bokslut
      BY <2>1, <2>3, <3>2, <3>3 DEF Bokslut
    <3> QED
      BY <2>1, <2>2, <3>1, <3>4 DEF YearsHeld, YearClosedOnce
  <2>4. CASE job[r].kind = "close"
    <3> DEFINE n == VoucherOf(r)
    <3>1. vers' = vers \cup {n} /\ closed' = closed \cup {job[r].date}
      BY <1>2, <2>4 DEF Commit, Posts
    <3>2. n.req = r /\ n.date = job[r].date /\ job[r].date \in Dates
      BY JobTypes DEF VoucherOf
    <3>a. Bokslut' = Bokslut \cup {n}
      BY <2>1, <2>4, <3>1, <3>2 DEF Bokslut
    <3>3. HoldsYear(r)
      BY <2>1, <2>4 DEF HoldsYear
    <3>4. \A v \in Bokslut : v.date # n.date
      BY <3>2, <3>3 DEF YearsHeld, YearClosedOnce, TypeOK, Voucher, Bokslut
    <3>5. YearClosedOnce'
      BY <3>1, <3>2, <3>a, <3>4 DEF YearClosedOnce
    <3>6. YearsHeld'
      BY <2>1, <2>2, <3>1, <3>3 DEF YearsHeld
    <3> QED
      BY <3>5, <3>6
  <2> QED
    BY <2>3, <2>4
<1> QED
  BY <1>1, <1>2, StepFrame

-----------------------------------------------------------------------------
(* The audit chain.                                                        *)

\* A step outside logAudit leaves a request without an audit hash or id.
LEMMA AuditFrame ==
  ASSUME TypeOK, NEW r \in Req, Step(r) \/ Rollback(r), Working(r)
  PROVE  \/ ReadAuditHash(r) \/ DrawAuditId(r) \/ InsertAuditLog(r)
         \/ stage'[r] \notin {"hashed", "drawn", "logged", "done"} /\ nextId' = nextId
<1> USE DEF TypeOK, Goto
<1>1. CASE Begin(r)
  BY <1>1 DEF Begin
<1>2. CASE ReadYear(r)
  BY <1>2 DEF ReadYear
<1>3. CASE CheckPeriod(r)
  BY <1>3 DEF CheckPeriod
<1>4. CASE ReadNumber(r)
  BY <1>4 DEF ReadNumber
<1>5. CASE InsertVerification(r)
  BY <1>5 DEF InsertVerification
<1>6. CASE MarkYearClosed(r)
  BY <1>6 DEF MarkYearClosed
<1>7. CASE SetLockedThrough(r)
  BY <1>7 DEF SetLockedThrough
<1>8. CASE StartNote(r)
  BY <1>8 DEF StartNote
<1>9. CASE WriteRow(r)
  BY <1>9 DEF WriteRow
<1>10. CASE Rollback(r)
  BY <1>10 DEF Rollback
<1>11. ~Commit(r)
  BY DEF Working, Commit
<1> QED
  BY <1>1, <1>2, <1>3, <1>4, <1>5, <1>6, <1>7, <1>8, <1>9, <1>10, <1>11 DEF Step

\* Only the sequence gives out audit ids, and it gives each of them once.
LEMMA IdsStep ==
  ASSUME TypeOK, IdsDrawn, NEW r \in Req, Step(r) \/ Rollback(r)
  PROVE  IdsDrawn'
<1>1. CASE DrawAuditId(r)
  <2>1. /\ nextId' = nextId + 1 /\ aid'[r] = nextId + 1
        /\ \A q \in Req \ {r} : aid'[q] = aid[q] /\ stage'[q] = stage[q]
        /\ nextId \in Nat /\ \A q \in Req : aid[q] \in Nat
    BY <1>1 DEF DrawAuditId, Goto, TypeOK
  <2> QED
    BY <2>1 DEF IdsDrawn
<1>2. CASE ~DrawAuditId(r)
  <2>1. /\ \A q \in Req : aid'[q] = aid[q]
        /\ nextId' = nextId
        /\ \A q \in Req \ {r} : stage'[q] = stage[q]
        /\ stage'[r] \in {"drawn", "logged", "done"} => stage[r] \in {"drawn", "logged"}
    <3>1. CASE Commit(r)
      BY <3>1 DEF Commit, Goto, TypeOK, local
    <3>2. CASE Working(r)
      <4>1. CASE ReadAuditHash(r)
        BY <4>1 DEF ReadAuditHash, Goto, TypeOK
      <4>2. CASE InsertAuditLog(r)
        BY <4>2 DEF InsertAuditLog, Goto, TypeOK, local
      <4>3. CASE ~ReadAuditHash(r) /\ ~InsertAuditLog(r)
        <5>1. stage'[r] \notin {"hashed", "drawn", "logged", "done"} /\ nextId' = nextId
          BY <1>2, <3>2, <4>3, AuditFrame
        <5>2. aid' = aid
          BY <1>2, <3>2, <4>3 DEF Step, Begin, ReadYear, CheckPeriod, ReadNumber,
            InsertVerification, MarkYearClosed, SetLockedThrough, StartNote, WriteRow,
            Commit, Rollback, local
        <5> QED
          BY <3>2, <5>1, <5>2 DEF Working
      <4> QED
        BY <4>1, <4>2, <4>3
    <3> QED
      BY <3>1, <3>2, StepFrame
  <2> QED
    BY <2>1 DEF IdsDrawn
<1> QED
  BY <1>1, <1>2

\* Committed ids are among those drawn, and two committed entries with one id,
\* or the same prev_hash, are the same entry.
LEMMA AuditIds ==
  ASSUME TypeOK, RowsOwned, IdsDrawn
  PROVE  /\ \A a \in audit : a.id \in Nat /\ a.id <= nextId /\ a.by \in Req /\ a.id = aid[a.by]
         /\ \A a, b \in audit : a.id = b.id => a = b
<1>1. \A a \in audit : /\ a.by \in Req /\ stage[a.by] = "done" /\ a = AuditRowOf(a.by)
                       /\ a.id = aid[a.by] /\ a.id \in Nat
  BY DEF TypeOK, AuditRow, RowsOwned, AuditRowOf
<1> QED
  BY <1>1 DEF IdsDrawn

\* The entry a transaction holds continues the trail: its predecessor is the
\* last committed entry, and it is the first one only of an empty trail.
LEMMA HeldIsNext ==
  ASSUME TypeOK, RowsOwned, IdsDrawn, HashesHeld, ChainTotal,
         NEW r \in Req, stage[r] = "logged"
  PROVE  \/ audit = {} /\ prev[r] = Genesis
         \/ \E a \in audit : /\ a.hash = prev[r] /\ a.id < aid[r]
                             /\ \A b \in audit : b.id <= a.id
<1>1. \A a \in audit : a.prev # prev[r]
  BY DEF HashesHeld, HoldsPrev
<1>2. CASE prev[r] = Genesis
  BY <1>1, <1>2 DEF ChainTotal
<1>3. CASE prev[r] # Genesis
  <2>1. PICK a \in audit : a.hash = prev[r] /\ a.id < aid[r]
    BY <1>3 DEF HashesHeld
  <2> QED
    BY <1>1, <2>1 DEF ChainTotal
<1> QED
  BY <1>2, <1>3

\* The audit entry that is committed next continues the chain: it was hashed on
\* the entry that is the last one when it is committed.
LEMMA ChainStep ==
  ASSUME TypeOK, RowsOwned, IdsDrawn, HashesHeld, ChainTotal, AuditChainIntact,
         NEW r \in Req, Step(r) \/ Rollback(r)
  PROVE  HashesHeld' /\ ChainTotal' /\ AuditChainIntact'
<1>1. CASE Working(r)
  <2>1. ChainTotal' /\ AuditChainIntact'
    BY <1>1 DEF Working, ChainTotal, AuditChainIntact
  <2> SUFFICES HashesHeld'
    BY <2>1
  <2>2. /\ audit' = audit
        /\ \A q \in Req \ {r} : /\ stage'[q] = stage[q] /\ prev'[q] = prev[q]
                                /\ aid'[q] = aid[q]
    BY <1>1 DEF Working
  <2>3. CASE ReadAuditHash(r)
    <3>1. PICK h \in {Genesis} \cup {a.hash : a \in audit} :
            GetLastAuditHash(h) /\ prev' = [prev EXCEPT ![r] = h]
      BY <2>3 DEF ReadAuditHash
    <3>2. stage'[r] = "hashed" /\ prev'[r] = h
      BY <2>3, <3>1 DEF ReadAuditHash, Goto, TypeOK
    <3>3. h = Genesis \/ \E a \in audit : a.hash = h
      BY <3>1
    <3> QED
      BY <2>2, <3>2, <3>3 DEF HashesHeld, HoldsPrev
  <2>4. CASE DrawAuditId(r)
    <3>1. /\ stage[r] = "hashed" /\ stage'[r] = "drawn" /\ prev' = prev
          /\ aid'[r] = nextId + 1 /\ nextId \in Nat
      BY <2>4 DEF DrawAuditId, Goto, TypeOK
    <3>2. \A a \in audit : a.id < aid'[r]
      BY <3>1, AuditIds
    <3> QED
      BY <2>2, <3>1, <3>2 DEF HashesHeld, HoldsPrev
  <2>5. CASE InsertAuditLog(r)
    <3>1. stage[r] = "drawn" /\ prev' = prev /\ aid' = aid
      BY <2>5 DEF InsertAuditLog, local
    <3>2. CASE stage'[r] = "failed"
      BY <2>2, <3>1, <3>2 DEF HashesHeld, HoldsPrev
    <3>3. CASE stage'[r] # "failed"
      <4>1. stage'[r] = "logged" /\ \A a \in audit : a.prev # prev[r]
        BY <2>5, <3>3 DEF InsertAuditLog, Goto, TypeOK
      <4>2. ~ \E q \in Req \ {r} : HoldsPrev(q) /\ prev[q] = prev[r]
        BY <2>5 DEF InsertAuditLog
      <4> QED
        BY <2>2, <3>1, <4>1, <4>2 DEF HashesHeld, HoldsPrev
    <3> QED
      BY <3>2, <3>3
  <2>6. CASE stage'[r] \notin {"hashed", "drawn", "logged", "done"}
    BY <2>2, <2>6 DEF HashesHeld, HoldsPrev
  <2> QED
    BY <1>1, <2>3, <2>4, <2>5, <2>6, AuditFrame
<1>2. CASE Commit(r)
  <2> DEFINE n == AuditRowOf(r)
  <2>1. /\ stage[r] = "logged" /\ audit' = audit \cup {n} /\ prev' = prev /\ aid' = aid
        /\ stage'[r] = "done" /\ \A q \in Req \ {r} : stage'[q] = stage[q]
    BY <1>2 DEF Commit, Goto, TypeOK, local
  <2>2. /\ n.prev = prev[r] /\ n.id = aid[r] /\ n.hash = auditHash(n.prev, n.fields)
        /\ n.id \in Nat
    BY DEF AuditRowOf, TypeOK
  <2>3. \A a \in audit : a.prev # n.prev
    BY <2>1, <2>2 DEF HashesHeld, HoldsPrev
  <2>4. \A a \in audit : a.id \in Nat /\ a.id < n.id
    <3>1. \A a \in audit : a.id \in Nat
      BY AuditIds
    <3> QED
      BY <2>1, <2>2, <3>1, HeldIsNext
  <2>5. \/ audit = {} /\ n.prev = Genesis
        \/ \E a \in audit : a.hash = n.prev /\ \A b \in audit : b.id <= a.id
    BY <2>1, <2>2, HeldIsNext
  <2>6. HashesHeld'
    BY <2>1, <2>2 DEF HashesHeld, HoldsPrev
  <2>7. ChainTotal'
    <3>1. \E a \in audit' : a.prev = Genesis
      BY <2>1, <2>5 DEF ChainTotal
    <3>2. \A b \in audit' : b.id <= n.id
      BY <2>1, <2>2, <2>4
    <3>3. ASSUME NEW b \in audit PROVE \/ \A c \in audit' : c.id <= b.id
                                       \/ \E c \in audit' : c.prev = b.hash
      <4>1. CASE \E c \in audit : c.prev = b.hash
        BY <2>1, <4>1
      <4>2. CASE \A c \in audit : c.id <= b.id
        <5>1. PICK a \in audit : a.hash = n.prev /\ \A c \in audit : c.id <= a.id
          BY <2>5
        <5>2. a = b
          BY <4>2, <5>1, AuditIds
        <5> QED
          BY <2>1, <5>1, <5>2
      <4> QED
        BY <4>1, <4>2 DEF ChainTotal
    <3> QED
      BY <2>1, <3>1, <3>2, <3>3 DEF ChainTotal
  <2>8. AuditChainIntact'
    <3>1. ASSUME NEW a \in audit
          PROVE  /\ a.hash = auditHash(a.prev, a.fields)
                 /\ \/ a.prev = Genesis /\ \A b \in audit' : a.id <= b.id
                    \/ \E b \in audit' : /\ b.id < a.id /\ b.hash = a.prev
                                         /\ \A c \in audit' : c.id <= b.id \/ c.id >= a.id
                 /\ \A b \in audit' : b.id = a.id => b = a
      BY <2>1, <2>2, <2>4 DEF AuditChainIntact
    <3>2. /\ \/ n.prev = Genesis /\ \A b \in audit' : n.id <= b.id
             \/ \E b \in audit' : /\ b.id < n.id /\ b.hash = n.prev
                                  /\ \A c \in audit' : c.id <= b.id \/ c.id >= n.id
          /\ \A b \in audit' : b.id = n.id => b = n
      <4>1. CASE audit = {}
        BY <2>1, <2>2, <2>5, <4>1
      <4>2. CASE audit # {}
        BY <2>1, <2>2, <2>4, <2>5, <4>2
      <4> QED
        BY <4>1, <4>2
    <3> QED
      BY <2>1, <2>2, <3>1, <3>2 DEF AuditChainIntact
  <2> QED
    BY <2>6, <2>7, <2>8
<1> QED
  BY <1>1, <1>2, StepFrame

-----------------------------------------------------------------------------
(* The period lock.                                                        *)

\* The lock moves with the commit of its own entry, which becomes the last one.
LEMMA LockStep ==
  ASSUME TypeOK, RowsOwned, IdsDrawn, HashesHeld, ChainTotal, LockMatchesTrail,
         NEW r \in Req, Step(r) \/ Rollback(r)
  PROVE  LockMatchesTrail'
<1>1. CASE Working(r)
  BY <1>1 DEF Working, LockMatchesTrail
<1>2. CASE Commit(r)
  <2> DEFINE n == AuditRowOf(r)
             lockKinds == {"lock", "unlock", "close"}
             moved == {a \in audit : a.fields.action \in lockKinds}
  <2>1. /\ stage[r] = "logged" /\ audit' = audit \cup {n} /\ job' = job
    BY <1>2 DEF Commit
  <2>2. n.by = r /\ n.id = aid[r] /\ n.fields.action = job[r].kind /\ n.id \in Nat
    BY DEF AuditRowOf, FieldsOf, Entry, TypeOK
  <2>3. \A a \in audit : a.id \in Nat /\ a.id < n.id
    <3>1. \A a \in audit : a.id \in Nat
      BY AuditIds
    <3> QED
      BY <2>1, <2>2, <3>1, HeldIsNext
  <2>4. CASE job[r].kind \in lockKinds
    <3>1. locked' = IF job[r].kind = "unlock" THEN 0 ELSE job[r].date
      BY <1>2, <2>4 DEF Commit
    <3>2. moved' = moved \cup {n}
      BY <2>1, <2>2, <2>4
    <3>3. \A b \in moved' : b.id <= n.id
      BY <2>2, <2>3, <3>2
    <3> QED
      BY <2>1, <2>2, <3>1, <3>2, <3>3 DEF LockMatchesTrail
  <2>5. CASE job[r].kind \notin lockKinds
    <3>1. locked' = locked
      BY <1>2, <2>5 DEF Commit
    <3>2. moved' = moved
      BY <2>1, <2>2, <2>5
    <3> QED
      BY <2>1, <3>1, <3>2 DEF LockMatchesTrail
  <2> QED
    BY <2>4, <2>5
<1> QED
  BY <1>1, <1>2, StepFrame

-----------------------------------------------------------------------------
(* The invariant, and what follows from it.                                *)

\* The empty books satisfy the inductive invariant.
LEMMA InvInit == Init => IInv
<1> SUFFICES ASSUME Init PROVE IInv
  OBVIOUS
<1>1. TypeOK
  BY TypeInit
<1>2. RowsOwned /\ SeriesGapFree /\ YearClosedOnce /\ ChainTotal /\ AuditChainIntact /\ LockMatchesTrail
  BY DEF Init, RowsOwned, SeriesGapFree, YearClosedOnce, Bokslut, ChainTotal, AuditChainIntact,
         LockMatchesTrail
<1>3. NumbersHeld /\ YearsHeld /\ IdsDrawn /\ HashesHeld
  BY DEF Init, NumbersHeld, YearsHeld, IdsDrawn, HashesHeld, HoldsNumber, HoldsYear, HoldsPrev,
         Logging
<1> QED
  BY <1>1, <1>2, <1>3 DEF IInv

\* Every step of every request keeps the inductive invariant.
LEMMA InvStep == IInv /\ [Next]_vars => IInv'
<1> SUFFICES ASSUME IInv, [Next]_vars PROVE IInv'
  OBVIOUS
<1>1. TypeOK'
  BY TypeStep DEF IInv
<1>2. CASE UNCHANGED vars
  <2>1. /\ UNCHANGED <<job, stage, num, prev, aid, seen, vers, locked, closed, rows, audit, nextId>>
    BY <1>2 DEF vars, local, tables
  <2>2. \A q \in Req : /\ Posts(q)' = Posts(q) /\ VoucherOf(q)' = VoucherOf(q)
                       /\ AuditRowOf(q)' = AuditRowOf(q)
    BY <2>1, RowsFrame
  <2>3. RowsOwned'
    BY <2>1, <2>2 DEF IInv, RowsOwned, TypeOK, Voucher, AuditRow
  <2>4. NumbersHeld' /\ SeriesGapFree'
    BY <2>1 DEF IInv, NumbersHeld, SeriesGapFree, HoldsNumber, Posts
  <2>5. YearsHeld' /\ YearClosedOnce'
    BY <2>1 DEF IInv, YearsHeld, YearClosedOnce, Bokslut, HoldsYear
  <2>6. IdsDrawn' /\ HashesHeld' /\ ChainTotal' /\ AuditChainIntact'
    BY <2>1 DEF IInv, IdsDrawn, HashesHeld, HoldsPrev, ChainTotal, AuditChainIntact
  <2>7. LockMatchesTrail'
    BY <2>1 DEF IInv, LockMatchesTrail
  <2> QED
    BY <1>1, <2>3, <2>4, <2>5, <2>6, <2>7 DEF IInv
<1>3. ASSUME NEW r \in Req, Step(r) \/ Rollback(r) PROVE IInv'
  BY <1>1, <1>3, RowsOwnedStep, NumbersStep, YearsStep, IdsStep, ChainStep, LockStep DEF IInv
<1> QED
  BY <1>2, <1>3 DEF Next, Quiet

\* The inductive invariant of the write path holds in every reachable state.
THEOREM Invariance == Spec => []IInv
  BY InvInit, InvStep, PTL DEF Spec

\* Verification numbers are gap-free and unique per series, however the reads
\* of MAX(number) + 1, the inserts and the rollbacks interleave.
THEOREM GapFreeNumbers == Spec => []SeriesGapFree
<1>1. IInv => SeriesGapFree
  BY DEF IInv
<1> QED
  BY <1>1, Invariance, PTL

\* VerifyAuditChain succeeds in every state the store can commit.
THEOREM AuditChainHolds == Spec => []AuditChainIntact
<1>1. IInv => AuditChainIntact
  BY DEF IInv
<1> QED
  BY <1>1, Invariance, PTL

\* A verification is in the books exactly when its audit entry is.
THEOREM AuditedAtomically == Spec => []PostedIffAudited
<1>1. ASSUME IInv PROVE PostedIffAudited
  <2>1. SUFFICES ASSUME NEW r \in Req, Posts(r)
                 PROVE  (\E v \in vers : v.req = r) <=> (\E a \in audit : a.by = r)
    BY DEF PostedIffAudited
  <2>2. (\E v \in vers : v.req = r) => stage[r] = "done"
    BY <1>1 DEF IInv, RowsOwned
  <2>3. (\E a \in audit : a.by = r) => stage[r] = "done"
    BY <1>1 DEF IInv, RowsOwned
  <2>4. VoucherOf(r).req = r /\ AuditRowOf(r).by = r
    BY DEF VoucherOf, AuditRowOf
  <2> QED
    BY <1>1, <2>1, <2>2, <2>3, <2>4 DEF IInv, RowsOwned
<1> QED
  BY <1>1, Invariance, PTL

\* The lock in force is the one the audit trail announced last.
THEOREM LockAudited == Spec => []LockMatchesTrail
<1>1. IInv => LockMatchesTrail
  BY DEF IInv
<1> QED
  BY <1>1, Invariance, PTL

\* A fiscal year has one bokslut when it is marked closed and none before, also
\* when vouchers are posted by hand in the series of the bokslut.
THEOREM OneBokslut == Spec => []YearClosedOnce
<1>1. IInv => YearClosedOnce
  BY DEF IInv
<1> QED
  BY <1>1, Invariance, PTL

-----------------------------------------------------------------------------
(* Refinement: the committed tables are a Journal.                         *)

\* The trail ends with the hash of the last committed entry.
LEMMA TrailIsLast ==
  ASSUME TypeOK, RowsOwned, IdsDrawn, NEW a \in audit, \A b \in audit : b.id <= a.id
  PROVE  Trail = a.hash
<1> DEFINE last == CHOOSE c \in audit : \A b \in audit : b.id <= c.id
<1>1. last \in audit /\ \A b \in audit : b.id <= last.id
  OBVIOUS
<1>2. last = a
  BY <1>1, AuditIds
<1> QED
  BY <1>2 DEF Trail

\* A commit appends the entry of its request to the trail.
LEMMA CommitAppends ==
  ASSUME IInv, IInv', NEW r \in Req, Commit(r)
  PROVE  Trail' = Append(Trail, FieldsOf(r))
<1> DEFINE n == AuditRowOf(r)
<1>1. stage[r] = "logged" /\ audit' = audit \cup {n}
  BY DEF Commit
<1>2. n.id = aid[r] /\ n.id \in Nat /\ n.hash = Append(prev[r], FieldsOf(r))
  BY DEF AuditRowOf, auditHash, IInv, TypeOK
<1>3. \/ audit = {} /\ prev[r] = Genesis
      \/ \E a \in audit : /\ a.hash = prev[r] /\ a.id < aid[r]
                          /\ \A b \in audit : b.id <= a.id
  BY <1>1, HeldIsNext DEF IInv
<1>4. Trail = prev[r]
  <2>1. CASE audit = {}
    BY <1>3, <2>1 DEF Trail
  <2>2. CASE audit # {}
    BY <1>3, <2>2, TrailIsLast DEF IInv
  <2> QED
    BY <2>1, <2>2
<1>5. \A b \in audit' : b.id <= n.id
  <2>1. \A b \in audit : b.id \in Nat
    BY AuditIds DEF IInv
  <2> QED
    BY <1>1, <1>2, <1>3, <2>1
<1>6. Trail' = n.hash
  <2> DEFINE last == CHOOSE c \in audit' : \A b \in audit' : b.id <= c.id
  <2>1. n \in audit'
    BY <1>1
  <2>2. last \in audit' /\ \A b \in audit' : b.id <= last.id
    BY <1>5, <2>1
  <2>3. \A a, b \in audit' : a.id = b.id => a = b
    BY DEF IInv, AuditChainIntact
  <2>4. \A b \in audit' : b.id \in Nat
    BY DEF IInv, TypeOK, AuditRow
  <2>5. last.id = n.id
    BY <1>2, <1>5, <2>1, <2>2, <2>4
  <2>6. last = n
    BY <2>1, <2>2, <2>3, <2>5
  <2> QED
    BY <2>1, <2>6 DEF Trail
<1> QED
  BY <1>2, <1>4, <1>6

\* The empty books are an initial state of the Journal.
LEMMA RefinesInit == Init => J!Init
  BY DEF Init, J!Init, Trail, Genesis

\* A commit is a step of the Journal.
LEMMA CommitRefines ==
  ASSUME IInv, IInv', NEW r \in Req, Commit(r)
  PROVE  J!Next
<1>1. Trail' = Append(Trail, FieldsOf(r))
  BY CommitAppends
<1>2. /\ job[r].kind \in Kinds /\ job[r].date \in Dates /\ job[r].series \in Series
      /\ job[r].kind = "close" => job[r].series = closeSeries
  BY JobTypes DEF IInv
<1>3. CASE Posts(r)
  <2> DEFINE n == VoucherOf(r)
  <2>1. vers' = vers \cup {n}
    BY <1>3 DEF Commit
  <2>2. HoldsNumber(r)
    BY <1>3 DEF Commit, HoldsNumber, Logging
  <2>3. /\ n = [req |-> r, series |-> job[r].series, number |-> num[r], date |-> job[r].date]
        /\ n.req = r /\ n.series = job[r].series /\ n.number = num[r] /\ n.date = job[r].date
        /\ num[r] \in Nat
    BY DEF VoucherOf, IInv, TypeOK
  <2>4. \A w \in vers : w.number \in Nat
    BY DEF IInv, TypeOK, Voucher
  <2>5. num[r] >= 1 /\ (num[r] = 1 \/ \E w \in vers : w.series = n.series /\ w.number = num[r] - 1)
    BY <2>2, <2>3 DEF IInv, NumbersHeld
  <2>6. num[r] \in {1} \cup {w.number + 1 : w \in vers}
    BY <2>3, <2>4, <2>5
  <2>7. \A w \in vers : w.series = n.series => w.number < n.number
    <3>1. SUFFICES ASSUME NEW w \in vers, w.series = n.series, w.number >= n.number PROVE FALSE
      BY <2>3, <2>4
    <3>2. n.number \in 1 .. w.number
      BY <2>3, <2>4, <2>5, <3>1
    <3>3. \E x \in vers : x.series = n.series /\ x.number = n.number
      BY <3>1, <3>2 DEF IInv, SeriesGapFree
    <3> QED
      BY <2>2, <2>3, <3>3 DEF IInv, NumbersHeld
  <2>8. J!NumberedNext(n)
    BY <2>3, <2>5, <2>7 DEF J!NumberedNext
  <2>9. CASE job[r].kind \in {"post", "undo"}
    <3>1. locked' = locked /\ FieldsOf(r) = J!Entry(job[r].kind, n.req)
      BY <2>3, <2>9 DEF Commit, FieldsOf, Entry, J!Entry
    <3>2. J!Post(job[r].kind, n)
      BY <1>1, <2>1, <2>8, <3>1 DEF J!Post
    <3>3. J!Post("post", n) \/ J!Post("undo", n)
      BY <2>9, <3>2
    <3> QED
      BY <1>2, <2>3, <2>6, <3>3 DEF J!Next
  <2>10. CASE job[r].kind = "close"
    <3>1. locked' = n.date /\ FieldsOf(r) = J!Entry("close", n.req)
      BY <2>3, <2>10 DEF Commit, FieldsOf, Entry, J!Entry
    <3>2. J!CloseYear(n)
      BY <1>1, <1>2, <2>1, <2>3, <2>8, <2>10, <3>1 DEF J!CloseYear
    <3> QED
      BY <1>2, <2>3, <2>6, <3>2 DEF J!Next
  <2> QED
    BY <1>3, <2>9, <2>10 DEF Posts
<1>4. CASE ~Posts(r)
  <2>1. vers' = vers
    BY <1>4 DEF Commit
  <2>2. CASE job[r].kind = "lock"
    <3>1. locked' = job[r].date /\ FieldsOf(r) = J!Entry("lock", job[r].date)
      BY <2>2 DEF Commit, FieldsOf, Entry, J!Entry
    <3> QED
      BY <1>1, <1>2, <2>1, <3>1 DEF J!Next, J!SetLock
  <2>3. CASE job[r].kind = "unlock"
    <3>1. locked' = 0 /\ FieldsOf(r) = J!Entry("unlock", 0)
      BY <2>3 DEF Commit, FieldsOf, Entry, J!Entry
    <3> QED
      BY <1>1, <2>1, <3>1 DEF J!Next, J!SetLock
  <2>4. CASE job[r].kind = "note"
    <3>1. locked' = locked /\ FieldsOf(r) = J!Entry("note", 0)
      BY <2>4 DEF Commit, FieldsOf, Entry, J!Entry
    <3> QED
      BY <1>1, <2>1, <3>1 DEF J!Next, J!Note
  <2>5. CASE job[r].kind = "write"
    <3>1. locked' = locked /\ FieldsOf(r) = J!Entry("write", r)
      BY <2>5 DEF Commit, FieldsOf, Entry, J!Entry
    <3> QED
      BY <1>1, <2>1, <3>1 DEF J!Next, J!Note
  <2> QED
    BY <1>2, <1>4, <2>2, <2>3, <2>4, <2>5 DEF Posts, Kinds
<1> QED
  BY <1>3, <1>4

\* The store's write path implements the Journal: every commit is one of its
\* atomic steps, and every other statement leaves the Journal as it is.
THEOREM Refinement == Spec => ImplementsJournal
<1>1. ASSUME IInv, IInv', [Next]_vars PROVE [J!Next]_(J!jvars)
  <2>1. CASE UNCHANGED vars
    BY <2>1 DEF vars, local, tables, J!jvars, Trail
  <2>2. ASSUME NEW r \in Req, Step(r) \/ Rollback(r) PROVE [J!Next]_(J!jvars)
    <3>1. CASE Commit(r)
      BY <1>1, <3>1, CommitRefines
    <3>2. CASE Working(r)
      BY <3>2 DEF Working, J!jvars, Trail
    <3> QED
      BY <1>1, <2>2, <3>1, <3>2, StepFrame DEF IInv
  <2> QED
    BY <1>1, <2>1, <2>2 DEF Next, Quiet
<1> QED
  BY <1>1, RefinesInit, Invariance, PTL DEF Spec, ImplementsJournal, J!Spec
=============================================================================
