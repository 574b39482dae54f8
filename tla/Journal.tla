------------------------------ MODULE Journal ------------------------------
(***************************************************************************)
(* What the books of one company promise, with every write one atomic step *)
(* (the store's statements, row locks and rollbacks are in Posting):       *)
(*                                                                         *)
(*   book    the posted verifications, numbered 1, 2, 3, ... per series    *)
(*   locked  the period lock: 0 is NULL, d closes every date up to d       *)
(*   trail   the audit trail: one entry per write, in the order of writes  *)
(*                                                                         *)
(* A voucher enters the book together with its entry in the trail, under   *)
(* the next number of its series, or not at all; a year is closed at most  *)
(* once; the lock never moves without an entry.                            *)
(***************************************************************************)
EXTENDS Integers, Sequences

CONSTANTS Req,          \* one id per write request; it names what the write creates
          Series,       \* verification series ("A", "F", "B", ...)
          closeSeries,  \* the series of the bokslut vouchers ("O")
          Dates         \* the dates a voucher can bear

VARIABLES book, locked, trail

jvars == <<book, locked, trail>>

Entry(action, target) == [action |-> action, target |-> target]

\* The voucher v carries the number that follows its series' last one.
NumberedNext(v) ==
  /\ \A w \in book : w.series = v.series => w.number < v.number
  /\ \/ v.number = 1
     \/ \E w \in book : w.series = v.series /\ w.number = v.number - 1

Init == book = {} /\ locked = 0 /\ trail = << >>

Post(action, v) ==
  /\ NumberedNext(v)
  /\ book' = book \cup {v}
  /\ trail' = Append(trail, Entry(action, v.req))
  /\ UNCHANGED locked

CloseYear(v) ==
  /\ v.series = closeSeries
  /\ NumberedNext(v)
  /\ book' = book \cup {v}
  /\ locked' = v.date
  /\ trail' = Append(trail, Entry("close", v.req))

SetLock(action, d) ==
  /\ locked' = d
  /\ trail' = Append(trail, Entry(action, d))
  /\ UNCHANGED book

\* A write outside the ledger that only leaves its entry (LogUserAction, ...).
Note(action, target) ==
  /\ trail' = Append(trail, Entry(action, target))
  /\ UNCHANGED <<book, locked>>

Next ==
  \/ \E r \in Req, s \in Series, d \in Dates :
       \E n \in {1} \cup {w.number + 1 : w \in book} :
         LET v == [req |-> r, series |-> s, number |-> n, date |-> d]
         IN  Post("post", v) \/ Post("undo", v) \/ CloseYear(v)
  \/ \E d \in Dates : SetLock("lock", d)
  \/ SetLock("unlock", 0)
  \/ \E r \in Req : Note("write", r)
  \/ Note("note", 0)

Spec == Init /\ [][Next]_jvars
=============================================================================
