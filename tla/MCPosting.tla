----------------------------- MODULE MCPosting -----------------------------
(* Instances of Posting for TLC: three dates, a fiscal year that ends on 2. *)
EXTENDS Posting, TLC

MCDates == 1 .. 3
MCEndOf == [d \in MCDates |-> IF d <= 2 THEN 2 ELSE 3]

Ask(kind, series, date, lines) ==
  [kind |-> kind, series |-> series, date |-> date, lines |-> lines]

PostOn(d) == Ask("post", "A", d, "ok")
UndoOn(d) == Ask("undo", "R", d, "ok")
Close(d) == Ask("close", "O", d, "ok")
Lock(d) == Ask("lock", "A", d, "ok")
Unlock == Ask("unlock", "A", 1, "ok")
UserAction == Ask("note", "A", 1, "ok")
RowWrite == Ask("write", "A", 1, "ok")

\* Every kind of request, a hand-written voucher in the series of the bokslut, and
\* the refusals of postVerification.
MCJobs == {PostOn(1), PostOn(3), Ask("post", "A", 3, "invalid"), Ask("post", "A", 3, "unknown"),
           Ask("post", "O", 2, "ok"), UndoOn(2), Close(2), Lock(1), Lock(2), Unlock, UserAction, RowWrite}

\* Vouchers and closes only: series A and O, the same year.
MCLedgerJobs == {PostOn(1), PostOn(2), Close(2), Lock(1)}

\* A voucher or an undo against a lock of its day.
MCLockRaceJobs == {PostOn(1), UndoOn(1), Lock(1)}

Symmetry == Permutations(Req)
=============================================================================
