---------------------------- MODULE LogShipper ----------------------------
(***************************************************************************)
(* Shipping log records to Flare (internal/flarereport/logship.go).        *)
(*                                                                         *)
(* Any goroutine that logs runs Handle: a record at or above the level is  *)
(* admitted by the per-minute window, scrubbed, put on a bounded channel   *)
(* without ever waiting, and always written locally.  One goroutine (run)  *)
(* takes lines off the channel into a batch and posts the batch when it is *)
(* full or when its ticker fires; a post is never retried.  Nothing is     *)
(* flushed when the process stops.                                         *)
(***************************************************************************)
EXTENDS Integers, Sequences, FiniteSets

CONSTANTS Logger,      \* goroutines that log
          Shape,       \* what a record can look like: level, body, attributes
          Buffer,      \* logShipBuffer
          Batch,       \* logShipBatch
          MaxPerMin,   \* logShipMaxPerMin
          MaxRecords,  \* bound on the records of a behaviour
          MaxWindows   \* bound on the minutes of a behaviour

ASSUME ShipperAssumption ==
  /\ Buffer \in Nat \ {0} /\ Batch \in Nat \ {0} /\ MaxPerMin \in Nat \ {0}
  /\ MaxRecords \in Nat /\ MaxWindows \in Nat

VARIABLES
  up,        \* the process runs
  installed, \* the slog handler that tees to Flare is the default one
  logged,    \* records logged so far; they are numbered in that order
  call,      \* call[l]: where logger l is inside Handle
  window,    \* [count, expired, no]: the rate window, and its number
  offered,   \* records ship was called with
  dropped,   \* the counter of the same name
  accepted,  \* history: the lines in the order they entered the channel
  ch,        \* the channel
  batch,     \* run's batch
  post,      \* the batch being posted, <<>> when run is in its select
  flushed    \* history: the lines posted, in order

vars == <<up, installed, logged, call, window, offered, dropped, accepted, ch, batch, post,
          flushed>>

queue == <<accepted, ch, batch, post, flushed>>

\* What a string can hold: nothing secret, a secret in a shape scrubLogText
\* knows (URL userinfo, query parameter, bearer, assignment, PEM), or a secret
\* with no shape.
Value == {"plain", "credential", "opaque", "redacted"}

Key == {"plain", "sensitive", "trace_id"}

Attribute == [key : Key, value : Value]

Idle == [at |-> "idle"]

\* A record: at or above the level, with attributes over the limit or not.
Record == [level : BOOLEAN, body : Value, big : BOOLEAN, attrs : SUBSET Attribute]

ASSUME ShapeAssumption == Shape \subseteq Record

Line == [id : Nat, no : Nat, body : Value, attrs : SUBSET Attribute, trace : SUBSET Value]

Call == {Idle, [at |-> "next"]} \cup [at : {"enqueue"}, line : Line]

Init ==
  /\ up = TRUE
  /\ installed \in BOOLEAN
  /\ logged = 0
  /\ call = [l \in Logger |-> Idle]
  /\ window = [count |-> 0, expired |-> TRUE, no |-> 0]   \* windowStart is the zero time
  /\ offered = 0 /\ dropped = 0
  /\ accepted = <<>> /\ ch = <<>> /\ batch = <<>> /\ post = <<>> /\ flushed = <<>>

-----------------------------------------------------------------------------
\* Replaces every credential shape, and nothing else.
scrubLogText(v) == IF v = "credential" THEN "redacted" ELSE v

\* addAttr and the scrub of its value: by key first, then by shape.
addAttr(a) ==
  [a EXCEPT !.value = IF a.key = "sensitive" THEN "redacted" ELSE scrubLogText(@)]

\* The attributes of the shipped line: trace_id has a field of its own, shipped
\* as it is, and a document that cannot be marshalled or is over logShipMaxAttrs
\* is left out.
lineAttrs(r) ==
  IF r.big THEN {} ELSE {addAttr(a) : a \in {b \in r.attrs : b.key # "trace_id"}}

nativeLogLine(id, no, r) ==
  [id |-> id, no |-> no, body |-> scrubLogText(r.body), attrs |-> lineAttrs(r),
   trace |-> {a.value : a \in {b \in r.attrs : b.key = "trace_id"}}]

\* Fault: the count is not reset with the window, but the test comes first.
allowLate(w) ==
  IF w.count > MaxPerMin /\ ~w.expired THEN [ok |-> FALSE, window |-> w]
  ELSE [ok |-> TRUE,
        window |-> IF w.expired THEN [count |-> 1, expired |-> FALSE, no |-> w.no + 1]
                   ELSE [w EXCEPT !.count = @ + 1]]

\* allow(), under the mutex: a new window once a minute has passed, then the cap.
allow(w) ==
  LET cur == IF w.expired THEN [count |-> 0, expired |-> FALSE, no |-> w.no + 1] ELSE w
  IN  IF cur.count >= MaxPerMin THEN [ok |-> FALSE, window |-> cur]
      ELSE [ok |-> TRUE, window |-> [cur EXCEPT !.count = @ + 1]]

\* Handle: below the level, or without a shipper, the record is only written
\* locally; otherwise ship asks for admission.
Handle(l, r) ==
  /\ call[l] = Idle /\ logged < MaxRecords
  /\ logged' = logged + 1
  /\ LET id == logged + 1
     IN  IF r.level /\ installed
         THEN LET a == allow(window)
              IN  /\ window' = a.window
                  /\ offered' = offered + 1
                  /\ dropped' = IF a.ok THEN dropped ELSE dropped + 1
                  /\ call' = [call EXCEPT ![l] =
                       IF a.ok THEN [at |-> "enqueue", line |-> nativeLogLine(id, a.window.no, r)]
                       ELSE [at |-> "next"]]
         ELSE /\ call' = [call EXCEPT ![l] = [at |-> "next"]]
              /\ UNCHANGED <<window, offered, dropped>>
  /\ UNCHANGED <<up, installed, queue>>

\* Fault: the send waits for room.
enqueueWaits(l) ==
  /\ call[l].at = "enqueue" /\ Len(ch) < Buffer
  /\ ch' = Append(ch, call[l].line) /\ accepted' = Append(accepted, call[l].line)
  /\ call' = [call EXCEPT ![l] = [at |-> "next"]]
  /\ UNCHANGED <<up, installed, logged, window, offered, dropped, batch, post, flushed>>

\* Fault: a line that finds the channel full is not counted.
enqueueUncounted(l) ==
  /\ call[l].at = "enqueue"
  /\ IF Len(ch) < Buffer
     THEN ch' = Append(ch, call[l].line) /\ accepted' = Append(accepted, call[l].line)
     ELSE UNCHANGED <<ch, accepted>>
  /\ call' = [call EXCEPT ![l] = [at |-> "next"]]
  /\ UNCHANGED <<up, installed, logged, window, offered, dropped, batch, post, flushed>>

\* enqueue: select { case ch <- l: default: dropped++ }.
enqueue(l) ==
  /\ call[l].at = "enqueue"
  /\ IF Len(ch) < Buffer
     THEN /\ ch' = Append(ch, call[l].line) /\ accepted' = Append(accepted, call[l].line)
          /\ UNCHANGED dropped
     ELSE dropped' = dropped + 1 /\ UNCHANGED <<ch, accepted>>
  /\ call' = [call EXCEPT ![l] = [at |-> "next"]]
  /\ UNCHANGED <<up, installed, logged, window, offered, batch, post, flushed>>

\* h.next.Handle: the record always reaches the wrapped handler.
WriteLocally(l) ==
  /\ call[l].at = "next"
  /\ call' = [call EXCEPT ![l] = Idle]
  /\ UNCHANGED <<up, installed, logged, window, offered, dropped, queue>>

\* A minute has passed since windowStart.
MinutePasses ==
  /\ ~window.expired /\ window.no < MaxWindows
  /\ window' = [window EXCEPT !.expired = TRUE]
  /\ UNCHANGED <<up, installed, logged, call, offered, dropped, queue>>

\* Fault: the batch is not emptied when it is handed to the post.
flushKeeps(b) == post' = b /\ flushed' = flushed \o b /\ batch' = b

\* flush: marshal the batch, empty it, post it.
flush(b) == post' = b /\ flushed' = flushed \o b /\ batch' = <<>>

\* case l := <-s.ch.
runReceives ==
  /\ post = <<>> /\ ch # <<>>
  /\ ch' = Tail(ch)
  /\ LET b == Append(batch, Head(ch))
     IN  IF Len(b) >= Batch THEN flush(b) ELSE batch' = b /\ UNCHANGED <<post, flushed>>
  /\ UNCHANGED <<up, installed, logged, call, window, offered, dropped, accepted>>

\* Fault: the tick only flushes a full batch.
runTicksFull ==
  /\ post = <<>> /\ Len(batch) >= Batch
  /\ flush(batch)
  /\ UNCHANGED <<up, installed, logged, call, window, offered, dropped, accepted, ch>>

\* case <-t.C: an empty batch is not posted.
runTicks ==
  /\ post = <<>> /\ batch # <<>>
  /\ flush(batch)
  /\ UNCHANGED <<up, installed, logged, call, window, offered, dropped, accepted, ch>>

\* client.Do returns, within its timeout: Flare has the batch or not, and run
\* looks at neither the error nor the status.
postEnds ==
  /\ post # <<>>
  /\ post' = <<>>
  /\ UNCHANGED <<up, installed, logged, call, window, offered, dropped, accepted, ch, batch, flushed>>

\* The process stops; main flushes sentry, never the shipper.
Exit ==
  /\ up' = FALSE
  /\ UNCHANGED <<installed, logged, call, window, offered, dropped, queue>>

run == runReceives \/ runTicks \/ postEnds

Next ==
  /\ up
  /\ \/ \E l \in Logger, r \in Shape : Handle(l, r)
     \/ \E l \in Logger : enqueue(l) \/ WriteLocally(l)
     \/ MinutePasses
     \/ run
     \/ Exit

Spec == Init /\ [][Next]_vars

\* A goroutine inside Handle goes on; nothing at all is assumed of run or Flare.
FairSpec == Spec /\ \A l \in Logger : WF_vars(up /\ (enqueue(l) \/ WriteLocally(l)))

\* run is scheduled, a post ends (the client has a timeout), and a case of the
\* select that is ready again and again is chosen some time.
RunGoesOn ==
  WF_vars(up /\ postEnds) /\ SF_vars(up /\ runReceives) /\ SF_vars(up /\ runTicks)

-----------------------------------------------------------------------------
\* The channel and the batch stay within their sizes, and every variable holds
\* values of its kind.
TypeOK ==
  /\ up \in BOOLEAN /\ installed \in BOOLEAN
  /\ logged \in 0..MaxRecords /\ offered \in 0..logged /\ dropped \in 0..offered
  /\ window \in [count : Nat, expired : BOOLEAN, no : Nat]
  /\ call \in [Logger -> Call]
  /\ accepted \in Seq(Line) /\ ch \in Seq(Line)
  /\ batch \in Seq(Line) /\ post \in Seq(Line) /\ flushed \in Seq(Line)
  /\ Len(ch) <= Buffer /\ Len(batch) < Batch /\ Len(post) <= Batch

\* Lines in flight between ship's admission and the channel.
InHandle == {l \in Logger : call[l].at = "enqueue"}

\* Every record ship was called with is counted once: dropped, on its way to the
\* channel, or accepted by it (allow and enqueue of concurrent loggers).
EveryRecordCounted == offered = dropped + Cardinality(InHandle) + Len(accepted)

\* Lines are posted in the order they entered the channel, each at most once and
\* none skipped, whatever fails on the way (run and its reused batch).
PostedInOrder ==
  /\ flushed \o batch \o ch = accepted
  /\ \A i, j \in 1..Len(accepted) : accepted[i].id = accepted[j].id => i = j

\* No minute ships more than the cap, although the window is reset by whichever
\* logger comes first and lines enter the channel later (allow).
CapPerWindow ==
  \A n \in 0..window.no :
    Cardinality({i \in 1..Len(accepted) : accepted[i].no = n}) <= MaxPerMin

\* A line is scrubbed before it leaves its goroutine.
Clean(line) ==
  /\ line.body # "credential"
  /\ \A a \in line.attrs : a.value # "credential" /\ (a.key = "sensitive" => a.value = "redacted")

\* Nothing credential-shaped and nothing under a sensitive key leaves the
\* process, in the message or in an attribute (the egress scrub of ship; the
\* trace id is not scrubbed).
NothingSecretShips == \A i \in 1..Len(accepted) : Clean(accepted[i])

\* Logging never stalls the app: a goroutine inside Handle leaves it, however
\* long Flare takes, however full the channel is, and even if run never moves again.
LoggingNeverStalls == \A l \in Logger : call[l] # Idle ~> (call[l] = Idle \/ ~up)

\* A line the channel took is posted, unless the process stops first: a batch
\* that never fills does not wait for ever.
AcceptedIsPosted ==
  RunGoesOn =>
    \A n \in 1..MaxRecords :
      (\E i \in 1..Len(accepted) : accepted[i].id = n) ~>
        ((\E i \in 1..Len(flushed) : flushed[i].id = n) \/ ~up)

\* The queue is sound under concurrent loggers: bounded at every place, and no
\* record lost without being counted as dropped.
QueueSound == TypeOK /\ EveryRecordCounted

\* What leaves the process is limited in number and free of secrets, for any
\* shape of record and any race for the window.
ShippedSafely == CapPerWindow /\ NothingSecretShips
-----------------------------------------------------------------------------
(* The inductive invariant behind QueueSound, PostedInOrder and            *)
(* ShippedSafely.                                                          *)

\* The records admitted and not yet dropped are all different.
IdsHeld ==
  /\ \A l \in InHandle :
       /\ call[l].line.id <= logged
       /\ \A m \in InHandle : call[l].line.id = call[m].line.id => l = m
       /\ \A i \in 1..Len(accepted) : call[l].line.id # accepted[i].id
  /\ \A i \in 1..Len(accepted) : accepted[i].id <= logged

\* The lines of window n that entered the channel, and those that may.
Took(n) == {i \in 1..Len(accepted) : accepted[i].no = n}
Waits(n) == {l \in InHandle : call[l].line.no = n}

\* What the windows so far have admitted of window n.
Admitted(w, n) == IF n < w.no THEN MaxPerMin ELSE IF n = w.no THEN w.count ELSE 0

\* A line counts for the window that admitted it, however late it is enqueued.
WindowHeld ==
  /\ window.count <= MaxPerMin
  /\ \A i \in 1..Len(accepted) : accepted[i].no <= window.no
  /\ \A l \in InHandle : call[l].line.no <= window.no
  /\ \A n \in 0..window.no : Cardinality(Took(n)) + Cardinality(Waits(n)) <= Admitted(window, n)

ShipperInv ==
  /\ TypeOK /\ IsFiniteSet(InHandle) /\ EveryRecordCounted /\ PostedInOrder /\ IdsHeld
  /\ WindowHeld /\ NothingSecretShips /\ \A l \in InHandle : Clean(call[l].line)
=============================================================================
