-------------------------- MODULE LogShipperProofs --------------------------
(***************************************************************************)
(* Proofs about LogShipper, for any loggers and shapes of records and any  *)
(* sizes of the buffer, the batch and the window.                          *)
(***************************************************************************)
EXTENDS LogShipper, FiniteSetTheorems, SequenceTheorems, TLAPS

\* Moving the head of one sequence to the end of another keeps their concatenation.
LEMMA TakeHead ==
  ASSUME NEW S, NEW b \in Seq(S), NEW c \in Seq(S), c # <<>>
  PROVE  Append(b, Head(c)) \in Seq(S) /\ Append(b, Head(c)) \o Tail(c) = b \o c
<1>1. Head(c) \in S /\ Tail(c) \in Seq(S) /\ Head(c) = c[1] /\ Len(c) \in Nat \ {0}
  BY HeadTailProperties, EmptySeq
<1>2. Append(b, Head(c)) = b \o <<Head(c)>> /\ Append(b, Head(c)) \in Seq(S)
  BY <1>1, AppendIsConcat, AppendProperties
<1>3. <<Head(c)>> \in Seq(S) /\ <<Head(c)>> \o Tail(c) \in Seq(S)
  BY <1>1, ConcatProperties
<1>4. <<Head(c)>> \o Tail(c) = c
  <2>1. Len(<<Head(c)>> \o Tail(c)) = Len(c)
    BY <1>1, <1>3, ConcatProperties, HeadTailProperties
  <2>2. \A i \in 1..Len(c) : (<<Head(c)>> \o Tail(c))[i] = c[i]
    BY <1>1, <1>3, ConcatProperties, HeadTailProperties
  <2> QED
    BY <1>3, <2>1, <2>2, SeqEqual
<1> QED
  BY <1>1, <1>2, <1>3, <1>4, ConcatAssociative

\* Concatenation of lines is associative.
LEMMA LinesAssociative == \A s, t, u \in Seq(Line) : (s \o t) \o u = s \o (t \o u)
  BY ConcatAssociative

\* What allow admits, it counts, and a window never counts more than the cap.
LEMMA AllowCounts ==
  ASSUME NEW w \in [count : Nat, expired : BOOLEAN, no : Nat], w.count <= MaxPerMin
  PROVE  LET a == allow(w)
         IN  /\ a.window \in [count : Nat, expired : BOOLEAN, no : Nat]
             /\ a.window.count <= MaxPerMin /\ w.no <= a.window.no
             /\ a.ok \in BOOLEAN
             /\ \A n \in Nat : Admitted(w, n) + (IF a.ok /\ n = a.window.no THEN 1 ELSE 0)
                                 <= Admitted(a.window, n)
<1> DEFINE cur == IF w.expired THEN [count |-> 0, expired |-> FALSE, no |-> w.no + 1] ELSE w
<1>1. cur \in [count : Nat, expired : BOOLEAN, no : Nat] /\ cur.count <= MaxPerMin /\ w.no <= cur.no
  BY ShipperAssumption
<1>2. \A n \in Nat : Admitted(w, n) <= Admitted(cur, n)
  BY <1>1, ShipperAssumption DEF Admitted
<1>3. allow(w) = IF cur.count >= MaxPerMin THEN [ok |-> FALSE, window |-> cur]
                 ELSE [ok |-> TRUE, window |-> [cur EXCEPT !.count = @ + 1]]
  BY DEF allow
<1> HIDE DEF cur
<1>4. CASE cur.count >= MaxPerMin
  <2>1. allow(w).ok = FALSE /\ allow(w).window = cur
    BY <1>3, <1>4
  <2>2. \A n \in Nat : Admitted(w, n) \in Nat
    BY ShipperAssumption DEF Admitted
  <2>3. \A n \in Nat : Admitted(w, n) + (IF allow(w).ok /\ n = allow(w).window.no THEN 1 ELSE 0)
                          <= Admitted(allow(w).window, n)
    BY <1>2, <2>1, <2>2
  <2>4. allow(w).ok \in BOOLEAN /\ allow(w).window = cur
    BY <2>1
  <2> QED
    BY <1>1, <2>3, <2>4
<1>5. CASE ~(cur.count >= MaxPerMin)
  <2> DEFINE new == [cur EXCEPT !.count = @ + 1]
  <2>1. /\ new \in [count : Nat, expired : BOOLEAN, no : Nat] /\ new.no = cur.no
        /\ new.count = cur.count + 1 /\ new.count <= MaxPerMin
    BY <1>1, <1>5, ShipperAssumption
  <2>2. allow(w).ok = TRUE /\ allow(w).window = new
    BY <1>3, <1>5
  <2> HIDE DEF new
  <2>3. \A n \in Nat : Admitted(cur, n) + (IF n = new.no THEN 1 ELSE 0) <= Admitted(new, n)
    BY <1>1, <2>1, ShipperAssumption DEF Admitted
  <2>4. \A n \in Nat : Admitted(w, n) \in Nat /\ Admitted(cur, n) \in Nat /\ Admitted(new, n) \in Nat
    BY <1>1, <2>1, ShipperAssumption DEF Admitted
  <2>5. \A n \in Nat : Admitted(w, n) + (IF n = new.no THEN 1 ELSE 0) <= Admitted(new, n)
    BY <1>2, <2>3, <2>4
  <2> QED
    BY <1>1, <2>1, <2>2, <2>5
<1> QED
  BY <1>4, <1>5

\* The egress scrub: a line is a line, and clean.
LEMMA LineIsClean ==
  ASSUME NEW n \in Nat, NEW w \in Nat, NEW r \in Record
  PROVE  /\ nativeLogLine(n, w, r) \in Line /\ Clean(nativeLogLine(n, w, r))
         /\ nativeLogLine(n, w, r).id = n /\ nativeLogLine(n, w, r).no = w
<1>1. \A a \in Attribute : addAttr(a) \in Attribute /\ addAttr(a).key = a.key
                           /\ addAttr(a).value # "credential"
                           /\ (a.key = "sensitive" => addAttr(a).value = "redacted")
  BY DEF addAttr, scrubLogText, Attribute, Value, Key
<1>2. /\ lineAttrs(r) \subseteq Attribute
      /\ \A a \in lineAttrs(r) : a.value # "credential" /\ (a.key = "sensitive" => a.value = "redacted")
  BY <1>1 DEF lineAttrs, Record
<1>3. scrubLogText(r.body) \in Value /\ scrubLogText(r.body) # "credential"
  BY DEF scrubLogText, Record, Value
<1>4. {a.value : a \in {b \in r.attrs : b.key = "trace_id"}} \in SUBSET Value
  BY DEF Record, Attribute
<1> QED
  BY <1>2, <1>3, <1>4 DEF nativeLogLine, Line, Clean

\* A logger past admission holds a line.
LEMMA InHandleType ==
  ASSUME TypeOK
  PROVE  /\ InHandle \subseteq Logger
         /\ \A l \in InHandle : call[l].line \in Line /\ call[l].line.id \in Nat /\ call[l].line.no \in Nat
         /\ \A i \in 1..Len(accepted) :
              accepted[i] \in Line /\ accepted[i].id \in Nat /\ accepted[i].no \in Nat
         /\ Len(accepted) \in Nat /\ MaxPerMin \in Nat /\ logged \in Nat /\ offered \in Nat /\ dropped \in Nat
<1>1. InHandle \subseteq Logger
  BY DEF InHandle
<1>2. \A l \in InHandle : call[l].line \in Line
  BY DEF InHandle, TypeOK, Call, Idle
<1>3. \A i \in 1..Len(accepted) : accepted[i] \in Line
  BY ElementOfSeq DEF TypeOK
<1>4. Len(accepted) \in Nat
  BY LenProperties DEF TypeOK
<1>5. MaxPerMin \in Nat /\ logged \in Nat /\ offered \in Nat /\ dropped \in Nat
  BY ShipperAssumption DEF TypeOK
<1> QED
  BY <1>1, <1>2, <1>3, <1>4, <1>5 DEF Line

\* The lines counted for a window are finitely many.
LEMMA WindowFinite ==
  ASSUME TypeOK, IsFiniteSet(InHandle), NEW n
  PROVE  /\ IsFiniteSet(Took(n)) /\ Cardinality(Took(n)) \in Nat
         /\ IsFiniteSet(Waits(n)) /\ Cardinality(Waits(n)) \in Nat
<1>1. IsFiniteSet(1..Len(accepted))
  BY InHandleType, FS_Interval
<1>2. Took(n) \in SUBSET (1..Len(accepted)) /\ Waits(n) \in SUBSET InHandle
  BY DEF Took, Waits
<1> QED
  BY <1>1, <1>2, FS_Subset, FS_CardinalityType

\* WindowHeld for every n: a window that has not begun has admitted nothing.
LEMMA WindowOfAny ==
  ASSUME TypeOK, IsFiniteSet(InHandle), WindowHeld, NEW n \in Nat
  PROVE  Cardinality(Took(n)) + Cardinality(Waits(n)) <= Admitted(window, n)
<1>1. CASE n \in 0..window.no
  BY <1>1 DEF WindowHeld
<1>2. CASE n > window.no
  <2>1. Took(n) = {} /\ Waits(n) = {}
    BY <1>2, InHandleType DEF WindowHeld, Took, Waits, TypeOK
  <2>2. Admitted(window, n) = 0
    BY <1>2 DEF Admitted, TypeOK
  <2> QED
    BY <2>1, <2>2, FS_EmptySet
<1> QED
  BY <1>1, <1>2 DEF TypeOK

\* The parts of the invariant that speak of admitted lines.
Held == IsFiniteSet(InHandle) /\ IdsHeld /\ WindowHeld /\ NothingSecretShips
        /\ \A l \in InHandle : Clean(call[l].line)

\* A step that admits, drops and takes no line.
LEMMA AdmissionKept ==
  ASSUME TypeOK, Held, UNCHANGED accepted, logged' \in Nat, logged <= logged',
         window' \in [count : Nat, expired : BOOLEAN, no : Nat], window'.count <= MaxPerMin,
         window.no <= window'.no,
         \A n \in Nat : Admitted(window, n) <= Admitted(window', n),
         \A l \in Logger : call[l].at = "enqueue" \/ call'[l].at = "enqueue" => call'[l] = call[l]
  PROVE  Held' /\ InHandle' = InHandle
<1>1. InHandle' = InHandle /\ \A l \in InHandle : call'[l] = call[l]
  BY DEF InHandle
<1>2. IdsHeld'
  <2>1. \A i \in 1..Len(accepted) : accepted[i].id <= logged'
    BY InHandleType DEF Held, IdsHeld
  <2>2. \A l \in InHandle : call[l].line.id <= logged'
    BY InHandleType DEF Held, IdsHeld
  <2>3. \A l \in InHandle :
          /\ \A m \in InHandle : call[l].line.id = call[m].line.id => l = m
          /\ \A i \in 1..Len(accepted) : call[l].line.id # accepted[i].id
    BY DEF Held, IdsHeld
  <2> QED
    BY <1>1, <2>1, <2>2, <2>3 DEF IdsHeld
<1>3. \A n : Took(n)' = Took(n) /\ Waits(n)' = Waits(n)
  BY <1>1 DEF Took, Waits
<1>4. \A n \in Nat : Cardinality(Took(n)) + Cardinality(Waits(n)) <= Admitted(window', n)
  <2> SUFFICES ASSUME NEW n \in Nat
               PROVE  Cardinality(Took(n)) + Cardinality(Waits(n)) <= Admitted(window', n)
    OBVIOUS
  <2>1. Admitted(window, n) \in Nat /\ Admitted(window', n) \in Nat
    BY InHandleType DEF Admitted, TypeOK
  <2> QED
    BY <2>1, WindowOfAny, WindowFinite DEF Held
<1>5. WindowHeld'
  <2>1. \A n \in 0..window'.no : n \in Nat
    OBVIOUS
  <2>2. \A i \in 1..Len(accepted) : accepted[i].no <= window'.no
    BY InHandleType DEF Held, WindowHeld, TypeOK
  <2>3. \A l \in InHandle : call[l].line.no <= window'.no
    BY InHandleType DEF Held, WindowHeld, TypeOK
  <2>4. \A n \in 0..window'.no : Cardinality(Took(n)') + Cardinality(Waits(n)') <= Admitted(window', n)
    BY <1>3, <1>4, <2>1
  <2> QED
    BY <1>1, <2>2, <2>3, <2>4 DEF WindowHeld, Admitted
<1>6. NothingSecretShips' /\ \A l \in InHandle' : Clean(call'[l].line)
  BY <1>1 DEF Held, NothingSecretShips, Clean
<1> QED
  BY <1>1, <1>2, <1>5, <1>6 DEF Held, Clean

\* allow has admitted the record of logger l (Handle).
LEMMA AdmissionGrows ==
  ASSUME TypeOK, Held, UNCHANGED accepted, NEW l \in Logger, NEW line \in Line,
         call[l] = Idle, call' = [call EXCEPT ![l] = [at |-> "enqueue", line |-> line]],
         logged' = logged + 1, line.id = logged + 1, Clean(line), line.no = window'.no,
         window' \in [count : Nat, expired : BOOLEAN, no : Nat], window'.count <= MaxPerMin,
         window.no <= window'.no,
         \A n \in Nat : Admitted(window, n) + (IF n = window'.no THEN 1 ELSE 0)
                          <= Admitted(window', n)
  PROVE  /\ Held' /\ Cardinality(InHandle') = Cardinality(InHandle) + 1
         /\ call' \in [Logger -> Call]
<1> DEFINE mine == [at |-> "enqueue", line |-> line]
<1>0. mine \in Call /\ mine.line = line /\ mine.at = "enqueue"
  BY DEF Call
<1> HIDE DEF mine
<1>1. /\ call' \in [Logger -> Call] /\ call'[l] = mine
      /\ \A m \in Logger : m # l => call'[m] = call[m]
  BY <1>0 DEF TypeOK, mine
<1>2. InHandle' = InHandle \cup {l} /\ l \notin InHandle
  BY <1>0, <1>1 DEF InHandle, Idle
<1>3. IsFiniteSet(InHandle') /\ Cardinality(InHandle') = Cardinality(InHandle) + 1
  BY <1>2, FS_AddElement DEF Held
<1>4. \A m \in InHandle : call'[m].line = call[m].line /\ m # l
  BY <1>1, <1>2, InHandleType
<1>5. IdsHeld'
  <2>1. \A i \in 1..Len(accepted) : accepted[i].id <= logged' /\ accepted[i].id # line.id
    BY InHandleType DEF Held, IdsHeld
  <2>2. \A m \in InHandle : call[m].line.id <= logged' /\ call[m].line.id # line.id
    BY InHandleType DEF Held, IdsHeld
  <2>3. \A m \in InHandle :
          /\ \A k \in InHandle : call[m].line.id = call[k].line.id => m = k
          /\ \A i \in 1..Len(accepted) : call[m].line.id # accepted[i].id
    BY DEF Held, IdsHeld
  <2>4. line.id <= logged'
    BY InHandleType
  <2> QED
    BY <1>0, <1>1, <1>2, <1>4, <2>1, <2>2, <2>3, <2>4 DEF IdsHeld
<1>6. \A n \in Nat : Cardinality(Took(n)') + Cardinality(Waits(n)') <= Admitted(window', n)
  <2> SUFFICES ASSUME NEW n \in Nat
               PROVE  Cardinality(Took(n)') + Cardinality(Waits(n)') <= Admitted(window', n)
    OBVIOUS
  <2>1. Took(n)' = Took(n)
    BY DEF Took
  <2>2. Waits(n)' = IF n = window'.no THEN Waits(n) \cup {l} ELSE Waits(n)
    BY <1>0, <1>1, <1>2, <1>4 DEF Waits
  <2>3. l \notin Waits(n)
    BY <1>2 DEF Waits
  <2>4. Cardinality(Waits(n)') = Cardinality(Waits(n)) + (IF n = window'.no THEN 1 ELSE 0)
    <3>1. IsFiniteSet(Waits(n)) /\ Cardinality(Waits(n)) \in Nat
      BY WindowFinite DEF Held
    <3>2. CASE n = window'.no
      BY <2>2, <2>3, <3>1, <3>2, FS_AddElement
    <3>3. CASE n # window'.no
      BY <2>2, <3>1, <3>3
    <3> QED
      BY <3>2, <3>3
  <2>5. Admitted(window, n) \in Nat /\ Admitted(window', n) \in Nat
    BY InHandleType DEF Admitted, TypeOK
  <2>6. Cardinality(Took(n)) \in Nat /\ Cardinality(Waits(n)) \in Nat
        /\ Cardinality(Took(n)) + Cardinality(Waits(n)) <= Admitted(window, n)
    BY WindowOfAny, WindowFinite DEF Held
  <2> QED
    BY <2>1, <2>4, <2>5, <2>6
<1>7. WindowHeld'
  <2>1. \A i \in 1..Len(accepted) : accepted[i].no <= window'.no
    BY InHandleType DEF Held, WindowHeld, TypeOK
  <2>2. \A m \in InHandle : call[m].line.no <= window'.no
    BY InHandleType DEF Held, WindowHeld, TypeOK
  <2>3. \A m \in InHandle' : call'[m].line.no <= window'.no
    BY <1>0, <1>1, <1>2, <1>4, <2>2
  <2>4. \A n \in 0..window'.no : n \in Nat
    OBVIOUS
  <2>5. \A n \in 0..window'.no : Cardinality(Took(n)') + Cardinality(Waits(n)') <= Admitted(window', n)
    BY <1>6, <2>4
  <2> QED
    BY <2>1, <2>3, <2>5 DEF WindowHeld, Admitted
<1>8. NothingSecretShips' /\ \A m \in InHandle' : Clean(call'[m].line)
  BY <1>0, <1>1, <1>2, <1>4 DEF Held, NothingSecretShips, Clean
<1> QED
  BY <1>1, <1>3, <1>5, <1>7, <1>8 DEF Held, Clean

\* Logger l leaves enqueue; its line has entered the channel or been dropped.
LEMMA AdmissionLeaves ==
  ASSUME TypeOK, Held, NEW l \in Logger, call[l].at = "enqueue",
         call' = [call EXCEPT ![l] = [at |-> "next"]], UNCHANGED <<logged, window>>,
         \/ accepted' = accepted
         \/ accepted' = Append(accepted, call[l].line)
  PROVE  /\ Held' /\ Cardinality(InHandle') = Cardinality(InHandle) - 1
         /\ Cardinality(InHandle) \in Nat /\ call' \in [Logger -> Call]
<1>1. /\ call' \in [Logger -> Call] /\ call'[l].at = "next"
      /\ \A m \in Logger : m # l => call'[m] = call[m]
  BY DEF TypeOK, Call
<1>2. InHandle' = InHandle \ {l} /\ l \in InHandle
  BY <1>1 DEF InHandle
<1>3. /\ IsFiniteSet(InHandle') /\ Cardinality(InHandle') = Cardinality(InHandle) - 1
      /\ Cardinality(InHandle) \in Nat
  BY <1>2, FS_RemoveElement, FS_CardinalityType DEF Held
<1>4. \A m \in InHandle' : call'[m] = call[m] /\ m \in InHandle /\ m # l
  BY <1>1, <1>2, InHandleType
<1> DEFINE line == call[l].line
<1>5. line \in Line /\ line.id <= logged /\ line.no <= window.no /\ Clean(line)
  BY <1>2, InHandleType DEF Held, IdsHeld, WindowHeld
<1>6. \/ Len(accepted') = Len(accepted) /\ \A i \in 1..Len(accepted) : accepted'[i] = accepted[i]
      \/ /\ Len(accepted') = Len(accepted) + 1 /\ accepted'[Len(accepted) + 1] = line
         /\ \A i \in 1..Len(accepted) : accepted'[i] = accepted[i]
  <2>1. CASE accepted' = accepted
    BY <2>1
  <2>2. CASE accepted' = Append(accepted, line)
    BY <1>5, <2>2, AppendProperties DEF TypeOK
  <2> QED
    BY <2>1, <2>2
<1>7. \A i \in 1..Len(accepted') :
        \/ i \in 1..Len(accepted) /\ accepted'[i] = accepted[i]
        \/ accepted'[i] = line
  BY <1>6, InHandleType
<1>8. IdsHeld'
  <2>1. \A i \in 1..Len(accepted') : accepted'[i].id <= logged
    BY <1>5, <1>7 DEF Held, IdsHeld
  <2>2. \A m \in InHandle' :
          /\ call[m].line.id <= logged /\ call[m].line.id # line.id
          /\ \A k \in InHandle' : call[m].line.id = call[k].line.id => m = k
          /\ \A i \in 1..Len(accepted) : call[m].line.id # accepted[i].id
    BY <1>2, <1>4 DEF Held, IdsHeld
  <2>3. \A m \in InHandle', i \in 1..Len(accepted') : call[m].line.id # accepted'[i].id
    BY <1>7, <2>2
  <2> QED
    BY <1>4, <2>1, <2>2, <2>3 DEF IdsHeld
<1>9. ASSUME NEW n \in 0..window.no
      PROVE  Cardinality(Took(n)') + Cardinality(Waits(n)') <= Admitted(window, n)
  <2>0. /\ IsFiniteSet(Took(n)) /\ Cardinality(Took(n)) \in Nat
        /\ IsFiniteSet(Waits(n)) /\ Cardinality(Waits(n)) \in Nat
        /\ Cardinality(Took(n)) + Cardinality(Waits(n)) <= Admitted(window, n)
    BY <1>9, WindowFinite DEF Held, WindowHeld
  <2>1. Waits(n)' = Waits(n) \ {l} /\ (l \in Waits(n) <=> line.no = n)
    BY <1>2, <1>4 DEF Waits
  <2>2. Cardinality(Waits(n)') = Cardinality(Waits(n)) - (IF line.no = n THEN 1 ELSE 0)
    <3>1. Cardinality(Waits(n)') = IF l \in Waits(n) THEN Cardinality(Waits(n)) - 1
                                   ELSE Cardinality(Waits(n))
      BY <2>0, <2>1, FS_RemoveElement
    <3> QED
      BY <2>0, <2>1, <3>1
  <2>3. Admitted(window, n) \in Nat
    BY InHandleType DEF Admitted, TypeOK
  <2>4. CASE Len(accepted') = Len(accepted) /\ \A i \in 1..Len(accepted) : accepted'[i] = accepted[i]
    <3>1. Took(n)' = Took(n)
      BY <2>4 DEF Took
    <3> QED
      BY <2>0, <2>2, <2>3, <3>1
  <2>5. CASE /\ Len(accepted') = Len(accepted) + 1 /\ accepted'[Len(accepted) + 1] = line
             /\ \A i \in 1..Len(accepted) : accepted'[i] = accepted[i]
    <3>1. 1..(Len(accepted) + 1) = 1..Len(accepted) \cup {Len(accepted) + 1}
          /\ Len(accepted) + 1 \notin 1..Len(accepted)
      BY InHandleType
    <3>2. Took(n)' = IF line.no = n THEN Took(n) \cup {Len(accepted) + 1} ELSE Took(n)
      BY <2>5, <3>1 DEF Took
    <3>3. Len(accepted) + 1 \notin Took(n)
      BY <3>1 DEF Took
    <3>4. Cardinality(Took(n)') = Cardinality(Took(n)) + (IF line.no = n THEN 1 ELSE 0)
      <4>1. CASE line.no = n
        BY <2>0, <3>2, <3>3, <4>1, FS_AddElement
      <4>2. CASE line.no # n
        BY <2>0, <3>2, <4>2
      <4> QED
        BY <4>1, <4>2
    <3> QED
      BY <2>0, <2>2, <2>3, <3>4
  <2> QED
    BY <1>6, <2>4, <2>5
<1>10. WindowHeld'
  <2>1. \A i \in 1..Len(accepted') : accepted'[i].no <= window.no
    BY <1>5, <1>7 DEF Held, WindowHeld
  <2>2. \A m \in InHandle' : call'[m].line.no <= window.no
    BY <1>4 DEF Held, WindowHeld
  <2> QED
    BY <1>9, <2>1, <2>2 DEF Held, WindowHeld, Admitted
<1>11. NothingSecretShips' /\ \A m \in InHandle' : Clean(call'[m].line)
  BY <1>4, <1>5, <1>7 DEF Held, NothingSecretShips, Clean
<1> QED
  BY <1>1, <1>3, <1>8, <1>10, <1>11 DEF Held, Clean

\* The first part of PostedInOrder.
LinesInOrder == flushed \o batch \o ch = accepted

\* The parts of the invariant together.
LEMMA PartsOfInv ==
  ShipperInv <=> TypeOK /\ Held /\ EveryRecordCounted /\ LinesInOrder
                 /\ \A i, j \in 1..Len(accepted) : accepted[i].id = accepted[j].id => i = j
  BY DEF ShipperInv, Held, PostedInOrder, LinesInOrder

\* A step that leaves the channel, the batch and the counters of lines alone.
LEMMA QueueKept ==
  ASSUME ShipperInv, UNCHANGED <<queue, up, installed>>, Held', TypeOK', EveryRecordCounted'
  PROVE  ShipperInv'
<1>1. LinesInOrder' /\ \A i, j \in 1..Len(accepted') : accepted'[i].id = accepted'[j].id => i = j
  BY PartsOfInv DEF queue, LinesInOrder
<1> QED
  BY <1>1 DEF ShipperInv, Held, PostedInOrder, LinesInOrder

\* A step of run: lines move on in order, nothing is admitted.
LEMMA RunStep ==
  ASSUME ShipperInv, UNCHANGED <<up, installed, logged, call, window, offered, dropped, accepted>>,
         ch' \in Seq(Line), batch' \in Seq(Line), post' \in Seq(Line), flushed' \in Seq(Line),
         Len(ch') <= Buffer, Len(batch') < Batch, Len(post') <= Batch, LinesInOrder'
  PROVE  ShipperInv'
<1>0. TypeOK /\ Held /\ EveryRecordCounted
  BY PartsOfInv
<1>1. TypeOK'
  BY <1>0 DEF TypeOK
<1>2. /\ logged' \in Nat /\ logged <= logged' /\ window' \in [count : Nat, expired : BOOLEAN, no : Nat]
      /\ window'.count <= MaxPerMin /\ window.no <= window'.no
      /\ \A n \in Nat : Admitted(window, n) \in Nat
  BY <1>0, InHandleType DEF TypeOK, Held, WindowHeld, Admitted
<1>3. \A n \in Nat : Admitted(window, n) <= Admitted(window', n)
  BY <1>2
<1>4. Held' /\ InHandle' = InHandle
  BY <1>0, <1>2, <1>3, AdmissionKept
<1>5. EveryRecordCounted'
  BY <1>0, <1>4 DEF EveryRecordCounted
<1>6. \A i, j \in 1..Len(accepted') : accepted'[i].id = accepted'[j].id => i = j
  BY PartsOfInv
<1> QED
  BY <1>1, <1>4, <1>5, <1>6 DEF ShipperInv, Held, PostedInOrder, LinesInOrder

\* A step of a logger that admits nothing.
LEMMA LoggerStep ==
  ASSUME ShipperInv, UNCHANGED queue, call' \in [Logger -> Call], up' \in BOOLEAN,
         UNCHANGED installed, logged' \in 0..MaxRecords, logged <= logged',
         window' \in [count : Nat, expired : BOOLEAN, no : Nat], window'.count <= MaxPerMin,
         window.no <= window'.no,
         \A n \in Nat : Admitted(window, n) <= Admitted(window', n),
         \A l \in Logger : call[l].at = "enqueue" \/ call'[l].at = "enqueue" => call'[l] = call[l],
         \/ UNCHANGED <<offered, dropped>>
         \/ offered' = offered + 1 /\ dropped' = dropped + 1 /\ logged' = logged + 1
  PROVE  ShipperInv'
<1>0. TypeOK /\ Held /\ EveryRecordCounted /\ accepted' = accepted
  BY PartsOfInv DEF queue
<1>1. logged' \in Nat
  BY ShipperAssumption
<1>2. Held' /\ InHandle' = InHandle
  BY <1>0, <1>1, AdmissionKept
<1>3. Cardinality(InHandle) \in Nat /\ Len(accepted) \in Nat /\ offered \in 0..logged /\ dropped \in 0..offered
  BY <1>0, InHandleType, FS_CardinalityType DEF Held, TypeOK
<1>4. EveryRecordCounted'
  BY <1>0, <1>2, <1>3, InHandleType DEF EveryRecordCounted
<1>5. TypeOK'
  <2>1. offered' \in 0..logged' /\ dropped' \in 0..offered'
    BY <1>0, <1>1, <1>3, InHandleType
  <2> QED
    BY <1>0, <2>1 DEF TypeOK, queue
<1>6. LinesInOrder' /\ \A i, j \in 1..Len(accepted') : accepted'[i].id = accepted'[j].id => i = j
  BY PartsOfInv DEF queue, LinesInOrder
<1> QED
  BY <1>2, <1>4, <1>5, <1>6 DEF ShipperInv, Held, PostedInOrder, LinesInOrder

\* A new process.
LEMMA ShipperInit == Init => ShipperInv
<1> SUFFICES ASSUME Init PROVE ShipperInv
  OBVIOUS
<1>1. InHandle = {} /\ \A n : Took(n) = {} /\ Waits(n) = {}
  BY EmptySeq DEF Init, InHandle, Idle, Took, Waits
<1>2. <<>> \in Seq(Line) /\ Len(<<>>) = 0
  BY EmptySeq
<1>3. TypeOK
  BY <1>2, ShipperAssumption DEF Init, TypeOK, Call
<1>4. EveryRecordCounted
  BY <1>1, <1>2, FS_EmptySet DEF Init, EveryRecordCounted
<1>5. PostedInOrder
  BY <1>2, ConcatEmptySeq DEF Init, PostedInOrder
<1>6. WindowHeld
  BY <1>1, <1>2, FS_EmptySet, ShipperAssumption DEF Init, WindowHeld, Admitted
<1>7. IsFiniteSet(InHandle) /\ IdsHeld /\ NothingSecretShips
  BY <1>1, <1>2, FS_EmptySet DEF Init, IdsHeld, NothingSecretShips
<1> QED
  BY <1>1, <1>3, <1>4, <1>5, <1>6, <1>7 DEF ShipperInv

\* A record is logged.
LEMMA HandleStep ==
  ASSUME ShipperInv, NEW l \in Logger, NEW r \in Shape, Handle(l, r)
  PROVE  ShipperInv'
<1>0. /\ TypeOK /\ Held /\ EveryRecordCounted /\ r \in Record /\ call[l] = Idle
      /\ window \in [count : Nat, expired : BOOLEAN, no : Nat] /\ window.count <= MaxPerMin
      /\ window.no \in Nat
  BY PartsOfInv, ShapeAssumption DEF Handle, TypeOK, Held, WindowHeld
<1>1. /\ logged' = logged + 1 /\ logged' \in 0..MaxRecords /\ logged <= logged' /\ logged \in Nat
      /\ UNCHANGED <<up, installed, queue>>
  BY <1>0, ShipperAssumption DEF Handle, TypeOK
<1>2. \A n \in Nat : Admitted(window, n) \in Nat
  BY <1>0, InHandleType DEF Admitted
<1> DEFINE a == allow(window)
<1>3. /\ a.window \in [count : Nat, expired : BOOLEAN, no : Nat] /\ a.window.count <= MaxPerMin
      /\ window.no <= a.window.no /\ a.ok \in BOOLEAN /\ a.window.no \in Nat
      /\ \A n \in Nat : Admitted(window, n) + (IF a.ok /\ n = a.window.no THEN 1 ELSE 0)
                          <= Admitted(a.window, n)
  BY <1>0, AllowCounts
<1>4. ASSUME call' = [call EXCEPT ![l] = [at |-> "next"]]
      PROVE  /\ call' \in [Logger -> Call]
             /\ \A m \in Logger : call[m].at = "enqueue" \/ call'[m].at = "enqueue" => call'[m] = call[m]
  BY <1>0, <1>4 DEF TypeOK, Call, Idle
<1>5. CASE ~(r.level /\ installed)
  <2>1. call' = [call EXCEPT ![l] = [at |-> "next"]] /\ UNCHANGED <<window, offered, dropped>>
    BY <1>5 DEF Handle
  <2>2. \A n \in Nat : Admitted(window, n) <= Admitted(window', n)
    BY <1>2, <2>1
  <2>3. up' \in BOOLEAN /\ UNCHANGED installed /\ window.no <= window'.no
    BY <1>0, <1>1, <2>1 DEF TypeOK
  <2> QED
    BY <1>0, <1>1, <1>4, <2>1, <2>2, <2>3, LoggerStep
<1>6. CASE r.level /\ installed /\ ~a.ok
  <2>1. /\ window' = a.window /\ offered' = offered + 1 /\ dropped' = dropped + 1
        /\ call' = [call EXCEPT ![l] = [at |-> "next"]]
    BY <1>6 DEF Handle
  <2> HIDE DEF a
  <2>2. \A n \in Nat : Admitted(window, n) <= Admitted(window', n)
    BY <1>2, <1>3, <1>6, <2>1
  <2>3. up' \in BOOLEAN /\ UNCHANGED installed
    BY <1>0, <1>1 DEF TypeOK
  <2> QED
    BY <1>1, <1>3, <1>4, <2>1, <2>2, <2>3, LoggerStep
<1>7. CASE r.level /\ installed /\ a.ok
  <2> DEFINE line == nativeLogLine(logged + 1, a.window.no, r)
  <2>1. /\ window' = a.window /\ offered' = offered + 1 /\ dropped' = dropped
        /\ call' = [call EXCEPT ![l] = [at |-> "enqueue", line |-> line]]
    BY <1>7 DEF Handle
  <2>2. line \in Line /\ Clean(line) /\ line.id = logged + 1 /\ line.no = a.window.no
    BY <1>0, <1>1, <1>3, LineIsClean
  <2> HIDE DEF line, a
  <2>3. \A n \in Nat : Admitted(window, n) + (IF n = window'.no THEN 1 ELSE 0) <= Admitted(window', n)
    BY <1>3, <1>7, <2>1
  <2>4. UNCHANGED accepted
    BY <1>1 DEF queue
  <2>5. /\ Held' /\ Cardinality(InHandle') = Cardinality(InHandle) + 1
        /\ call' \in [Logger -> Call]
    BY <1>0, <1>1, <1>3, <2>1, <2>2, <2>3, <2>4, AdmissionGrows
  <2>6. /\ Cardinality(InHandle) \in Nat /\ Len(accepted) \in Nat
        /\ offered \in 0..logged /\ dropped \in 0..offered
    BY <1>0, InHandleType, FS_CardinalityType DEF Held, TypeOK
  <2>7. EveryRecordCounted'
    BY <1>0, <2>1, <2>4, <2>5, <2>6 DEF EveryRecordCounted
  <2>8. offered' \in 0..logged' /\ dropped' \in 0..offered'
    BY <1>1, <2>1, <2>6
  <2>9. window' \in [count : Nat, expired : BOOLEAN, no : Nat]
    BY <1>3, <2>1
  <2>10. TypeOK'
    BY <1>0, <1>1, <2>5, <2>8, <2>9 DEF TypeOK, queue
  <2> QED
    BY <1>1, <2>5, <2>7, <2>10, QueueKept
<1> QED
  BY <1>3, <1>5, <1>6, <1>7

\* A line enters the channel, or finds it full and is dropped.
LEMMA EnqueueStep ==
  ASSUME ShipperInv, NEW l \in Logger, enqueue(l)
  PROVE  ShipperInv'
<1> DEFINE line == call[l].line
<1>0. /\ TypeOK /\ Held /\ EveryRecordCounted /\ LinesInOrder
      /\ \A i, j \in 1..Len(accepted) : accepted[i].id = accepted[j].id => i = j
  BY PartsOfInv
<1>1. /\ call[l].at = "enqueue" /\ call' = [call EXCEPT ![l] = [at |-> "next"]]
      /\ UNCHANGED <<up, installed, logged, window, offered, batch, post, flushed>>
      /\ offered' = offered
      /\ \/ /\ Len(ch) < Buffer /\ ch' = Append(ch, line) /\ accepted' = Append(accepted, line)
            /\ UNCHANGED dropped
         \/ dropped' = dropped + 1 /\ UNCHANGED <<ch, accepted>>
  BY DEF enqueue
<1>2. l \in InHandle /\ line \in Line
  BY <1>0, <1>1, InHandleType DEF InHandle
<1>3. /\ Held' /\ Cardinality(InHandle') = Cardinality(InHandle) - 1
      /\ Cardinality(InHandle) \in Nat /\ call' \in [Logger -> Call]
  BY <1>0, <1>1, AdmissionLeaves
<1>4. /\ Len(accepted) \in Nat /\ Len(ch) \in Nat /\ offered \in 0..logged /\ dropped \in 0..offered
      /\ logged \in Nat
  BY <1>0, InHandleType, LenProperties DEF TypeOK
<1>5. \A i \in 1..Len(accepted) : accepted[i].id # line.id
  BY <1>0, <1>2 DEF Held, IdsHeld
<1>10. Cardinality(InHandle) >= 1
  BY <1>0, <1>2, <1>3, FS_EmptySet DEF Held
<1> HIDE DEF line
<1>6. CASE /\ Len(ch) < Buffer /\ ch' = Append(ch, line) /\ accepted' = Append(accepted, line)
           /\ UNCHANGED dropped
  <2>1. /\ accepted' \in Seq(Line) /\ ch' \in Seq(Line)
        /\ Len(accepted') = Len(accepted) + 1 /\ Len(ch') = Len(ch) + 1
        /\ accepted'[Len(accepted) + 1] = line
        /\ \A i \in 1..Len(accepted) : accepted'[i] = accepted[i]
    BY <1>0, <1>2, <1>6, AppendProperties DEF TypeOK
  <2>2. EveryRecordCounted'
    <3>1. offered = dropped + Cardinality(InHandle) + Len(accepted)
      BY <1>0 DEF EveryRecordCounted
    <3>2. offered' = offered /\ dropped' = dropped
      BY <1>1, <1>6
    <3>3. offered' = dropped' + Cardinality(InHandle') + Len(accepted')
      BY <1>3, <1>4, <2>1, <3>1, <3>2
    <3> QED
      BY <3>3 DEF EveryRecordCounted
  <2>3. LinesInOrder'
    <3>1. flushed \o batch \in Seq(Line) /\ <<line>> \in Seq(Line) /\ (flushed \o batch) \o ch \in Seq(Line)
      BY <1>0, <1>2, ConcatProperties DEF TypeOK
    <3>2. Append(ch, line) = ch \o <<line>> /\ Append(accepted, line) = accepted \o <<line>>
      BY <1>0, <1>2, AppendIsConcat DEF TypeOK
    <3>3. (flushed \o batch) \o (ch \o <<line>>) = ((flushed \o batch) \o ch) \o <<line>>
      <4>1. ch \in Seq(Line)
        BY <1>0 DEF TypeOK
      <4> QED
        BY <3>1, <4>1, LinesAssociative, Zenon
    <3> QED
      BY <1>0, <1>1, <1>6, <3>2, <3>3 DEF LinesInOrder
  <2>4. \A i, j \in 1..Len(accepted') : accepted'[i].id = accepted'[j].id => i = j
    <3>1. \A i \in 1..Len(accepted') : i \in 1..Len(accepted) \/ i = Len(accepted) + 1
      BY <1>4, <2>1
    <3> QED
      BY <1>0, <1>5, <2>1, <3>1
  <2>5. TypeOK'
    BY <1>0, <1>1, <1>3, <1>4, <1>6, <2>1, ShipperAssumption DEF TypeOK
  <2> QED
    BY <1>3, <2>2, <2>3, <2>4, <2>5 DEF ShipperInv, Held, PostedInOrder, LinesInOrder
<1>7. CASE dropped' = dropped + 1 /\ UNCHANGED <<ch, accepted>>
  <2>1. EveryRecordCounted'
    BY <1>0, <1>1, <1>3, <1>4, <1>7 DEF EveryRecordCounted
  <2>2. dropped' \in 0..offered'
    BY <1>0, <1>1, <1>3, <1>4, <1>7, <1>10 DEF EveryRecordCounted
  <2>3. TypeOK'
    BY <1>0, <1>1, <1>3, <1>7, <2>2 DEF TypeOK
  <2> QED
    BY <1>1, <1>3, <1>7, <2>1, <2>3, QueueKept DEF queue
<1> QED
  BY <1>1, <1>6, <1>7

\* Every step keeps the invariant.
LEMMA ShipperStep == ShipperInv /\ [Next]_vars => ShipperInv'
<1> SUFFICES ASSUME ShipperInv, [Next]_vars PROVE ShipperInv'
  OBVIOUS
<1>0. /\ TypeOK /\ Held /\ LinesInOrder
      /\ window \in [count : Nat, expired : BOOLEAN, no : Nat] /\ window.count <= MaxPerMin
      /\ window.no \in Nat /\ logged \in 0..MaxRecords /\ logged <= logged
      /\ accepted \in Seq(Line) /\ ch \in Seq(Line) /\ batch \in Seq(Line) /\ flushed \in Seq(Line)
      /\ Len(ch) <= Buffer /\ Len(batch) < Batch
      /\ call \in [Logger -> Call] /\ up \in BOOLEAN
  BY PartsOfInv, ShipperAssumption DEF TypeOK, Held, WindowHeld
<1>a. \A n \in Nat : Admitted(window, n) \in Nat /\ Admitted(window, n) <= Admitted(window, n)
  BY <1>0, InHandleType DEF Admitted
<1>b. Batch \in Nat \ {0} /\ <<>> \in Seq(Line) /\ Len(<<>>) = 0 /\ Len(batch) \in Nat /\ Len(ch) \in Nat
  BY <1>0, ShipperAssumption, EmptySeq, LenProperties
<1>c. ASSUME NEW b \in Seq(Line), NEW c \in Seq(Line), b \o c = batch \o ch
      PROVE  (flushed \o b) \o c = accepted /\ flushed \o b \in Seq(Line)
  <2>1. (flushed \o b) \o c = flushed \o (b \o c)
    BY <1>0, <1>c, LinesAssociative, Zenon
  <2>2. (flushed \o batch) \o ch = flushed \o (batch \o ch)
    BY <1>0, LinesAssociative, Zenon
  <2>3. flushed \o b \in Seq(Line)
    BY <1>0, ConcatProperties, Zenon
  <2> QED
    BY <1>0, <1>c, <2>1, <2>2, <2>3 DEF LinesInOrder
<1>d. ASSUME UNCHANGED window
      PROVE  /\ window' \in [count : Nat, expired : BOOLEAN, no : Nat] /\ window'.count <= MaxPerMin
             /\ window.no <= window'.no
             /\ \A n \in Nat : Admitted(window, n) <= Admitted(window', n)
  <2>1. window' = window
    BY <1>d
  <2>2. \A n \in Nat : Admitted(window', n) = Admitted(window, n)
    BY <2>1 DEF Admitted
  <2>3. \A n \in Nat : Admitted(window, n) <= Admitted(window', n)
    BY <1>a, <2>2
  <2>4. window.no <= window.no
    BY <1>0
  <2> QED
    BY <1>0, <2>1, <2>3, <2>4
<1>1. ASSUME NEW l \in Logger, NEW r \in Shape, Handle(l, r) PROVE ShipperInv'
  BY <1>1, HandleStep
<1>2. ASSUME NEW l \in Logger, enqueue(l) PROVE ShipperInv'
  BY <1>2, EnqueueStep
<1>3. ASSUME NEW l \in Logger, WriteLocally(l) PROVE ShipperInv'
  <2>1. /\ call' \in [Logger -> Call]
        /\ \A m \in Logger : call[m].at = "enqueue" \/ call'[m].at = "enqueue" => call'[m] = call[m]
    BY <1>0, <1>3 DEF WriteLocally, Call, Idle
  <2>2. /\ UNCHANGED <<queue, installed, window, offered, dropped>> /\ up' \in BOOLEAN
        /\ logged' \in 0..MaxRecords /\ logged <= logged' /\ UNCHANGED window
    BY <1>0, <1>3 DEF WriteLocally
  <2> QED
    BY <1>d, <2>1, <2>2, LoggerStep
<1>4. ASSUME MinutePasses PROVE ShipperInv'
  <2>1. /\ window' \in [count : Nat, expired : BOOLEAN, no : Nat] /\ window'.count = window.count
        /\ window'.no = window.no
    BY <1>0, <1>4 DEF MinutePasses
  <2>2. \A n \in Nat : Admitted(window', n) = Admitted(window, n)
    BY <2>1 DEF Admitted
  <2>3. \A n \in Nat : Admitted(window, n) <= Admitted(window', n)
    BY <1>a, <2>2
  <2>4. window'.count <= MaxPerMin /\ window.no <= window'.no
    BY <1>0, <2>1
  <2> QED
    BY <1>0, <1>4, <2>1, <2>3, <2>4, LoggerStep DEF MinutePasses
<1>5. ASSUME runReceives PROVE ShipperInv'
  <2> DEFINE b == Append(batch, Head(ch))
  <2>1. ch # <<>> /\ ch' = Tail(ch) /\ post = <<>>
    BY <1>5 DEF runReceives
  <2>2. b \in Seq(Line) /\ b \o Tail(ch) = batch \o ch
    BY <1>0, <2>1, TakeHead
  <2>3. Tail(ch) \in Seq(Line) /\ Len(Tail(ch)) = Len(ch) - 1 /\ Len(b) = Len(batch) + 1
    BY <1>0, <2>1, HeadTailProperties, AppendProperties
  <2>4. (flushed \o b) \o Tail(ch) = accepted /\ flushed \o b \in Seq(Line)
    BY <1>c, <2>2, <2>3
  <2>5. /\ UNCHANGED <<up, installed, logged, call, window, offered, dropped, accepted>>
        /\ \/ Len(b) >= Batch /\ post' = b /\ flushed' = flushed \o b /\ batch' = <<>>
           \/ Len(b) < Batch /\ batch' = b /\ post' = <<>> /\ flushed' = flushed
    BY <1>5, <1>b, <2>3 DEF runReceives, flush
  <2> HIDE DEF b
  <2>6. Len(ch') <= Buffer /\ ch' \in Seq(Line)
    BY <1>0, <1>b, <2>1, <2>3, ShipperAssumption
  <2>7. CASE Len(b) >= Batch /\ post' = b /\ flushed' = flushed \o b /\ batch' = <<>>
    <3>1. Len(post') <= Batch /\ Len(batch') < Batch
      BY <1>0, <1>b, <2>3, <2>7
    <3>2. LinesInOrder'
      BY <2>1, <2>4, <2>5, <2>7, ConcatEmptySeq DEF LinesInOrder
    <3> QED
      BY <1>b, <2>2, <2>4, <2>5, <2>6, <2>7, <3>1, <3>2, RunStep
  <2>8. CASE Len(b) < Batch /\ batch' = b /\ post' = <<>> /\ flushed' = flushed
    <3>1. LinesInOrder'
      BY <2>1, <2>4, <2>5, <2>8 DEF LinesInOrder
    <3> QED
      BY <1>0, <1>b, <2>2, <2>5, <2>6, <2>8, <3>1, RunStep
  <2> QED
    BY <2>5, <2>7, <2>8
<1>6. ASSUME runTicks PROVE ShipperInv'
  <2>1. /\ post' = batch /\ flushed' = flushed \o batch /\ batch' = <<>>
        /\ UNCHANGED <<up, installed, logged, call, window, offered, dropped, accepted, ch>>
    BY <1>6 DEF runTicks, flush
  <2>2. flushed \o batch \in Seq(Line) /\ (flushed \o batch) \o <<>> = flushed \o batch
    BY <1>0, ConcatProperties, ConcatEmptySeq
  <2>3. LinesInOrder'
    BY <1>0, <2>1, <2>2 DEF LinesInOrder
  <2> QED
    BY <1>0, <1>b, <2>1, <2>2, <2>3, RunStep
<1>7. ASSUME postEnds PROVE ShipperInv'
  <2>1. /\ post' = <<>>
        /\ UNCHANGED <<up, installed, logged, call, window, offered, dropped, accepted, ch, batch, flushed>>
    BY <1>7 DEF postEnds
  <2>2. LinesInOrder'
    BY <1>0, <2>1 DEF LinesInOrder
  <2> QED
    BY <1>0, <1>b, <2>1, <2>2, RunStep
<1>8. ASSUME Exit PROVE ShipperInv'
  <2>1. /\ UNCHANGED <<queue, installed, window, offered, dropped>> /\ up' \in BOOLEAN
        /\ logged' \in 0..MaxRecords /\ logged <= logged' /\ UNCHANGED window /\ call' = call
    BY <1>0, <1>8 DEF Exit
  <2>2. /\ call' \in [Logger -> Call]
        /\ \A m \in Logger : call[m].at = "enqueue" \/ call'[m].at = "enqueue" => call'[m] = call[m]
    BY <1>0, <2>1
  <2> QED
    BY <1>d, <2>1, <2>2, LoggerStep
<1>9. CASE UNCHANGED vars
  <2>1. /\ UNCHANGED <<queue, installed, window, offered, dropped>> /\ up' \in BOOLEAN
        /\ logged' \in 0..MaxRecords /\ logged <= logged' /\ UNCHANGED window /\ call' = call
    BY <1>0, <1>9 DEF vars, queue
  <2>2. /\ call' \in [Logger -> Call]
        /\ \A m \in Logger : call[m].at = "enqueue" \/ call'[m].at = "enqueue" => call'[m] = call[m]
    BY <1>0, <2>1
  <2> QED
    BY <1>d, <2>1, <2>2, LoggerStep
<1> QED
  BY <1>1, <1>2, <1>3, <1>4, <1>5, <1>6, <1>7, <1>8, <1>9 DEF Next, run

\* The inductive invariant holds for ever.
THEOREM ShipperInvariance == Spec => []ShipperInv
  BY ShipperInit, ShipperStep, PTL DEF Spec

\* The queue keeps its bounds and no record is lost without being counted,
\* however many goroutines log at once (Handle, enqueue).
THEOREM QueueIsSound == Spec => []QueueSound
<1>1. ShipperInv => QueueSound
  BY DEF ShipperInv, QueueSound
<1> QED
  BY <1>1, ShipperInvariance, PTL

\* Lines leave in the order they entered the channel, none twice and none skipped (run).
THEOREM LinesPostedInOrder == Spec => []PostedInOrder
<1>1. ShipperInv => PostedInOrder
  BY DEF ShipperInv
<1> QED
  BY <1>1, ShipperInvariance, PTL

\* No window ships more than the cap and nothing that looks like a secret leaves
\* in a message or an attribute (allow, ship).
THEOREM ShipsSafely == Spec => []ShippedSafely
<1>1. ShipperInv => NothingSecretShips
  BY DEF ShipperInv
<1>2. ShipperInv => CapPerWindow
  <2> SUFFICES ASSUME ShipperInv, NEW n \in 0..window.no PROVE Cardinality(Took(n)) <= MaxPerMin
    BY DEF CapPerWindow, Took
  <2>1. TypeOK /\ IsFiniteSet(InHandle) /\ WindowHeld
    BY DEF ShipperInv
  <2>2. Cardinality(Took(n)) + Cardinality(Waits(n)) <= Admitted(window, n)
    BY <2>1 DEF WindowHeld
  <2>3. Admitted(window, n) \in Nat /\ Admitted(window, n) <= MaxPerMin
    BY <2>1, InHandleType DEF Admitted, WindowHeld, TypeOK
  <2> QED
    BY <2>1, <2>2, <2>3, WindowFinite, InHandleType
<1> QED
  BY <1>1, <1>2, ShipperInvariance, PTL DEF ShippedSafely
=============================================================================
