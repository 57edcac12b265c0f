----------------------- MODULE TelemetrySenderProofs -----------------------
(***************************************************************************)
(* Proofs about the telemetry sender, for every capacity, batch size,      *)
(* access log and number of failures.                                      *)
(***************************************************************************)
EXTENDS TelemetrySender, FiniteSetTheorems, FunctionTheorems, TLAPS

-----------------------------------------------------------------------------
(* The inductive invariant *)

\* flush follows at once when the batch is full: Run never selects with one.
RoomInBatch == sender.pc = "select" => Len(batch) < BatchSize

IInv == TypeOK /\ RoomInBatch /\ Accounted

-----------------------------------------------------------------------------
LEMMA PlacesFinite ==
    ASSUME NEW b \in Seq(Line), NEW N
    PROVE  IsFiniteSet(Places(b, N)) /\ Cardinality(Places(b, N)) \in Nat
<1>1. IsFiniteSet(1..Len(b))
  BY FS_Interval
<1>2. Places(b, N) \in SUBSET (1..Len(b))
  BY DEF Places
<1> QED BY <1>1, <1>2, FS_Subset, FS_CardinalityType

LEMMA FaultsBounded ==
    ASSUME HandlerTypeOK, Fault
    PROVE  faults' \in 0..MaxFaults
  BY SenderAssumed DEF HandlerTypeOK, Fault, SenderAssumption

\* An insert changes what the handler keeps, whether it works or not.
LEMMA InsertTyped ==
    ASSUME HandlerTypeOK, NEW b \in Seq(Line), Insert(b)
    PROVE  /\ rows' \in [Line -> Nat]
           /\ refused' \in Nat
           /\ faults' \in 0..MaxFaults
  <1>1. ASSUME NEW known \in SUBSET Line,
               rows' = [n \in Line |-> rows[n] + Cardinality(Places(b, known \cap {n}))],
               refused' = refused + Cardinality(Places(b, Line \ known)),
               UNCHANGED faults
        PROVE  /\ rows' \in [Line -> Nat]
               /\ refused' \in Nat
               /\ faults' \in 0..MaxFaults
    BY <1>1, PlacesFinite DEF HandlerTypeOK
  <1>2. CASE Fault /\ refused' = refused + Len(b) /\ UNCHANGED rows
    BY <1>2, FaultsBounded DEF HandlerTypeOK
  <1> QED
    BY <1>1, <1>2 DEF Insert

LEMMA RemovalTyped ==
    ASSUME NEW S, NEW s \in Seq(S), NEW i \in DOMAIN s
    PROVE  RemoveAt(s, i) \in Seq(S)
  <1>1. SubSeq(s, 1, i - 1) \in Seq(S) /\ SubSeq(s, i + 1, Len(s)) \in Seq(S)
    OBVIOUS
  <1> QED
    BY <1>1 DEF RemoveAt

\* What the sender's own part of the invariant is about.
SenderOK == SenderTypeOK /\ RoomInBatch /\ Accounted

\* What Append and Tail do to a payload sequence.
LEMMA Appended ==
    ASSUME NEW S, NEW s \in Seq(S), NEW x \in S
    PROVE  /\ Append(s, x) \in Seq(S)
           /\ Len(Append(s, x)) = Len(s) + 1
           /\ Len(s) \in Nat
  OBVIOUS

LEMMA Taken ==
    ASSUME NEW S, NEW s \in Seq(S), s # <<>>
    PROVE  /\ Head(s) \in S
           /\ Tail(s) \in Seq(S)
           /\ Len(Tail(s)) = Len(s) - 1
           /\ Len(s) \in Nat
  OBVIOUS

\* A failed try: the batch is kept for the second one or given up, and counted.
LEMMA FailedTry ==
    ASSUME SenderOK, sender.pc # "select", TryFailed, UNCHANGED queue
    PROVE  SenderOK'
  <1> USE SenderAssumed DEF SenderAssumption, SenderOK, SenderTypeOK, RoomInBatch, Accounted
  <1>1. CASE sender.try = 1
    BY <1>1 DEF TryFailed, stats
  <1>2. CASE sender.try # 1
    BY <1>2 DEF TryFailed, Selecting
  <1> QED
    BY <1>1, <1>2

-----------------------------------------------------------------------------
LEMMA InitIInv == Init => IInv
  <1> SUFFICES ASSUME Init PROVE IInv
    OBVIOUS
  <1> USE SenderAssumed DEF SenderAssumption, Init
  <1>1. ReaderTypeOK
    BY DEF ReaderTypeOK
  <1>2. SenderTypeOK /\ RoomInBatch /\ Accounted
    BY DEF SenderTypeOK, RoomInBatch, Accounted, Selecting
  <1>3. HandlerTypeOK
    BY DEF HandlerTypeOK
  <1> QED
    BY <1>1, <1>2, <1>3 DEF IInv, TypeOK

\* The reader's steps touch the sender only through Enqueue.
LEMMA ReaderKeeps ==
    IInv /\ (Serve \/ Connect \/ Disconnect \/ ReadLine) => IInv'
  <1> SUFFICES ASSUME ReaderTypeOK, SenderOK, HandlerTypeOK,
                      Serve \/ Connect \/ Disconnect \/ ReadLine
               PROVE  ReaderTypeOK' /\ SenderOK' /\ HandlerTypeOK'
    BY DEF IInv, TypeOK, SenderOK
  <1>1. HandlerTypeOK'
    BY FaultsBounded DEF HandlerTypeOK, Serve, Connect, Disconnect, ReadLine
  <1>2. CASE Serve \/ Connect \/ Disconnect
    <2>1. SenderOK'
      BY <1>2 DEF Serve, Connect, Disconnect, SenderOK, SenderTypeOK, RoomInBatch, Accounted, stats
    <2>2. lines' \in 0..MaxLines /\ taken' \in [Line -> Nat]
      BY <1>2, SenderAssumed DEF Serve, Connect, Disconnect, ReaderTypeOK, SenderAssumption
    <2>3. stream' \in [on : BOOLEAN, next : 1..(MaxLines + 1)]
      <3>1. CASE Serve
        BY <3>1 DEF Serve, ReaderTypeOK
      <3>2. CASE Connect
        BY <3>2, SenderAssumed DEF Connect, ReaderTypeOK, SenderAssumption
      <3>3. CASE Disconnect
        BY <3>3 DEF Disconnect, ReaderTypeOK
      <3> QED
        BY <1>2, <3>1, <3>2, <3>3
    <2> QED
      BY <1>1, <2>1, <2>2, <2>3 DEF ReaderTypeOK
  <1>3. CASE ReadLine
    <2>1. stream.next \in Line /\ stream.next + 1 \in 1..(MaxLines + 1)
      BY <1>3, SenderAssumed DEF ReadLine, Line, ReaderTypeOK, SenderAssumption
    <2>2. ReaderTypeOK'
      BY <1>3, <2>1 DEF ReadLine, ReaderTypeOK
    <2>3. /\ queue \in Seq(Line) /\ Len(queue) \in Nat /\ Len(batch) \in Nat
          /\ calls \in Nat /\ dropped \in Nat /\ sent \in Nat /\ failed \in Nat
          /\ calls = dropped + sent + failed + Len(queue) + Len(batch)
      BY DEF SenderOK, SenderTypeOK, Accounted
    <2>4. /\ queue' \in Seq(Line) /\ Len(queue') <= QueueSize
          /\ calls' \in Nat /\ dropped' \in Nat
          /\ calls' = dropped' + sent + failed + Len(queue') + Len(batch)
      <3>1. CASE Len(queue) < QueueSize
        <4>1. queue' = Append(queue, stream.next) /\ dropped' = dropped /\ calls' = calls + 1
          BY <1>3, <3>1 DEF ReadLine, Enqueue
        <4>2. queue' \in Seq(Line) /\ Len(queue') = Len(queue) + 1
          BY <2>1, <2>3, <4>1, Appended
        <4> QED
          BY <2>3, <3>1, <4>1, <4>2, SenderAssumed DEF SenderAssumption
      <3>2. CASE ~(Len(queue) < QueueSize)
        <4>1. queue' = queue /\ dropped' = dropped + 1 /\ calls' = calls + 1
          BY <1>3, <3>2 DEF ReadLine, Enqueue
        <4> QED
          BY <2>3, <4>1 DEF SenderOK, SenderTypeOK
      <3> QED
        BY <3>1, <3>2
    <2>5. UNCHANGED <<batch, sender, sent, failed>>
      BY <1>3 DEF ReadLine, Enqueue
    <2>6. SenderOK'
      BY <2>4, <2>5 DEF SenderOK, SenderTypeOK, RoomInBatch, Accounted
    <2> QED
      BY <1>1, <2>2, <2>6
  <1> QED
    BY <1>2, <1>3

LEMMA SenderKeeps ==
    IInv /\ (TakePayload \/ FlushTick \/ Post \/ PostLost \/ Timeout) => IInv'
  <1> SUFFICES ASSUME ReaderTypeOK, SenderOK, HandlerTypeOK,
                      TakePayload \/ FlushTick \/ Post \/ PostLost \/ Timeout
               PROVE  ReaderTypeOK' /\ SenderOK' /\ HandlerTypeOK'
    BY DEF IInv, TypeOK, SenderOK
  <1>1. ReaderTypeOK'
    BY DEF ReaderTypeOK, TakePayload, FlushTick, Post, PostLost, Timeout
  <1>2. CASE TakePayload
    <2>1. /\ queue \in Seq(Line) /\ queue # <<>> /\ batch \in Seq(Line)
          /\ queue' = Tail(queue) /\ batch' = Append(batch, Head(queue))
      BY <1>2 DEF TakePayload, SenderOK, SenderTypeOK
    <2>2. /\ queue' \in Seq(Line) /\ Len(queue') = Len(queue) - 1
          /\ batch' \in Seq(Line) /\ Len(batch') = Len(batch) + 1
          /\ Len(queue) \in Nat /\ Len(batch) \in Nat
      BY <2>1, Appended, Taken
    <2>3. Accounted'
      <3>1. /\ UNCHANGED <<calls, dropped, sent, failed>>
            /\ calls \in Nat /\ dropped \in Nat /\ sent \in Nat /\ failed \in Nat
            /\ calls = dropped + sent + failed + Len(queue) + Len(batch)
        BY <1>2 DEF TakePayload, stats, SenderOK, SenderTypeOK, Accounted
      <3> QED
        BY <2>2, <3>1 DEF Accounted
    <2>4. /\ Len(batch) < BatchSize
          /\ sender' = IF Len(batch') >= BatchSize THEN [pc |-> "post", try |-> 1] ELSE sender
          /\ sender \in [pc : {"select", "post", "wait"}, try : {1, 2}]
      BY <1>2 DEF TakePayload, SenderOK, SenderTypeOK, RoomInBatch
    <2>5. /\ RoomInBatch' /\ Len(batch') <= BatchSize
          /\ sender' \in [pc : {"select", "post", "wait"}, try : {1, 2}]
      BY <2>2, <2>4, SenderAssumed DEF RoomInBatch, SenderAssumption
    <2>6. Len(queue') <= QueueSize
      BY <2>2, SenderAssumed DEF SenderOK, SenderTypeOK, SenderAssumption
    <2>7. SenderTypeOK'
      BY <1>2, <2>2, <2>5, <2>6 DEF TakePayload, stats, SenderOK, SenderTypeOK
    <2>8. HandlerTypeOK'
      BY <1>2 DEF TakePayload, HandlerTypeOK
    <2> QED
      BY <1>1, <2>3, <2>5, <2>7, <2>8 DEF SenderOK
  <1>3. CASE FlushTick \/ Post
    <2>1. HandlerTypeOK'
      BY <1>3 DEF FlushTick, Post, HandlerTypeOK
    <2>2. SenderOK'
      BY <1>3 DEF FlushTick, Post, SenderOK, SenderTypeOK, RoomInBatch, Accounted, stats
    <2> QED
      BY <1>1, <2>1, <2>2
  <1>4. CASE PostLost \/ Timeout
    <2>1. late' \in Seq(Seq(Line))
      <3>1. late \in Seq(Seq(Line)) /\ batch \in Seq(Line)
        BY DEF SenderOK, SenderTypeOK, HandlerTypeOK
      <3>2. late' = late \/ late' = Append(late, batch)
        BY <1>4 DEF PostLost, Timeout
      <3> QED
        BY <3>1, <3>2
    <2>2. HandlerTypeOK'
      BY <1>4, <2>1, FaultsBounded DEF PostLost, Timeout, HandlerTypeOK
    <2>3. SenderOK'
      BY <1>4, FailedTry DEF PostLost, Timeout
    <2> QED
      BY <1>1, <2>2, <2>3
  <1> QED
    BY <1>2, <1>3, <1>4

LEMMA HandlerKeeps == IInv /\ (Answer \/ RecordLate) => IInv'
  <1> SUFFICES ASSUME ReaderTypeOK, SenderOK, HandlerTypeOK, Answer \/ RecordLate
               PROVE  ReaderTypeOK' /\ SenderOK' /\ HandlerTypeOK'
    BY DEF IInv, TypeOK, SenderOK
  <1>1. ReaderTypeOK'
    BY DEF ReaderTypeOK, Answer, RecordLate
  <1>2. CASE Answer
    <2>1. HandlerTypeOK'
      BY <1>2, InsertTyped DEF Answer, HandlerTypeOK, SenderOK, SenderTypeOK
    <2>2. SenderOK'
      BY <1>2, SenderAssumed
      DEF Answer, Selecting, SenderOK, SenderTypeOK, RoomInBatch, Accounted, SenderAssumption
    <2> QED
      BY <1>1, <2>1, <2>2
  <1>3. CASE RecordLate
    <2>1. PICK i \in DOMAIN late : Insert(late[i]) /\ late' = RemoveAt(late, i)
      BY <1>3 DEF RecordLate
    <2>2. late[i] \in Seq(Line) /\ late' \in Seq(Seq(Line))
      BY <2>1, RemovalTyped DEF HandlerTypeOK
    <2>3. HandlerTypeOK'
      BY <2>1, <2>2, InsertTyped DEF HandlerTypeOK
    <2>4. SenderOK'
      BY <1>3 DEF RecordLate, SenderOK, SenderTypeOK, RoomInBatch, Accounted, stats
    <2> QED
      BY <1>1, <2>3, <2>4
  <1> QED
    BY <1>2, <1>3

LEMMA RestartKeeps == IInv /\ Restart => IInv'
  <1> SUFFICES ASSUME ReaderTypeOK, SenderOK, HandlerTypeOK, Restart
               PROVE  ReaderTypeOK' /\ SenderOK' /\ HandlerTypeOK'
    BY DEF IInv, TypeOK, SenderOK
  <1>1. ReaderTypeOK'
    BY SenderAssumed DEF ReaderTypeOK, Restart, SenderAssumption
  <1>2. SenderOK'
    BY SenderAssumed
    DEF Restart, Selecting, SenderOK, SenderTypeOK, RoomInBatch, Accounted,
        SenderAssumption
  <1>3. HandlerTypeOK'
    <2>1. late' \in Seq(Seq(Line))
      BY DEF Restart, HandlerTypeOK, SenderOK, SenderTypeOK
    <2> QED
      BY <2>1, FaultsBounded DEF Restart, HandlerTypeOK
  <1> QED
    BY <1>1, <1>2, <1>3

LEMMA SpecKeepsIInv == Spec => []IInv
  <1>1. IInv /\ [Next]_vars => IInv'
    <2> SUFFICES ASSUME IInv, [Next]_vars PROVE IInv'
      OBVIOUS
    <2>1. CASE UNCHANGED vars
      BY <2>1 DEF vars, IInv, TypeOK, ReaderTypeOK, SenderTypeOK, HandlerTypeOK,
                  RoomInBatch, Accounted
    <2> QED
      BY <2>1, ReaderKeeps, SenderKeeps, HandlerKeeps, RestartKeeps DEF Next
  <1> QED
    BY InitIInv, <1>1, PTL DEF Spec

(***************************************************************************)
(* The forwarder's and the handler's state keeps its shape: in particular  *)
(* the queue and the batch never outgrow their capacities.                 *)
(***************************************************************************)
THEOREM TelemetryTyped == Spec => []TypeOK
  <1>1. IInv => TypeOK
    BY DEF IInv
  <1> QED
    BY <1>1, SpecKeepsIInv, PTL

(***************************************************************************)
(* The logged counters of TelemetrySender account for every payload, for   *)
(* any sizes and through any sequence of lost posts, late answers, failed  *)
(* inserts and restarts.                                                   *)
(***************************************************************************)
THEOREM CountersTrue == Spec => []Accounted
  <1>1. IInv => Accounted
    BY DEF IInv
  <1> QED
    BY <1>1, SpecKeepsIInv, PTL


-----------------------------------------------------------------------------
(* Counting places and copies *)

LEMMA NotMore ==
    ASSUME NEW S, NEW T, IsFiniteSet(T), NEW f \in [S -> T],
           \A x, y \in S : f[x] = f[y] => x = y
    PROVE  IsFiniteSet(S) /\ Cardinality(S) <= Cardinality(T)
<1>1. f \in Injection(S, T)
  BY DEF Injection, IsInjective
<1> QED BY <1>1, FS_Injection

\* How often payload n is in b.
Occ(b, n) == Cardinality(Places(b, {n}))

LEMMA NoneInEmpty == \A n : Occ(<<>>, n) = 0
<1>1. \A n : Places(<<>>, {n}) = {}
  BY DEF Places
<1> QED BY <1>1, FS_EmptySet DEF Occ

LEMMA OneMore ==
    ASSUME NEW b \in Seq(Line), NEW x \in Line, NEW n \in Line
    PROVE  Occ(Append(b, x), n) = Occ(b, n) + IF x = n THEN 1 ELSE 0
<1> DEFINE c == Append(b, x)
<1>1. /\ Len(b) \in Nat /\ Len(c) = Len(b) + 1 /\ c[Len(b) + 1] = x
      /\ \A i \in 1..Len(b) : c[i] = b[i]
  OBVIOUS
<1>2. Len(b) + 1 \notin Places(b, {n})
  BY <1>1 DEF Places
<1>3. Places(c, {n}) = IF x = n THEN Places(b, {n}) \cup {Len(b) + 1} ELSE Places(b, {n})
  <2> HIDE DEF c
  <2> QED BY <1>1 DEF Places
<1>4. Cardinality(Places(b, {n}) \cup {Len(b) + 1}) = Cardinality(Places(b, {n})) + 1
  BY <1>2, PlacesFinite, FS_AddElement
<1> QED BY <1>3, <1>4, PlacesFinite DEF Occ

LEMMA OneLess ==
    ASSUME NEW b \in Seq(Line), b # <<>>, NEW n \in Line
    PROVE  Occ(Tail(b), n) + (IF Head(b) = n THEN 1 ELSE 0) <= Occ(b, n)
<1> DEFINE c == Tail(b)
           P == Places(b, {n})
           f == [i \in Places(c, {n}) |-> i + 1]
<1>1. /\ Len(b) \in Nat \ {0} /\ c \in Seq(Line) /\ Len(c) = Len(b) - 1 /\ Head(b) = b[1]
      /\ \A i \in 1..Len(c) : c[i] = b[i + 1]
  OBVIOUS
<1>2. f \in [Places(c, {n}) -> P \ {1}] /\ \A x, y \in Places(c, {n}) : f[x] = f[y] => x = y
  <2> HIDE DEF c
  <2> QED BY <1>1 DEF Places
<1>3. IsFiniteSet(P) /\ Cardinality(P) \in Nat /\ Cardinality(Places(c, {n})) \in Nat
  BY <1>1, PlacesFinite
<1>4. /\ IsFiniteSet(P \ {1})
      /\ Cardinality(P \ {1}) = IF 1 \in P THEN Cardinality(P) - 1 ELSE Cardinality(P)
  BY <1>3, FS_RemoveElement
<1>5. Cardinality(Places(c, {n})) <= Cardinality(P \ {1})
  BY <1>2, <1>4, NotMore
<1>6. 1 \in P <=> Head(b) = n
  BY <1>1 DEF Places
<1> QED BY <1>3, <1>4, <1>5, <1>6 DEF Occ

\* The copies of payload n in batch i, and in all the batches of s.
CopiesOf(i, b, n) == {<<i, k>> : k \in Places(b, {n})}

Copies(s, n) == UNION {CopiesOf(i, s[i], n) : i \in 1..Len(s)}

LEMMA CopiesCounted ==
    ASSUME NEW b \in Seq(Line), NEW i, NEW n
    PROVE  IsFiniteSet(CopiesOf(i, b, n)) /\ Cardinality(CopiesOf(i, b, n)) = Occ(b, n)
<1> DEFINE f == [k \in Places(b, {n}) |-> <<i, k>>]
<1>1. f \in Bijection(Places(b, {n}), CopiesOf(i, b, n))
  BY DEF Bijection, Injection, IsInjective, Surjection, CopiesOf
<1> QED BY <1>1, PlacesFinite, FS_Bijection, Fun_ExistsBij DEF Occ

LEMMA CopiesFinite ==
    ASSUME NEW s \in Seq(Seq(Line)), NEW n
    PROVE  IsFiniteSet(Copies(s, n)) /\ Cardinality(Copies(s, n)) \in Nat
<1> DEFINE U == {CopiesOf(i, s[i], n) : i \in 1..Len(s)}
           f == [i \in 1..Len(s) |-> CopiesOf(i, s[i], n)]
<1>1. f \in Surjection(1..Len(s), U)
  BY DEF Surjection
<1>2. IsFiniteSet(1..Len(s))
  BY FS_Interval
<1>3. IsFiniteSet(U)
  BY <1>1, <1>2, FS_Surjection
<1>4. ASSUME NEW i \in 1..Len(s)
      PROVE  IsFiniteSet(CopiesOf(i, s[i], n))
  BY CopiesCounted
<1>5. IsFiniteSet(UNION U)
  BY <1>3, <1>4, FS_UNION
<1> QED BY <1>5, FS_CardinalityType DEF Copies

LEMMA CopiesAdded ==
    ASSUME NEW s \in Seq(Seq(Line)), NEW b \in Seq(Line), NEW n \in Line
    PROVE  Cardinality(Copies(Append(s, b), n)) <= Cardinality(Copies(s, n)) + Occ(b, n)
<1> DEFINE m == Len(s) + 1
           t == Append(s, b)
           New == CopiesOf(m, b, n)
<1>1. /\ Len(t) = m /\ t[m] = b /\ Len(s) \in Nat
      /\ \A i \in 1..Len(s) : t[i] = s[i]
  OBVIOUS
<1> HIDE DEF t
<1>2. Copies(t, n) = Copies(s, n) \cup New
  <2>1. ASSUME NEW c \in Copies(t, n)
        PROVE  c \in Copies(s, n) \cup New
    <3>1. PICK i \in 1..Len(t) : \E k \in Places(t[i], {n}) : c = <<i, k>>
      BY <2>1 DEF Copies, CopiesOf
    <3>2. CASE i = m
      BY <1>1, <3>1, <3>2 DEF CopiesOf
    <3>3. CASE i # m
      <4>1. i \in 1..Len(s) /\ t[i] = s[i]
        BY <1>1, <3>3
      <4> QED BY <3>1, <4>1 DEF Copies, CopiesOf
    <3> QED BY <3>2, <3>3
  <2>2. ASSUME NEW c \in Copies(s, n)
        PROVE  c \in Copies(t, n)
    <3>1. PICK i \in 1..Len(s) : \E k \in Places(s[i], {n}) : c = <<i, k>>
      BY <2>2 DEF Copies, CopiesOf
    <3>2. i \in 1..Len(t) /\ t[i] = s[i]
      BY <1>1
    <3> QED BY <3>1, <3>2 DEF Copies, CopiesOf
  <2>3. ASSUME NEW c \in New
        PROVE  c \in Copies(t, n)
    <3>1. m \in 1..Len(t) /\ t[m] = b
      BY <1>1
    <3>2. \E k \in Places(t[m], {n}) : c = <<m, k>>
      BY <3>1 DEF CopiesOf
    <3> QED BY <3>1, <3>2 DEF Copies, CopiesOf
  <2> QED BY <2>1, <2>2, <2>3
<1>3. /\ Cardinality(Copies(s, n) \cup New) =
             Cardinality(Copies(s, n)) + Cardinality(New) - Cardinality(Copies(s, n) \cap New)
      /\ Cardinality(Copies(s, n) \cap New) \in Nat
      /\ Cardinality(Copies(s, n)) \in Nat
      /\ Cardinality(New) = Occ(b, n)
  BY CopiesCounted, CopiesFinite, FS_Union, FS_Intersection, FS_CardinalityType
<1>4. Occ(b, n) \in Nat
  BY PlacesFinite DEF Occ
<1> HIDE DEF New
<1> QED BY <1>2, <1>3, <1>4 DEF t

LEMMA Joined ==
    ASSUME NEW S, NEW a \in Seq(S), NEW b \in Seq(S)
    PROVE  /\ a \o b \in Seq(S) /\ Len(a \o b) = Len(a) + Len(b)
           /\ \A j \in 1..Len(a) : (a \o b)[j] = a[j]
           /\ \A j \in (Len(a) + 1)..(Len(a) + Len(b)) : (a \o b)[j] = b[j - Len(a)]
OBVIOUS

LEMMA CopiesRemoved ==
    ASSUME NEW s \in Seq(Seq(Line)), NEW i \in 1..Len(s), NEW n \in Line
    PROVE  Cardinality(Copies(RemoveAt(s, i), n)) + Occ(s[i], n) <= Cardinality(Copies(s, n))
<1> DEFINE r == RemoveAt(s, i)
           Old == CopiesOf(i, s[i], n)
           Rest == Copies(s, n) \ Old
           from == [j \in 1..Len(r) |-> IF j < i THEN j ELSE j + 1]
           f == [c \in Copies(r, n) |-> <<from[c[1]], c[2]>>]
<1>1. /\ Len(s) \in Nat /\ s[i] \in Seq(Line) /\ r \in Seq(Seq(Line))
      /\ Len(r) = Len(s) - 1
      /\ \A j \in 1..Len(r) : r[j] = s[from[j]] /\ from[j] \in 1..Len(s) /\ from[j] # i
      /\ \A j, k \in 1..Len(r) : from[j] = from[k] => j = k
  <2> DEFINE a == SubSeq(s, 1, i - 1)
             b == SubSeq(s, i + 1, Len(s))
  <2>0. /\ Len(s) \in Nat /\ s[i] \in Seq(Line)
        /\ a \in Seq(Seq(Line)) /\ Len(a) = i - 1
        /\ \A j \in 1..(i - 1) : a[j] = s[j]
        /\ b \in Seq(Seq(Line)) /\ Len(b) = Len(s) - i
        /\ \A j \in 1..(Len(s) - i) : b[j] = s[i + j]
    OBVIOUS
  <2>4. r = a \o b
    BY DEF RemoveAt
  <2> HIDE DEF a, b, r
  <2>1. /\ Len(s) \in Nat /\ s[i] \in Seq(Line) /\ r \in Seq(Seq(Line))
        /\ Len(r) = Len(s) - 1
    <3>1. r \in Seq(Seq(Line)) /\ Len(r) = Len(a) + Len(b)
      BY <2>0, <2>4, Joined
    <3> QED BY <2>0, <3>1
  <2>2. ASSUME NEW j \in 1..Len(r)
        PROVE  r[j] = s[from[j]]
    <3>1. CASE j < i
      <4>1. j \in 1..Len(a) /\ r[j] = a[j]
        BY <2>0, <2>1, <2>4, <3>1, Joined
      <4> QED BY <2>0, <3>1, <4>1
    <3>2. CASE j >= i
      <4>1. r[j] = b[j - Len(a)]
        <5>1. j \in (Len(a) + 1)..(Len(a) + Len(b))
          BY <2>0, <2>1, <3>2
        <5> QED BY <2>0, <2>4, <5>1, Joined
      <4>2. j - Len(a) \in 1..(Len(s) - i) /\ i + (j - Len(a)) = j + 1
        BY <2>0, <2>1, <3>2
      <4>3. from[j] = j + 1
        BY <3>2
      <4> QED BY <2>0, <4>1, <4>2, <4>3
    <3> QED BY <3>1, <3>2, <2>1
  <2>3. /\ \A j \in 1..Len(r) : from[j] \in 1..Len(s) /\ from[j] # i
        /\ \A j, k \in 1..Len(r) : from[j] = from[k] => j = k
    BY <2>1
  <2> QED BY <2>1, <2>2, <2>3
<1> HIDE DEF r
<1>2. /\ IsFiniteSet(Copies(s, n)) /\ Cardinality(Copies(s, n)) \in Nat
      /\ Cardinality(Old) = Occ(s[i], n) /\ Occ(s[i], n) \in Nat
  BY <1>1, CopiesFinite, CopiesCounted, PlacesFinite DEF Occ
<1>3. Copies(s, n) \cap Old = Old
  <2>1. ASSUME NEW c \in Old
        PROVE  c \in Copies(s, n)
    BY <2>1 DEF Copies, CopiesOf
  <2> QED BY <2>1
<1>4. IsFiniteSet(Rest) /\ Cardinality(Rest) = Cardinality(Copies(s, n)) - Occ(s[i], n)
  <2>1. /\ IsFiniteSet(Copies(s, n) \ Old)
        /\ Cardinality(Copies(s, n) \ Old) =
               Cardinality(Copies(s, n)) - Cardinality(Copies(s, n) \cap Old)
    BY <1>2, FS_Difference
  <2> QED BY <1>2, <1>3, <2>1
<1> HIDE DEF from, Old
<1>5. Cardinality(Copies(r, n)) <= Cardinality(Rest)
  <2>1. ASSUME NEW c \in Copies(r, n)
        PROVE  /\ c[1] \in 1..Len(r) /\ c = <<c[1], c[2]>>
               /\ f[c] = <<from[c[1]], c[2]>> /\ f[c] \in Rest
    <3>0. PICK j \in 1..Len(r) : \E k \in Places(r[j], {n}) : c = <<j, k>>
      BY <2>1 DEF Copies, CopiesOf
    <3>1. PICK k \in Places(r[j], {n}) : c = <<j, k>>
      BY <3>0
    <3>2. f[c] = <<from[j], k>> /\ k \in Places(s[from[j]], {n})
      BY <3>1, <1>1
    <3>3. f[c] \in Copies(s, n)
      <4>1. PICK m \in 1..Len(s) : m = from[j]
        BY <1>1
      <4>2. f[c] \in CopiesOf(m, s[m], n)
        BY <3>2, <4>1 DEF CopiesOf
      <4> QED BY <4>2 DEF Copies
    <3>4. f[c] \notin Old
      BY <1>1, <3>2 DEF Old, CopiesOf
    <3> QED BY <3>1, <3>2, <3>3, <3>4
  <2>2. f \in [Copies(r, n) -> Rest]
    BY <2>1
  <2>3. \A x, y \in Copies(r, n) : f[x] = f[y] => x = y
    <3> SUFFICES ASSUME NEW x \in Copies(r, n), NEW y \in Copies(r, n), f[x] = f[y]
                 PROVE  x = y
      OBVIOUS
    <3>1. from[x[1]] = from[y[1]] /\ x[2] = y[2]
      BY <2>1
    <3>2. x[1] = y[1]
      BY <1>1, <2>1, <3>1
    <3>3. x = <<x[1], x[2]>> /\ y = <<y[1], y[2]>>
      BY <2>1
    <3> QED BY <3>1, <3>2, <3>3
  <2> QED BY <1>4, <2>2, <2>3, NotMore
<1>6. Cardinality(Copies(r, n)) \in Nat
  BY <1>1, CopiesFinite
<1> QED BY <1>2, <1>4, <1>5, <1>6 DEF r

-----------------------------------------------------------------------------
(* Duplicates *)

\* What may still become a row of line n: once for every copy the handler has,
\* twice for every payload a batch may yet be posted with.
Tries == IF sender.try = 1 THEN 2 ELSE 1

Weight(n) ==
    rows[n] + Cardinality(Copies(late, n)) + 2 * Occ(queue, n) + Tries * Occ(batch, n)

DuplicatesOK ==
    /\ sender.pc = "select" => sender.try = 1
    /\ \A n \in Line : Weight(n) <= 2 * taken[n]

LEMMA WeightTyped ==
    ASSUME TypeOK, NEW n \in Line
    PROVE  /\ rows[n] \in Nat /\ taken[n] \in Nat /\ Tries \in {1, 2}
           /\ Cardinality(Copies(late, n)) \in Nat
           /\ Occ(queue, n) \in Nat /\ Occ(batch, n) \in Nat
BY CopiesFinite, PlacesFinite DEF TypeOK, ReaderTypeOK, SenderTypeOK, HandlerTypeOK, Tries, Occ

\* An insert of b adds at most its copies.
LEMMA InsertAddsFew ==
    ASSUME TypeOK, NEW b \in Seq(Line), Insert(b), NEW n \in Line
    PROVE  rows'[n] \in Nat /\ rows'[n] <= rows[n] + Occ(b, n)
<1>0. rows[n] \in Nat /\ Occ(b, n) \in Nat
  BY PlacesFinite DEF TypeOK, HandlerTypeOK, Occ
<1>1. CASE UNCHANGED rows
  BY <1>0, <1>1
<1>2. ASSUME NEW known \in SUBSET Line,
             rows' = [m \in Line |-> rows[m] + Cardinality(Places(b, known \cap {m}))]
      PROVE  rows'[n] \in Nat /\ rows'[n] <= rows[n] + Occ(b, n)
  <2>1. Places(b, known \cap {n}) \in SUBSET Places(b, {n})
    BY DEF Places
  <2>2. /\ Cardinality(Places(b, known \cap {n})) <= Occ(b, n)
        /\ Cardinality(Places(b, known \cap {n})) \in Nat
    BY <2>1, PlacesFinite, FS_Subset DEF Occ
  <2>3. rows'[n] = rows[n] + Cardinality(Places(b, known \cap {n}))
    BY <1>2
  <2> QED BY <1>0, <2>2, <2>3
<1> QED BY <1>1, <1>2 DEF Insert

\* A payload moves on, or comes to rest, and is never posted more than twice.
LEMMA DuplicatesStay ==
    ASSUME IInv, DuplicatesOK,
           \/ Serve \/ Connect \/ Disconnect \/ FlushTick \/ Post \/ PostLost
           \/ UNCHANGED vars
    PROVE  DuplicatesOK'
<1>1. UNCHANGED <<rows, late, queue, taken>>
  BY DEF Serve, Connect, Disconnect, FlushTick, Post, PostLost, vars
<1>2. /\ sender'.pc = "select" => sender'.try = 1
      /\ \/ batch' = batch /\ (Tries' = Tries \/ Tries' = 1)
         \/ batch' = <<>>
  <2>1. CASE Serve \/ Connect \/ Disconnect \/ UNCHANGED vars
    BY <2>1 DEF Serve, Connect, Disconnect, vars, DuplicatesOK, Tries
  <2>2. CASE FlushTick \/ Post
    BY <2>2 DEF FlushTick, Post, DuplicatesOK, Tries, IInv, TypeOK, SenderTypeOK
  <2>3. CASE PostLost
    BY <2>3 DEF PostLost, TryFailed, Selecting, Tries
  <2> QED BY <2>1, <2>2, <2>3
<1>3. ASSUME NEW n \in Line
      PROVE  Weight(n)' <= 2 * taken'[n]
  <2>1. PICK r \in Nat, l \in Nat, q \in Nat, b \in Nat, t \in {1, 2}, k \in Nat :
            /\ r = rows[n] /\ l = Cardinality(Copies(late, n)) /\ q = Occ(queue, n)
            /\ b = Occ(batch, n) /\ t = Tries /\ k = taken[n]
    BY WeightTyped DEF IInv
  <2>2. r + l + 2 * q + t * b <= 2 * k
    BY <2>1 DEF DuplicatesOK, Weight
  <2>3. \/ Tries' \in {t, 1} /\ Occ(batch', n) = b
        \/ Tries' \in {1, 2} /\ Occ(batch', n) = 0
    BY <1>2, <2>1, NoneInEmpty DEF Tries
  <2>4. PICK u \in {1, 2}, c \in Nat : u = Tries' /\ c = Occ(batch', n) /\ u * c <= t * b
    BY <2>3
  <2>5. r + l + 2 * q + u * c <= 2 * k
    BY <2>2, <2>4
  <2> QED BY <1>1, <2>1, <2>4, <2>5 DEF Weight
<1> QED BY <1>2, <1>3 DEF DuplicatesOK

LEMMA ReadLineAddsTwo ==
    ASSUME IInv, DuplicatesOK, ReadLine
    PROVE  DuplicatesOK'
<1>1. UNCHANGED <<rows, late, batch, sender>>
  BY DEF ReadLine
<1>2. PICK m \in Line : m = stream.next
  BY SenderAssumed DEF ReadLine, Line, IInv, TypeOK, ReaderTypeOK, SenderAssumption
<1>3. /\ taken' = [taken EXCEPT ![m] = @ + 1]
      /\ queue' = Append(queue, m) \/ queue' = queue
  BY <1>2 DEF ReadLine, Enqueue
<1>4. ASSUME NEW n \in Line
      PROVE  Weight(n)' <= 2 * taken'[n]
  <2>1. PICK r \in Nat, l \in Nat, q \in Nat, b \in Nat, t \in {1, 2}, k \in Nat :
            /\ r = rows[n] /\ l = Cardinality(Copies(late, n)) /\ q = Occ(queue, n)
            /\ b = Occ(batch, n) /\ t = Tries /\ k = taken[n]
    BY WeightTyped DEF IInv
  <2>2. r + l + 2 * q + t * b <= 2 * k
    BY <2>1 DEF DuplicatesOK, Weight
  <2>3. PICK e \in {0, 1} : e = IF m = n THEN 1 ELSE 0
    OBVIOUS
  <2>4. taken'[n] = k + e
    BY <1>3, <2>1, <2>3 DEF IInv, TypeOK, ReaderTypeOK
  <2>5. PICK p \in Nat : p = Occ(queue', n) /\ p <= q + e
    <3>1. CASE queue' = queue
      BY <2>1, <3>1
    <3>2. CASE queue' = Append(queue, m)
      BY <2>1, <2>3, <3>2, OneMore DEF IInv, TypeOK, SenderTypeOK
    <3> QED BY <1>3, <3>1, <3>2
  <2>6. r + l + 2 * p + t * b <= 2 * (k + e)
    BY <2>2, <2>5
  <2> QED BY <1>1, <2>1, <2>4, <2>5, <2>6 DEF Weight, Tries
<1> QED BY <1>1, <1>4 DEF DuplicatesOK

LEMMA TakePayloadMoves ==
    ASSUME IInv, DuplicatesOK, TakePayload
    PROVE  DuplicatesOK'
<1>1. UNCHANGED <<rows, late, taken>>
  BY DEF TakePayload
<1>2. Tries = 2 /\ sender'.try = 1 /\ Tries' = 2
  BY DEF TakePayload, DuplicatesOK, Tries, IInv, TypeOK, SenderTypeOK
<1>3. /\ queue \in Seq(Line) /\ queue # <<>> /\ batch \in Seq(Line) /\ Head(queue) \in Line
      /\ queue' = Tail(queue) /\ batch' = Append(batch, Head(queue))
      /\ Tail(queue) \in Seq(Line)
  BY Taken DEF TakePayload, IInv, TypeOK, SenderTypeOK
<1>4. ASSUME NEW n \in Line
      PROVE  Weight(n)' <= 2 * taken'[n]
  <2>1. PICK r \in Nat, l \in Nat, q \in Nat, b \in Nat, k \in Nat, e \in {0, 1}, p \in Nat :
            /\ r = rows[n] /\ l = Cardinality(Copies(late, n)) /\ q = Occ(queue, n)
            /\ b = Occ(batch, n) /\ k = taken[n] /\ e = (IF Head(queue) = n THEN 1 ELSE 0)
            /\ p = Occ(Tail(queue), n)
    BY <1>3, WeightTyped, PlacesFinite DEF IInv, Occ
  <2>2. r + l + 2 * q + 2 * b <= 2 * k
    BY <1>2, <2>1 DEF DuplicatesOK, Weight
  <2>3. Occ(queue', n) = p /\ p + e <= q
    BY <1>3, <2>1, OneLess
  <2>4. Occ(batch', n) = b + e
    BY <1>3, <2>1, OneMore
  <2>5. r + l + 2 * p + 2 * (b + e) <= 2 * k
    BY <2>2, <2>3
  <2> QED BY <1>1, <1>2, <2>1, <2>3, <2>4, <2>5 DEF Weight
<1> QED BY <1>2, <1>4 DEF DuplicatesOK

\* The handler keeps a copy, and one try fewer is left.
LEMMA TimeoutMoves ==
    ASSUME IInv, DuplicatesOK, Timeout
    PROVE  DuplicatesOK'
<1>1. UNCHANGED <<rows, queue, taken>> /\ late' = Append(late, batch)
  BY DEF Timeout
<1>2. /\ sender'.pc = "select" => sender'.try = 1
      /\ \/ Tries = 2 /\ Tries' = 1 /\ batch' = batch
         \/ Tries = 1 /\ Tries' = 1 /\ batch' = <<>>
         \/ Tries = 1 /\ Tries' = 2 /\ batch' = <<>>
  BY DEF Timeout, TryFailed, Selecting, Tries
<1>3. ASSUME NEW n \in Line
      PROVE  Weight(n)' <= 2 * taken'[n]
  <2>1. PICK r \in Nat, l \in Nat, q \in Nat, b \in Nat, k \in Nat :
            /\ r = rows[n] /\ l = Cardinality(Copies(late, n)) /\ q = Occ(queue, n)
            /\ b = Occ(batch, n) /\ k = taken[n]
    BY WeightTyped DEF IInv
  <2>2. r + l + 2 * q + Tries * b <= 2 * k
    BY <2>1 DEF DuplicatesOK, Weight
  <2>3. PICK m \in Nat : m = Cardinality(Copies(late', n)) /\ m <= l + b
    BY <1>1, <2>1, CopiesAdded, CopiesFinite, Appended
    DEF IInv, TypeOK, SenderTypeOK, HandlerTypeOK
  <2>4. CASE Tries = 2 /\ Tries' = 1 /\ batch' = batch
    <3>1. r + m + 2 * q + 1 * b <= 2 * k
      BY <2>2, <2>3, <2>4
    <3> QED BY <1>1, <2>1, <2>3, <2>4, <3>1 DEF Weight
  <2>5. CASE Tries = 1 /\ batch' = <<>> /\ Tries' \in {1, 2}
    <3>1. r + m + 2 * q <= 2 * k
      BY <2>2, <2>3, <2>5
    <3>2. Occ(batch', n) = 0
      BY <2>5, NoneInEmpty
    <3>3. PICK u \in {1, 2} : u = Tries'
      BY <2>5
    <3>4. r + m + 2 * q + u * 0 <= 2 * k
      BY <3>1
    <3> QED BY <1>1, <2>1, <2>3, <3>2, <3>3, <3>4 DEF Weight
  <2> QED BY <1>2, <2>4, <2>5
<1> QED BY <1>2, <1>3 DEF DuplicatesOK

LEMMA AnswerMoves ==
    ASSUME IInv, DuplicatesOK, Answer
    PROVE  DuplicatesOK'
<1>1. /\ UNCHANGED <<late, queue, taken>> /\ Insert(batch)
      /\ batch' = <<>> /\ sender' = Selecting
  BY DEF Answer
<1>2. ASSUME NEW n \in Line
      PROVE  Weight(n)' <= 2 * taken'[n]
  <2>1. PICK r \in Nat, l \in Nat, q \in Nat, b \in Nat, k \in Nat, t \in {1, 2} :
            /\ r = rows[n] /\ l = Cardinality(Copies(late, n)) /\ q = Occ(queue, n)
            /\ b = Occ(batch, n) /\ k = taken[n] /\ t = Tries
    BY WeightTyped DEF IInv
  <2>2. r + l + 2 * q + t * b <= 2 * k
    BY <2>1 DEF DuplicatesOK, Weight
  <2>3. PICK s \in Nat : s = rows'[n] /\ s <= r + b
    BY <1>1, <2>1, InsertAddsFew DEF IInv, TypeOK, SenderTypeOK
  <2>4. Occ(batch', n) = 0 /\ Tries' = 2
    BY <1>1, NoneInEmpty DEF Selecting, Tries
  <2>5. s + l + 2 * q + 2 * 0 <= 2 * k
    BY <2>2, <2>3
  <2> QED BY <1>1, <2>1, <2>3, <2>4, <2>5 DEF Weight
<1> QED BY <1>1, <1>2 DEF DuplicatesOK, Selecting

LEMMA RecordLateMoves ==
    ASSUME IInv, DuplicatesOK, RecordLate
    PROVE  DuplicatesOK'
<1>1. PICK i \in 1..Len(late) : Insert(late[i]) /\ late' = RemoveAt(late, i)
  <2>1. PICK j \in DOMAIN late : Insert(late[j]) /\ late' = RemoveAt(late, j)
    BY DEF RecordLate
  <2>2. DOMAIN late = 1..Len(late)
    BY DEF IInv, TypeOK, HandlerTypeOK
  <2> QED BY <2>1, <2>2
<1>2. UNCHANGED <<queue, taken, batch, sender>>
  BY DEF RecordLate
<1>3. late \in Seq(Seq(Line)) /\ late[i] \in Seq(Line) /\ late' \in Seq(Seq(Line))
  BY <1>1, RemovalTyped DEF IInv, TypeOK, HandlerTypeOK
<1>4. ASSUME NEW n \in Line
      PROVE  Weight(n)' <= 2 * taken'[n]
  <2>1. PICK r \in Nat, l \in Nat, q \in Nat, b \in Nat, k \in Nat, t \in {1, 2}, o \in Nat :
            /\ r = rows[n] /\ l = Cardinality(Copies(late, n)) /\ q = Occ(queue, n)
            /\ b = Occ(batch, n) /\ k = taken[n] /\ t = Tries /\ o = Occ(late[i], n)
    BY <1>3, WeightTyped, PlacesFinite DEF IInv, Occ
  <2>2. r + l + 2 * q + t * b <= 2 * k
    BY <2>1 DEF DuplicatesOK, Weight
  <2>3. PICK s \in Nat, m \in Nat : /\ s = rows'[n] /\ s <= r + o
                                    /\ m = Cardinality(Copies(late', n)) /\ m + o <= l
    BY <1>1, <1>3, <2>1, InsertAddsFew, CopiesRemoved, CopiesFinite DEF IInv
  <2>4. PICK w \in Nat : w = t * b
    OBVIOUS
  <2>5. s + m <= r + l
    BY <2>3
  <2>6. s + m + 2 * q + w <= 2 * k
    BY <2>2, <2>4, <2>5
  <2>7. Tries' = t /\ Occ(queue', n) = q /\ Occ(batch', n) = b /\ taken'[n] = k
    BY <1>2, <2>1 DEF Tries
  <2> QED BY <2>3, <2>4, <2>6, <2>7 DEF Weight
<1> QED BY <1>2, <1>4 DEF DuplicatesOK

LEMMA RestartMoves ==
    ASSUME IInv, DuplicatesOK, Restart
    PROVE  DuplicatesOK'
<1>1. /\ UNCHANGED <<rows, taken>> /\ queue' = <<>> /\ batch' = <<>> /\ sender' = Selecting
      /\ late' = late \/ late' = Append(late, batch)
  BY DEF Restart
<1>2. ASSUME NEW n \in Line
      PROVE  Weight(n)' <= 2 * taken'[n]
  <2>1. PICK r \in Nat, l \in Nat, q \in Nat, b \in Nat, k \in Nat, t \in {1, 2} :
            /\ r = rows[n] /\ l = Cardinality(Copies(late, n)) /\ q = Occ(queue, n)
            /\ b = Occ(batch, n) /\ k = taken[n] /\ t = Tries
    BY WeightTyped DEF IInv
  <2>2. r + l + 2 * q + t * b <= 2 * k
    BY <2>1 DEF DuplicatesOK, Weight
  <2>3. PICK m \in Nat : m = Cardinality(Copies(late', n)) /\ m <= l + b
    <3>1. CASE late' = late
      BY <2>1, <3>1
    <3>2. CASE late' = Append(late, batch)
      BY <2>1, <3>2, CopiesAdded, CopiesFinite, Appended
      DEF IInv, TypeOK, SenderTypeOK, HandlerTypeOK
    <3> QED BY <1>1, <3>1, <3>2
  <2>4. Occ(queue', n) = 0 /\ Occ(batch', n) = 0 /\ Tries' = 2
    BY <1>1, NoneInEmpty DEF Selecting, Tries
  <2>5. r + m + 2 * 0 + 2 * 0 <= 2 * k
    BY <2>2, <2>3
  <2> QED BY <1>1, <2>1, <2>3, <2>4, <2>5 DEF Weight
<1> QED BY <1>1, <1>2 DEF DuplicatesOK, Selecting

LEMMA InitDuplicates == Init => DuplicatesOK
<1> SUFFICES ASSUME Init PROVE DuplicatesOK
  OBVIOUS
<1>1. ASSUME NEW n \in Line
      PROVE  Weight(n) <= 2 * taken[n]
  <2>1. Copies(late, n) = {}
    BY DEF Init, Copies
  <2>2. /\ rows[n] = 0 /\ taken[n] = 0 /\ Tries = 2 /\ Cardinality(Copies(late, n)) = 0
        /\ Occ(queue, n) = 0 /\ Occ(batch, n) = 0
    BY <2>1, FS_EmptySet, NoneInEmpty DEF Init, Selecting, Tries
  <2> QED BY <2>2 DEF Weight
<1> QED BY <1>1 DEF Init, Selecting, DuplicatesOK

(***************************************************************************)
(* A line that was read k times is in the table at most 2k times: a retry  *)
(* after an answer that was only late inserts a batch twice, and no        *)
(* sequence of timeouts, restarts and late inserts does it more often.     *)
(***************************************************************************)
THEOREM DuplicatesBounded == Spec => []AtMostTwice
<1>1. IInv /\ DuplicatesOK /\ [Next]_vars => DuplicatesOK'
  BY DuplicatesStay, ReadLineAddsTwo, TakePayloadMoves, TimeoutMoves, AnswerMoves,
     RecordLateMoves, RestartMoves DEF Next
<1>2. IInv /\ DuplicatesOK => AtMostTwice
  <2> SUFFICES ASSUME IInv, DuplicatesOK, NEW n \in Line
               PROVE  rows[n] <= 2 * taken[n]
    BY DEF AtMostTwice
  <2>1. PICK r \in Nat, l \in Nat, q \in Nat, b \in Nat, k \in Nat, t \in {1, 2} :
            /\ r = rows[n] /\ l = Cardinality(Copies(late, n)) /\ q = Occ(queue, n)
            /\ b = Occ(batch, n) /\ k = taken[n] /\ t = Tries
    BY WeightTyped DEF IInv
  <2>2. r + l + 2 * q + t * b <= 2 * k
    BY <2>1 DEF DuplicatesOK, Weight
  <2>3. r <= 2 * k
    BY <2>2
  <2> QED BY <2>1, <2>3
<1> QED
  BY <1>1, <1>2, InitDuplicates, SpecKeepsIInv, PTL DEF Spec


-----------------------------------------------------------------------------
(* Sent and inserted *)

\* The rows of a table that holds line n r[n] times.
RowsOf(r) == UNION {{n} \X (1..r[n]) : n \in Line}

LEMMA RowsFinite ==
    ASSUME NEW r \in [Line -> Nat]
    PROVE  IsFiniteSet(RowsOf(r)) /\ Cardinality(RowsOf(r)) \in Nat
<1> DEFINE U == {{n} \X (1..r[n]) : n \in Line}
           f == [n \in Line |-> {n} \X (1..r[n])]
<1>1. f \in Surjection(Line, U)
  BY DEF Surjection
<1>2. IsFiniteSet(Line)
  BY SenderAssumed, FS_Interval DEF Line, SenderAssumption
<1>3. IsFiniteSet(U)
  BY <1>1, <1>2, FS_Surjection
<1>4. ASSUME NEW n \in Line
      PROVE  IsFiniteSet({n} \X (1..r[n]))
  <2>0. 1 \in Int /\ r[n] \in Int
    OBVIOUS
  <2>1. IsFiniteSet({n}) /\ IsFiniteSet(1..r[n])
    BY <2>0, FS_Singleton, FS_Interval
  <2> QED BY <2>1, FS_Product
<1>5. IsFiniteSet(UNION U)
  BY <1>3, <1>4, FS_UNION
<1> QED BY <1>5, FS_CardinalityType DEF RowsOf

\* A finite set can be numbered.
LEMMA Numbered ==
    ASSUME NEW S, IsFiniteSet(S)
    PROVE  \E h \in [S -> 1..Cardinality(S)] : \A x, y \in S : h[x] = h[y] => x = y
<1>1. ExistsBijection(S, 1..Cardinality(S))
  BY FS_CardinalityType, Fun_ExistsBijSymmetric
<1>2. PICK h \in Bijection(S, 1..Cardinality(S)) : TRUE
  BY <1>1, Fun_ExistsBij
<1>3. h \in [S -> 1..Cardinality(S)] /\ \A x, y \in S : h[x] = h[y] => x = y
  BY <1>2, Fun_BijectionProperties
<1> QED BY <1>3

\* An insert of b adds a row for every payload whose subdomain resolves.
LEMMA KnownInserted ==
    ASSUME NEW r \in [Line -> Nat], NEW s \in [Line -> Nat], NEW b \in Seq(Line),
           NEW known \in SUBSET Line,
           s = [n \in Line |-> r[n] + Cardinality(Places(b, known \cap {n}))]
    PROVE  Cardinality(RowsOf(r)) + Cardinality(Places(b, known)) <= Cardinality(RowsOf(s))
<1> DEFINE P(n) == Places(b, known \cap {n})
           Numbers(n, h) == /\ h \in [P(n) -> 1..Cardinality(P(n))]
                            /\ \A x, y \in P(n) : h[x] = h[y] => x = y
           g == [n \in Line |-> CHOOSE h : Numbers(n, h)]
           f == [i \in Places(b, known) |-> <<b[i], r[b[i]] + g[b[i]][i]>>]
           New == RowsOf(s) \ RowsOf(r)
<1>1. ASSUME NEW n \in Line
      PROVE  Cardinality(P(n)) \in Nat /\ Numbers(n, g[n])
  <2>1. IsFiniteSet(P(n)) /\ Cardinality(P(n)) \in Nat
    BY PlacesFinite
  <2>2. \E h : Numbers(n, h)
    BY <2>1, Numbered
  <2> QED BY <2>1, <2>2
<1>2. ASSUME NEW i \in Places(b, known)
      PROVE  /\ b[i] \in Line /\ i \in P(b[i])
             /\ g[b[i]][i] \in 1..Cardinality(P(b[i]))
  <2>1. b[i] \in Line /\ i \in P(b[i])
    BY DEF Places
  <2> QED BY <1>1, <2>1
<1>3. ASSUME NEW n \in Line
      PROVE  s[n] = r[n] + Cardinality(P(n))
  OBVIOUS
<1> HIDE DEF P, g
<1>4. ASSUME NEW i \in Places(b, known)
      PROVE  f[i] = <<b[i], r[b[i]] + g[b[i]][i]>> /\ f[i] \in New
  <2>1. PICK n \in Line, c \in Nat, k \in Nat, m \in Nat :
            n = b[i] /\ c = Cardinality(P(n)) /\ k = g[n][i] /\ m = r[n] /\ k \in 1..c
    <3>1. b[i] \in Line /\ Cardinality(P(b[i])) \in Nat /\ r[b[i]] \in Nat
      BY <1>1, <1>2
    <3>2. g[b[i]][i] \in 1..Cardinality(P(b[i])) /\ g[b[i]][i] \in Nat
      BY <1>2, <3>1
    <3> QED BY <3>1, <3>2
  <2>2. f[i] = <<n, m + k>> /\ s[n] = m + c
    BY <1>3, <2>1
  <2>3. m + k \in 1..(m + c) /\ m + k \notin 1..m
    BY <2>1
  <2>4. f[i] \in RowsOf(s) /\ f[i] \notin RowsOf(r)
    BY <2>1, <2>2, <2>3 DEF RowsOf
  <2> QED BY <2>4
<1>5. ASSUME NEW i \in Places(b, known), NEW j \in Places(b, known), f[i] = f[j]
      PROVE  i = j
  <2>1. b[i] = b[j] /\ r[b[i]] + g[b[i]][i] = r[b[i]] + g[b[i]][j]
    BY <1>4, <1>5
  <2>2. PICK n \in Line, k \in Nat, l \in Nat, m \in Nat :
            n = b[i] /\ k = g[n][i] /\ l = g[n][j] /\ m = r[n]
    BY <1>1, <1>2, <2>1
  <2>3. k = l
    BY <2>1, <2>2
  <2> QED BY <1>1, <1>2, <2>1, <2>2, <2>3
<1>6. RowsOf(r) \in SUBSET RowsOf(s)
  <2>1. ASSUME NEW n \in Line
        PROVE  1..r[n] \in SUBSET (1..s[n])
    BY <1>1, <1>3
  <2> QED BY <2>1 DEF RowsOf
<1>7. /\ IsFiniteSet(New)
      /\ Cardinality(New) = Cardinality(RowsOf(s)) - Cardinality(RowsOf(r))
      /\ Cardinality(RowsOf(s)) \in Nat /\ Cardinality(RowsOf(r)) \in Nat
  <2>1. RowsOf(s) \cap RowsOf(r) = RowsOf(r)
    BY <1>6
  <2>2. /\ IsFiniteSet(RowsOf(s)) /\ Cardinality(RowsOf(s)) \in Nat
        /\ Cardinality(RowsOf(r)) \in Nat
    BY RowsFinite
  <2>3. /\ IsFiniteSet(RowsOf(s) \ RowsOf(r))
        /\ Cardinality(RowsOf(s) \ RowsOf(r)) =
               Cardinality(RowsOf(s)) - Cardinality(RowsOf(s) \cap RowsOf(r))
    <3> HIDE DEF New
    <3> QED BY <2>2, FS_Difference
  <2> QED BY <2>1, <2>2, <2>3
<1>8. Cardinality(Places(b, known)) <= Cardinality(New)
  <2>1. f \in [Places(b, known) -> New] /\ \A x, y \in Places(b, known) : f[x] = f[y] => x = y
    BY <1>4, <1>5
  <2> HIDE DEF f, New
  <2> QED BY <1>7, <2>1, NotMore
<1> QED BY <1>7, <1>8, PlacesFinite

\* Every payload of a batch is inserted or refused.
LEMMA InsertAddsAll ==
    ASSUME TypeOK, NEW b \in Seq(Line), Insert(b)
    PROVE  /\ Cardinality(Inserted') \in Nat /\ refused' \in Nat
           /\ Cardinality(Inserted) + refused + Len(b) <= Cardinality(Inserted') + refused'
<1>0. /\ rows \in [Line -> Nat] /\ refused \in Nat /\ rows' \in [Line -> Nat] /\ refused' \in Nat
      /\ Len(b) \in Nat
  BY InsertTyped DEF TypeOK, HandlerTypeOK
<1>1. Inserted = RowsOf(rows) /\ Inserted' = RowsOf(rows')
  BY DEF Inserted, RowsOf
<1>2. Cardinality(RowsOf(rows)) \in Nat /\ Cardinality(RowsOf(rows')) \in Nat
  BY <1>0, RowsFinite
<1>3. CASE refused' = refused + Len(b) /\ UNCHANGED rows
  BY <1>0, <1>1, <1>2, <1>3
<1>4. ASSUME NEW known \in SUBSET Line,
             rows' = [n \in Line |-> rows[n] + Cardinality(Places(b, known \cap {n}))],
             refused' = refused + Cardinality(Places(b, Line \ known))
      PROVE  Cardinality(Inserted) + refused + Len(b) <= Cardinality(Inserted') + refused'
  <2>1. Cardinality(RowsOf(rows)) + Cardinality(Places(b, known)) <= Cardinality(RowsOf(rows'))
    BY <1>0, <1>4, KnownInserted
  <2>2. /\ Places(b, known) \cup Places(b, Line \ known) = 1..Len(b)
        /\ Places(b, known) \cap Places(b, Line \ known) = {}
    BY DEF Places
  <2>3. Cardinality(1..Len(b)) = Len(b)
    <3>1. 1 \in Int /\ Len(b) \in Int
      BY <1>0
    <3>2. Cardinality(1..Len(b)) = IF 1 > Len(b) THEN 0 ELSE Len(b) - 1 + 1
      BY <3>1, FS_Interval
    <3> QED BY <1>0, <3>2
  <2>4. Len(b) = Cardinality(Places(b, known)) + Cardinality(Places(b, Line \ known)) - 0
    <3> DEFINE K == Places(b, known)
               U == Places(b, Line \ known)
    <3>1. IsFiniteSet(K) /\ IsFiniteSet(U)
      BY PlacesFinite
    <3> HIDE DEF K, U
    <3>2. Cardinality(K \cup U) = Cardinality(K) + Cardinality(U) - Cardinality(K \cap U)
      BY <3>1, FS_Union
    <3> QED BY <2>2, <2>3, <3>2, FS_EmptySet DEF K, U
  <2> QED BY <1>0, <1>1, <1>2, <1>4, <2>1, <2>4, PlacesFinite
<1> QED BY <1>0, <1>1, <1>2, <1>3, <1>4 DEF Insert

(***************************************************************************)
(* Whatever Run counts as sent, the handler has inserted or refused, for   *)
(* any batches, late inserts and lost posts: success is only ever counted  *)
(* after an answer.                                                        *)
(***************************************************************************)
THEOREM SentArrived == Spec => []SentIsInserted
<1>1. Init => SentIsInserted
  <2> SUFFICES ASSUME Init PROVE SentIsInserted
    OBVIOUS
  <2>1. rows \in [Line -> Nat] /\ Inserted = RowsOf(rows)
    BY DEF Init, Inserted, RowsOf
  <2>2. Cardinality(Inserted) \in Nat
    BY <2>1, RowsFinite
  <2> QED BY <2>2 DEF Init, SentIsInserted
<1>2. ASSUME IInv, SentIsInserted, [Next]_vars
      PROVE  SentIsInserted'
  <2>1. PICK i \in Nat, r \in Nat, n \in Nat :
            i = Cardinality(Inserted) /\ r = refused /\ n = sent /\ n <= i + r
    <3>1. Inserted = RowsOf(rows) /\ rows \in [Line -> Nat]
      BY <1>2 DEF Inserted, RowsOf, IInv, TypeOK, HandlerTypeOK
    <3> QED BY <1>2, <3>1, RowsFinite
            DEF SentIsInserted, IInv, TypeOK, SenderTypeOK, HandlerTypeOK
  <2>2. CASE /\ UNCHANGED <<rows, refused>>
             /\ sent' = sent \/ sent' = 0
    <3>1. Inserted' = Inserted /\ refused' = refused
      BY <2>2 DEF Inserted
    <3>2. sent' = n \/ sent' = 0
      BY <2>1, <2>2
    <3>3. n <= i + r /\ 0 <= i + r
      BY <2>1
    <3> QED BY <2>1, <3>1, <3>2, <3>3 DEF SentIsInserted
  <2>3. CASE Answer
    <3>1. PICK l \in Nat : l = Len(batch) /\ sent' = n + l
      BY <2>1, <2>3, <1>2 DEF Answer, IInv, TypeOK, SenderTypeOK
    <3>2. PICK j \in Nat, s \in Nat :
              j = Cardinality(Inserted') /\ s = refused' /\ i + r + l <= j + s
      BY <1>2, <2>1, <2>3, <3>1, InsertAddsAll DEF Answer, IInv, TypeOK, SenderTypeOK
    <3>3. n + l <= j + s
      BY <2>1, <3>2
    <3> QED BY <3>1, <3>2, <3>3 DEF SentIsInserted
  <2>4. CASE RecordLate
    <3>1. PICK k \in DOMAIN late : Insert(late[k])
      BY <2>4 DEF RecordLate
    <3>2. late[k] \in Seq(Line) /\ Len(late[k]) \in Nat
      BY <1>2 DEF IInv, TypeOK, HandlerTypeOK
    <3>3. PICK j \in Nat, s \in Nat, l \in Nat :
              /\ j = Cardinality(Inserted') /\ s = refused' /\ l = Len(late[k])
              /\ i + r + l <= j + s
      BY <1>2, <2>1, <3>1, <3>2, InsertAddsAll DEF IInv
    <3>4. n <= j + s
      BY <2>1, <3>3
    <3>5. sent' = n
      BY <2>1, <2>4 DEF RecordLate, stats
    <3> QED BY <3>3, <3>4, <3>5 DEF SentIsInserted
  <2>5. CASE Restart
    BY <2>2, <2>5 DEF Restart
  <2>6. CASE \/ Serve \/ Connect \/ Disconnect \/ ReadLine \/ TakePayload \/ FlushTick
             \/ Post \/ PostLost \/ Timeout \/ UNCHANGED vars
    BY <2>2, <2>6 DEF Serve, Connect, Disconnect, ReadLine, Enqueue, TakePayload, FlushTick,
                      Post, PostLost, Timeout, TryFailed, stats, vars
  <2> QED BY <1>2, <2>3, <2>4, <2>5, <2>6 DEF Next
<1> QED BY <1>1, <1>2, SpecKeepsIInv, PTL DEF Spec


=============================================================================
