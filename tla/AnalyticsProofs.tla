--------------------------- MODULE AnalyticsProofs ---------------------------
(***************************************************************************)
(* Proofs about the telemetry cache and the collector, for any deployments *)
(* and names, lifetimes, capacities, posts and bounds: the state keeps its *)
(* shape, answers are recent, windows are nested.                          *)
(***************************************************************************)
EXTENDS AnalyticsProperties, FiniteSetTheorems, TLAPS

-----------------------------------------------------------------------------
(* The inductive invariant of the handlers *)

\* An entry that has not expired was right when it was looked up.
EntryFits(i, e) ==
    e.left >= 0 => Since(i, e.answer) <= TTL(e.answer) - e.left + PostTicks

Working == {"evict", "get", "list", "confirm", "store", "storeId"}

\* What a handler has found was right while it was handling the post: a row it
\* has found stays, an identifier it has not may have got a row since.
FoundFits(q) ==
    LET i == Head(q.todo)
    IN /\ q.pc = "idle" => \A j \in Identifiers : q.local[j] = "none"
       /\ q.pc \in Working => q.todo # <<>>
       /\ q.pc = "confirm" =>
              \/ q.got \in Rows /\ Since(i, q.got) <= q.age
              \/ q.got \notin Rows /\ q.got = i /\ Since(i, Unknown) <= q.age
       /\ q.pc \in {"store", "storeId"} =>
              q.got \in Rows \cup {Unknown} /\ Since(i, q.got) <= q.age
       /\ q.pc = "storeId" => q.got \in Rows

LocalFits(q) ==
    \A i \in Identifiers :
        q.local[i] # "none" => Since(i, q.local[i]) <= TTL(q.local[i]) + PostTicks + q.age

CacheOK ==
    /\ IsFiniteSet(DOMAIN cache) /\ Cardinality(DOMAIN cache) <= CacheEntries
    /\ \A i \in DOMAIN cache : i \in Identifiers /\ cache[i] \in Entry /\ EntryFits(i, cache[i])

PostsOK ==
    /\ post \in [Posts -> PostRecord]
    /\ \A p \in Posts : FoundFits(post[p]) /\ LocalFits(post[p])

HandlersOK ==
    /\ database \in BOOLEAN /\ stored \in Seq(Deployments)
    /\ ago \in [Identifiers -> [Results -> 0..Old]]
    /\ CacheOK /\ PostsOK

-----------------------------------------------------------------------------
(* The inductive invariant of the collector *)

USE DEF placeVars

CollectorTypeOK ==
    /\ running \subseteq Deployments /\ here \subseteq Deployments
    /\ requests \in [Deployments -> [Ages -> Nat]]
    /\ metrics \in [Deployments -> Metrics]
    /\ round \in Round

\* What has been counted is there, until the clean-up.
RoundFits(r) ==
    LET got == r.got
        d == r.dep
    IN /\ r.pc = "total" => got.hour = 0 /\ got.day = 0
       /\ r.pc = "first" => got.total <= Total(d) /\ got.hour = 0 /\ got.day = 0
       /\ r.pc = "second" => got.total <= Total(d) /\ got.hour <= LastHour(d) /\ got.day = 0
       /\ r.pc \in {"bytes", "latency", "write"} => got.hour <= got.day
       /\ r.pc = "bytes" => got.total <= Total(d) /\ got.day <= Total(d)
       /\ r.pc \in {"latency", "write"} /\ used["faults"] = 0 =>
              got.total <= got.bytes /\ got.day <= got.bytes

CollectorOK == CollectorTypeOK /\ RoundFits(round) /\ WindowsNested

LimitsOK == limits \in Limits /\ used \in [Bounded -> Nat]

IInv == HandlersOK /\ CollectorOK /\ LimitsOK

-----------------------------------------------------------------------------
(* Answers and their ages *)

LEMMA TimesTyped ==
    /\ \A a \in Results : TTL(a) \in 0..(CacheTTL + NegativeTTL)
    /\ PostTicks \in Nat /\ Old \in Nat
    BY ResolveAssumed DEF ResolveAssumption, TTL, Old

LEMMA SinceTyped ==
    ASSUME ago \in [Identifiers -> [Results -> 0..Old]], NEW i \in Identifiers, NEW a \in Results
    PROVE  Since(i, a) \in 0..Old
    BY TimesTyped DEF Since

\* A deployment with a row is what its id means; else an identifier means what
\* is listed, or nothing.
LEMMA Meanings ==
    ASSUME stored \in Seq(Deployments), NEW i \in Identifiers
    PROVE  /\ i \in Rows => Since(i, i) = 0
           /\ i \notin Rows /\ Listed(i) = {} => Since(i, Unknown) = 0
           /\ \A d \in Listed(i) : d \in Rows /\ Since(i, d) = 0
  <1>1. Rows \subseteq Deployments
    BY DEF Rows
  <1>2. Listed(i) \subseteq Rows
    BY DEF Listed, Rows
  <1>3. i \in Deployments => Listed(i) = {}
    <2>1. \A n \in DOMAIN stored : NameOf[stored[n]] \in Names
      BY ResolveAssumed DEF ResolveAssumption
    <2> QED
      BY <2>1, ResolveAssumed DEF Listed, ResolveAssumption
  <1> QED
    BY <1>1, <1>2, <1>3 DEF Since, Answers

LEMMA RowsTyped ==
    ASSUME stored \in Seq(Deployments)
    PROVE  Rows \subseteq Deployments
    BY DEF Rows

\* No answer gets older.
Steady == \A i \in Identifiers, a \in Results : Since(i, a)' <= Since(i, a)

LEMMA SteadyAsIs ==
    ASSUME HandlersOK, UNCHANGED <<database, stored, ago>>
    PROVE  Steady /\ Rows' = Rows /\ ago' \in [Identifiers -> [Results -> 0..Old]]
  <1>1. \A i \in Identifiers : Answers(i)' = Answers(i)
    BY DEF Answers, Listed, Rows
  <1>2. \A i \in Identifiers, a \in Results : Since(i, a) \in 0..Old
    BY SinceTyped DEF HandlersOK
  <1>3. \A i \in Identifiers, a \in Results : Since(i, a)' = Since(i, a)
    BY <1>1 DEF Since
  <1> QED
    BY <1>2, <1>3, TimesTyped DEF Steady, HandlersOK, Rows

LEMMA SteadyUnanswered ==
    ASSUME HandlersOK, UNCHANGED <<database, stored>>, NEW i \in Identifiers, Unanswered(i)
    PROVE  /\ Steady /\ Rows' = Rows /\ ago' \in [Identifiers -> [Results -> 0..Old]]
           /\ Since(i, Unknown)' = 0
  <1>1. /\ ago \in [Identifiers -> [Results -> 0..Old]] /\ Unknown \in Results /\ 0 \in 0..Old
        /\ ago' = [ago EXCEPT ![i][Unknown] = 0]
    <2>1. 0 \in 0..Old
      BY TimesTyped
    <2> QED
      BY <2>1 DEF HandlersOK, Results, Unanswered
  <1>2. /\ ago' \in [Identifiers -> [Results -> 0..Old]]
        /\ ago'[i][Unknown] = 0
        /\ \A j \in Identifiers, a \in Results : ago'[j][a] \in {0, ago[j][a]}
    BY <1>1
  <1>3. \A j \in Identifiers : Answers(j)' = Answers(j)
    BY DEF Answers, Listed, Rows
  <1>4. \A j \in Identifiers, a \in Results : ago[j][a] \in 0..Old
    BY <1>1
  <1> QED
    BY <1>1, <1>2, <1>3, <1>4, TimesTyped DEF Steady, Since, Rows

LEMMA FitsKept ==
    ASSUME ago \in [Identifiers -> [Results -> 0..Old]], ago' \in [Identifiers -> [Results -> 0..Old]],
           Steady, Rows \subseteq Rows', Rows \subseteq Deployments, NEW q \in PostRecord
    PROVE  /\ FoundFits(q) => FoundFits(q)'
           /\ LocalFits(q) => LocalFits(q)'
  <1>1. /\ q.age \in Nat /\ q.got \in Results \cup Identifiers
        /\ q.local \in [Identifiers -> Results \cup {"none"}] /\ q.todo \in Seq(Identifiers)
    BY TimesTyped DEF PostRecord
  <1>2. \A i \in Identifiers, a \in Results :
           /\ Since(i, a) \in Nat /\ Since(i, a)' \in Nat /\ Since(i, a)' <= Since(i, a)
           /\ Since(i, a) <= q.age => Since(i, a)' <= q.age
    <2>1. \A i \in Identifiers, a \in Results : Since(i, a) \in 0..Old
      BY SinceTyped
    <2>2. \A i \in Identifiers, a \in Results : Since(i, a)' \in 0..Old
      BY TimesTyped DEF Since
    <2>3. \A i \in Identifiers, a \in Results : Since(i, a)' <= Since(i, a)
      BY DEF Steady
    <2> QED
      BY <1>1, <2>1, <2>2, <2>3, TimesTyped
  <1>3. ASSUME FoundFits(q) PROVE FoundFits(q)'
    <2> DEFINE i == Head(q.todo)
    <2>1. CASE q.pc = "confirm"
      <3>1. i \in Identifiers /\ q.todo # <<>>
        BY <1>1, <1>3, <2>1 DEF FoundFits, Working
      <3>2. CASE q.got \in Rows
        <4>1. q.got \in Rows' /\ q.got \in Results /\ Since(i, q.got) <= q.age
          BY <1>3, <2>1, <3>2 DEF FoundFits, Results
        <4>2. Since(i, q.got)' <= q.age
          BY <1>2, <3>1, <4>1
        <4> QED
          BY <2>1, <3>1, <4>1, <4>2 DEF FoundFits
      <3>3. CASE q.got \notin Rows
        <4>1. q.got = i /\ Since(i, Unknown) <= q.age
          BY <1>3, <2>1, <3>3 DEF FoundFits
        <4>2. Unknown \in Results
          BY DEF Results
        <4>3. Since(i, Unknown)' <= q.age
          BY <1>2, <3>1, <4>1, <4>2
        <4>4. i \in Rows' => Since(i, i)' = 0
          BY DEF Since, Answers
        <4> QED
          BY <1>1, <2>1, <3>1, <4>1, <4>3, <4>4 DEF FoundFits
      <3> QED
        BY <3>2, <3>3
    <2>2. CASE q.pc \in {"store", "storeId"}
      <3>1. i \in Identifiers /\ q.todo # <<>> /\ q.got \in Rows \cup {Unknown} /\ Since(i, q.got) <= q.age
        BY <1>1, <1>3, <2>2 DEF FoundFits, Working
      <3>2. q.got \in Results
        BY <3>1 DEF Results
      <3>3. Since(i, q.got)' <= q.age
        BY <1>2, <3>1, <3>2
      <3> QED
        BY <1>3, <2>2, <3>1, <3>3 DEF FoundFits
    <2>3. CASE q.pc \notin {"confirm", "store", "storeId"}
      BY <1>3, <2>3 DEF FoundFits
    <2> QED
      BY <2>1, <2>2, <2>3
  <1>4. ASSUME LocalFits(q) PROVE LocalFits(q)'
    <2> SUFFICES ASSUME NEW i \in Identifiers, q.local[i] # "none"
                 PROVE  Since(i, q.local[i])' <= TTL(q.local[i]) + PostTicks + q.age
      BY DEF LocalFits, TTL
    <2>1. q.local[i] \in Results /\ Since(i, q.local[i]) <= TTL(q.local[i]) + PostTicks + q.age
      BY <1>1, <1>4 DEF LocalFits
    <2>2. /\ Since(i, q.local[i]) \in Nat /\ Since(i, q.local[i])' \in Nat
          /\ Since(i, q.local[i])' <= Since(i, q.local[i])
      BY <1>2, <2>1, TimesTyped
    <2>3. TTL(q.local[i]) + PostTicks + q.age \in Nat
      BY <1>1, <2>1, TimesTyped
    <2> QED
      BY <2>1, <2>2, <2>3
  <1> QED
    BY <1>3, <1>4

-----------------------------------------------------------------------------
(* What a handler does to the cache and to its post *)

AgoTyped == ago \in [Identifiers -> [Results -> 0..Old]]

LEMMA EntryKept ==
    ASSUME AgoTyped, AgoTyped', Steady, NEW i \in Identifiers, NEW e \in Entry, EntryFits(i, e)
    PROVE  EntryFits(i, e)'
  <1>1. e.answer \in Results /\ e.left \in -1..(CacheTTL + NegativeTTL)
    BY DEF Entry
  <1>2. Since(i, e.answer) \in 0..Old /\ Since(i, e.answer)' \in 0..Old
        /\ Since(i, e.answer)' <= Since(i, e.answer)
    <2>1. Since(i, e.answer)' \in 0..Old
      BY <1>1, TimesTyped DEF Since, AgoTyped
    <2> QED
      BY <1>1, <2>1, SinceTyped DEF Steady, AgoTyped
  <1>3. TTL(e.answer) \in Nat /\ PostTicks \in Nat /\ CacheTTL + NegativeTTL \in Nat
        /\ TTL(e.answer)' = TTL(e.answer)
    BY <1>1, ResolveAssumed DEF ResolveAssumption, TTL
  <1> QED
    BY <1>1, <1>2, <1>3, TimesTyped DEF EntryFits

LEMMA CacheKept ==
    ASSUME CacheOK, AgoTyped, AgoTyped', Steady, UNCHANGED cache
    PROVE  CacheOK'
    BY EntryKept DEF CacheOK

\* A full cache is dropped: there is always room for the entry.
LEMMA SetCachedKeeps ==
    ASSUME CacheOK, AgoTyped, AgoTyped', Steady, NEW i \in Identifiers, NEW a \in Results,
           Since(i, a)' <= PostTicks, SetCached(i, a)
    PROVE  CacheOK'
  <1> DEFINE e == [answer |-> a, left |-> TTL(a)]
  <1>1. e \in Entry /\ EntryFits(i, e)'
    <2>1. TTL(a) \in 0..(CacheTTL + NegativeTTL) /\ CacheTTL + NegativeTTL \in Nat /\ PostTicks \in Nat
      BY TimesTyped, ResolveAssumed DEF ResolveAssumption
    <2>2. TTL(a) \in -1..(CacheTTL + NegativeTTL) /\ TTL(a) - TTL(a) + PostTicks = PostTicks
          /\ TTL(a)' = TTL(a)
      BY <2>1 DEF TTL
    <2> QED
      BY <2>2 DEF Entry, EntryFits
  <1>2. CASE Cardinality(DOMAIN cache) >= CacheEntries
    <2>1. cache' = [k \in {i} |-> e]
      BY <1>2 DEF SetCached
    <2>2. IsFiniteSet({i}) /\ Cardinality({i}) = 1
      BY FS_Singleton
    <2>3. 1 <= CacheEntries
      BY ResolveAssumed DEF ResolveAssumption
    <2> QED
      BY <1>1, <2>1, <2>2, <2>3 DEF CacheOK
  <1>3. CASE ~(Cardinality(DOMAIN cache) >= CacheEntries)
    <2>1. cache' = [k \in DOMAIN cache \cup {i} |-> IF k = i THEN e ELSE cache[k]]
      BY <1>3 DEF SetCached, Put
    <2>2. /\ IsFiniteSet(DOMAIN cache \cup {i})
          /\ Cardinality(DOMAIN cache \cup {i}) <= CacheEntries
      <3>1. IsFiniteSet(DOMAIN cache)
        BY DEF CacheOK
      <3>2. Cardinality(DOMAIN cache) \in Nat /\ CacheEntries \in Nat
        BY <3>1, FS_CardinalityType, ResolveAssumed DEF ResolveAssumption
      <3>3. /\ IsFiniteSet(DOMAIN cache \cup {i})
            /\ Cardinality(DOMAIN cache \cup {i}) \in {Cardinality(DOMAIN cache), Cardinality(DOMAIN cache) + 1}
        BY <3>1, FS_AddElement
      <3> QED
        BY <1>3, <3>2, <3>3
    <2>3. \A k \in DOMAIN cache : \A c \in Entry : c = cache[k] => EntryFits(k, c)'
      BY EntryKept DEF CacheOK
    <2>4. \A k \in DOMAIN cache' : k # i => cache'[k] = cache[k] /\ k \in DOMAIN cache
      BY <2>1
    <2>5. cache'[i] = e /\ DOMAIN cache' = DOMAIN cache \cup {i}
      BY <2>1
    <2>6. \A k \in DOMAIN cache' :
             k \in Identifiers /\ cache'[k] \in Entry /\ EntryFits(k, cache[k])'
      BY <1>1, <2>3, <2>4, <2>5 DEF CacheOK
    <2> QED
      BY <2>2, <2>5, <2>6 DEF CacheOK
  <1> QED
    BY <1>2, <1>3

LEMMA PostTyped ==
    ASSUME PostsOK, NEW p \in Posts
    PROVE  /\ post \in [Posts -> PostRecord] /\ post[p] \in PostRecord
           /\ post[p].todo \in Seq(Identifiers) /\ post[p].out \in Seq(Deployments)
           /\ post[p].local \in [Identifiers -> Results \cup {"none"}]
           /\ post[p].got \in Results \cup Identifiers
           /\ post[p].age \in 0..PostTicks
           /\ FoundFits(post[p]) /\ LocalFits(post[p])
    BY DEF PostsOK, PostRecord

\* The post is in another place, with what it has found.
LEMMA GoesTo ==
    ASSUME PostsOK, NEW p \in Posts, NEW pc \in Working, NEW got \in Results \cup Identifiers,
           Goes(p, pc, got)
    PROVE  \E q \in PostRecord :
               /\ post' = [post EXCEPT ![p] = q]
               /\ q.pc = pc /\ q.got = got
               /\ q.todo = post[p].todo /\ q.local = post[p].local /\ q.age = post[p].age
  <1> DEFINE q == [post[p] EXCEPT !.pc = pc, !.got = got]
  <1>1. post \in [Posts -> PostRecord] /\ post[p] \in PostRecord
    BY DEF PostsOK
  <1>2. q \in PostRecord
    BY <1>1 DEF PostRecord, Working
  <1>3. /\ q.pc = pc /\ q.got = got
        /\ q.todo = post[p].todo /\ q.local = post[p].local /\ q.age = post[p].age
    BY <1>1 DEF PostRecord
  <1>4. post' = [post EXCEPT ![p] = q]
    BY <1>1 DEF Goes, PostRecord
  <1> QED
    BY <1>2, <1>3, <1>4

\* Its next payload is counted or dropped.
LEMMA ResolvedTo ==
    ASSUME PostsOK, NEW p \in Posts, post[p].todo # <<>>, NEW a \in Results, Resolved(p, a)
    PROVE  \E q \in PostRecord :
               /\ post' = [post EXCEPT ![p] = q]
               /\ q.pc = "next" /\ q.age = post[p].age
               /\ q.local = [post[p].local EXCEPT ![Identifier(p)] = a]
  <1> DEFINE i == Identifier(p)
             local == [post[p].local EXCEPT ![i] = a]
             out == IF a = Unknown THEN post[p].out ELSE Append(post[p].out, a)
             q == [post[p] EXCEPT !.pc = "next", !.todo = Tail(post[p].todo), !.local = local, !.out = out]
  <1>1. /\ post \in [Posts -> PostRecord] /\ post[p] \in PostRecord
        /\ post[p].todo \in Seq(Identifiers) /\ post[p].out \in Seq(Deployments)
        /\ post[p].local \in [Identifiers -> Results \cup {"none"}]
    BY PostTyped
  <1>2. Tail(post[p].todo) \in Seq(Identifiers)
    BY <1>1
  <1>3. local \in [Identifiers -> Results \cup {"none"}]
    BY <1>1
  <1>4. out \in Seq(Deployments)
    BY <1>1 DEF Results
  <1>5. post' = [post EXCEPT ![p] = q]
    BY <1>1 DEF Resolved, PostRecord
  <1> HIDE DEF local, out, i
  <1>6. q \in PostRecord
    BY <1>1, <1>2, <1>3, <1>4 DEF PostRecord
  <1>7. q.pc = "next" /\ q.age = post[p].age /\ q.local = local
    BY <1>1 DEF PostRecord
  <1> QED
    BY <1>5, <1>6, <1>7 DEF local, i

\* A step of one handler.
LEMMA HandlerKeeps ==
    ASSUME HandlersOK, UNCHANGED <<database, stored>>, Steady, AgoTyped', Rows' = Rows,
           NEW p \in Posts, NEW q \in PostRecord, post' = [post EXCEPT ![p] = q],
           FoundFits(q)', LocalFits(q)', CacheOK'
    PROVE  HandlersOK'
  <1>1. Rows \subseteq Deployments /\ AgoTyped /\ PostsOK
    BY RowsTyped DEF HandlersOK, AgoTyped
  <1>2. \A r \in PostRecord :
           (FoundFits(r) => FoundFits(r)') /\ (LocalFits(r) => LocalFits(r)')
    BY <1>1, FitsKept DEF AgoTyped
  <1>3. post' \in [Posts -> PostRecord] /\ post'[p] = q
        /\ \A o \in Posts : o # p => post'[o] = post[o] /\ post[o] \in PostRecord
    BY <1>1 DEF PostsOK
  <1>4. ASSUME NEW o \in Posts PROVE FoundFits(post[o])' /\ LocalFits(post[o])'
    <2>1. CASE o = p
      BY <1>3, <2>1
    <2>2. CASE o # p
      <3>1. PICK r \in PostRecord : r = post[o] /\ FoundFits(r) /\ LocalFits(r)
        BY <1>1, <1>3, <2>2 DEF PostsOK
      <3>2. FoundFits(r)' /\ LocalFits(r)'
        BY <1>2, <3>1
      <3> QED
        BY <1>3, <2>2, <3>1, <3>2
    <2> QED
      BY <2>1, <2>2
  <1> QED
    BY <1>3, <1>4 DEF HandlersOK, AgoTyped, PostsOK

LEMMA GoesKeeps ==
    ASSUME HandlersOK, UNCHANGED <<database, stored>>, Steady, AgoTyped', Rows' = Rows, CacheOK',
           NEW p \in Posts, NEW pc \in Working, NEW got \in Results \cup Identifiers,
           post[p].todo # <<>>, Goes(p, pc, got),
           NEW i \in Identifiers, i = Identifier(p),
           pc = "confirm" =>
               \/ got \in Rows /\ Since(i, got)' <= post[p].age
               \/ got \notin Rows /\ got = i /\ Since(i, Unknown)' <= post[p].age,
           pc \in {"store", "storeId"} =>
               got \in Rows \cup {Unknown} /\ Since(i, got)' <= post[p].age,
           pc = "storeId" => got \in Rows
    PROVE  HandlersOK'
  <1>1. PostsOK /\ Rows \subseteq Deployments /\ AgoTyped
    BY RowsTyped DEF HandlersOK, AgoTyped
  <1>2. PICK q \in PostRecord :
           /\ post' = [post EXCEPT ![p] = q]
           /\ q.pc = pc /\ q.got = got
           /\ q.todo = post[p].todo /\ q.local = post[p].local /\ q.age = post[p].age
    BY <1>1, GoesTo
  <1>3. FoundFits(q)'
    BY <1>2 DEF FoundFits, Identifier, Working
  <1>4. LocalFits(q)'
    <2>1. PICK r \in PostRecord : r = post[p] /\ LocalFits(r)
      BY <1>1, PostTyped
    <2>2. LocalFits(r)'
      BY <1>1, <2>1, FitsKept DEF AgoTyped
    <2> QED
      BY <1>2, <2>1, <2>2 DEF LocalFits
  <1> QED
    BY <1>2, <1>3, <1>4, HandlerKeeps

LEMMA ResolvedKeeps ==
    ASSUME HandlersOK, UNCHANGED <<database, stored>>, Steady, AgoTyped', Rows' = Rows, CacheOK',
           NEW p \in Posts, post[p].todo # <<>>, NEW a \in Results, Resolved(p, a),
           NEW i \in Identifiers, i = Identifier(p),
           Since(i, a)' <= TTL(a) + PostTicks + post[p].age
    PROVE  HandlersOK'
  <1>1. PostsOK /\ Rows \subseteq Deployments /\ AgoTyped
    BY RowsTyped DEF HandlersOK, AgoTyped
  <1>2. PICK q \in PostRecord :
           /\ post' = [post EXCEPT ![p] = q]
           /\ q.pc = "next" /\ q.age = post[p].age
           /\ q.local = [post[p].local EXCEPT ![i] = a]
    BY <1>1, ResolvedTo
  <1>3. FoundFits(q)'
    BY <1>2 DEF FoundFits, Working
  <1>4. LocalFits(q)'
    <2>1. PICK r \in PostRecord : r = post[p] /\ LocalFits(r)
      BY <1>1, PostTyped
    <2>2. LocalFits(r)'
      BY <1>1, <2>1, FitsKept DEF AgoTyped
    <2>3. r.local \in [Identifiers -> Results \cup {"none"}]
      BY DEF PostRecord
    <2>4. \A j \in Identifiers : q.local[j] = IF j = i THEN a ELSE r.local[j]
      BY <1>2, <2>1, <2>3
    <2>5. \A j \in Identifiers :
             q.local[j] # "none" => Since(j, q.local[j])' <= TTL(q.local[j]) + PostTicks + q.age
      <3> SUFFICES ASSUME NEW j \in Identifiers, q.local[j] # "none"
                   PROVE  Since(j, q.local[j])' <= TTL(q.local[j]) + PostTicks + q.age
        OBVIOUS
      <3>1. CASE j = i
        BY <1>2, <2>4, <3>1
      <3>2. CASE j # i
        BY <1>2, <2>1, <2>2, <2>4, <3>2 DEF LocalFits, TTL
      <3> QED
        BY <3>1, <3>2
    <2> QED
      BY <2>5 DEF LocalFits, TTL
  <1> QED
    BY <1>2, <1>3, <1>4, HandlerKeeps

-----------------------------------------------------------------------------
(* The handlers' steps *)

LEMMA LookKeeps ==
    ASSUME HandlersOK, NEW p \in Posts, Look(p)
    PROVE  HandlersOK'
  <1>1. /\ Steady /\ Rows' = Rows /\ AgoTyped' /\ AgoTyped
        /\ UNCHANGED <<database, stored, cache, ago>>
    BY SteadyAsIs DEF Look, HandlersOK, AgoTyped
  <1>2. CacheOK' /\ CacheOK /\ PostsOK
    BY <1>1, CacheKept DEF HandlersOK
  <1>3. post[p].todo # <<>>
    BY DEF Look
  <1>4. PICK i \in Identifiers : i = Identifier(p)
    BY <1>2, <1>3, PostTyped DEF Identifier
  <1>5. \A a \in Results : Since(i, a)' = Since(i, a)
    BY <1>1 DEF Since, Answers, Listed, Rows
  <1>6. CASE post[p].local[i] # "none"
    <2>1. PICK a \in Results : a = post[p].local[i] /\ Resolved(p, a)
      BY <1>2, <1>3, <1>4, <1>6, PostTyped DEF Look
    <2>2. Since(i, a) <= TTL(a) + PostTicks + post[p].age
      BY <1>2, <1>6, <2>1, PostTyped DEF LocalFits
    <2> QED
      BY <1>1, <1>2, <1>3, <1>4, <1>5, <2>1, <2>2, ResolvedKeeps
  <1>7. CASE post[p].local[i] = "none" /\ (i \notin DOMAIN cache \/ Expired(i))
    <2>1. PICK pc \in {"get", "evict"} : Goes(p, pc, Unknown)
      BY <1>3, <1>4, <1>7 DEF Look
    <2> QED
      BY <1>1, <1>2, <1>3, <1>4, <2>1, GoesKeeps DEF Working, Results
  <1>8. CASE post[p].local[i] = "none" /\ i \in DOMAIN cache /\ ~Expired(i)
    <2>1. PICK e \in Entry : e = cache[i] /\ EntryFits(i, e)
      BY <1>2, <1>8 DEF CacheOK
    <2>2. e.left \in Int /\ e.left >= 0 /\ e.answer \in Results /\ Resolved(p, e.answer)
      BY <1>3, <1>4, <1>8, <2>1 DEF Look, Expired, Entry
    <2>3. /\ Since(i, e.answer) \in Nat /\ TTL(e.answer) \in Nat /\ PostTicks \in Nat
          /\ post[p].age \in Nat
      BY <1>1, <1>2, <2>2, SinceTyped, TimesTyped, PostTyped DEF AgoTyped
    <2>4. Since(i, e.answer)' <= TTL(e.answer) + PostTicks + post[p].age
      BY <1>5, <2>1, <2>2, <2>3 DEF EntryFits
    <2> QED
      BY <1>1, <1>2, <1>3, <1>4, <2>2, <2>4, ResolvedKeeps
  <1> QED
    BY <1>6, <1>7, <1>8

LEMMA EvictKeeps ==
    ASSUME HandlersOK, NEW p \in Posts, Evict(p)
    PROVE  HandlersOK'
  <1>1. /\ Steady /\ Rows' = Rows /\ AgoTyped' /\ AgoTyped
        /\ UNCHANGED <<database, stored, ago>>
    BY SteadyAsIs DEF Evict, HandlersOK, AgoTyped
  <1>2. CacheOK /\ PostsOK
    BY DEF HandlersOK
  <1>3. post[p].todo # <<>> /\ Goes(p, "get", Unknown)
    BY <1>2, PostTyped DEF Evict, FoundFits, Working
  <1>4. PICK i \in Identifiers : i = Identifier(p)
    BY <1>2, <1>3, PostTyped DEF Identifier
  <1>5. CacheOK'
    <2>1. cache' = [k \in DOMAIN cache \ {i} |-> cache[k]]
      BY <1>4 DEF Evict
    <2>2. IsFiniteSet(DOMAIN cache) /\ Cardinality(DOMAIN cache) <= CacheEntries
      BY <1>2 DEF CacheOK
    <2>3. /\ IsFiniteSet(DOMAIN cache \ {i})
          /\ Cardinality(DOMAIN cache \ {i}) <= Cardinality(DOMAIN cache)
      BY <2>2, FS_Subset
    <2>4. /\ Cardinality(DOMAIN cache) \in Nat /\ Cardinality(DOMAIN cache \ {i}) \in Nat
          /\ CacheEntries \in Nat
      BY <2>2, <2>3, FS_CardinalityType, ResolveAssumed DEF ResolveAssumption
    <2>5. \A k \in DOMAIN cache : \A c \in Entry : c = cache[k] => EntryFits(k, c)'
      BY <1>1, <1>2, EntryKept DEF CacheOK
    <2> QED
      BY <1>2, <2>1, <2>2, <2>3, <2>4, <2>5 DEF CacheOK
  <1> QED
    BY <1>1, <1>2, <1>3, <1>4, <1>5, GoesKeeps DEF Working, Results

\* A lookup's effect on what was right when, and what is known of its post.
LEMMA LookedUp ==
    ASSUME HandlersOK, NEW p \in Posts, NEW ok \in BOOLEAN, post[p].pc \in Working,
           NEW i, i = Identifier(p),
           UNCHANGED <<database, stored, cache>>,
           IF ok THEN UNCHANGED ago ELSE Unanswered(i)
    PROVE  /\ Steady /\ Rows' = Rows /\ AgoTyped' /\ AgoTyped /\ CacheOK'
           /\ post[p].todo # <<>> /\ i \in Identifiers
           /\ ~ok => Since(i, Unknown)' = 0
           /\ Rows \subseteq Deployments /\ post[p].age \in Nat
           /\ FoundFits(post[p]) /\ post[p].got \in Results \cup Identifiers
  <1>1. CacheOK /\ PostsOK /\ AgoTyped /\ Rows \subseteq Deployments
    BY RowsTyped DEF HandlersOK, AgoTyped
  <1>2. /\ post[p].todo # <<>> /\ post[p].todo \in Seq(Identifiers) /\ post[p].age \in Nat
        /\ FoundFits(post[p]) /\ post[p].got \in Results \cup Identifiers
    BY <1>1, PostTyped, TimesTyped DEF FoundFits
  <1>3. i \in Identifiers
    BY <1>2 DEF Identifier
  <1>4. CASE ok
    BY <1>1, <1>2, <1>3, <1>4, SteadyAsIs, CacheKept DEF AgoTyped
  <1>5. CASE ~ok
    BY <1>1, <1>2, <1>3, <1>5, SteadyUnanswered, CacheKept DEF AgoTyped
  <1> QED
    BY <1>4, <1>5

\* What holds now is at most as old.
LEMMA StillSo ==
    ASSUME Steady, AgoTyped', AgoTyped, NEW i \in Identifiers, NEW a \in Results, NEW n \in Nat,
           Since(i, a) <= n
    PROVE  Since(i, a)' <= n
  <1>1. Since(i, a) \in 0..Old /\ Since(i, a)' <= Since(i, a)
    BY SinceTyped DEF Steady, AgoTyped
  <1>2. Since(i, a)' \in 0..Old
    BY TimesTyped DEF Since, AgoTyped
  <1> QED
    BY <1>1, <1>2, TimesTyped

LEMMA LookupKeeps ==
    ASSUME HandlersOK, NEW p \in Posts, NEW ok \in BOOLEAN, Lookup(p, ok)
    PROVE  HandlersOK'
  <1>0. PICK i : i = Identifier(p)
    OBVIOUS
  <1>1. /\ post[p].pc \in {"get", "list", "confirm"}
        /\ UNCHANGED <<database, stored, cache>>
        /\ IF ok THEN UNCHANGED ago ELSE Unanswered(i)
    BY <1>0 DEF Lookup, Get, List, Confirm
  <1>2. /\ Steady /\ Rows' = Rows /\ AgoTyped' /\ AgoTyped /\ CacheOK'
        /\ post[p].todo # <<>> /\ i \in Identifiers
        /\ ~ok => Since(i, Unknown)' = 0
        /\ Rows \subseteq Deployments /\ post[p].age \in Nat
        /\ FoundFits(post[p]) /\ post[p].got \in Results \cup Identifiers
    BY <1>0, <1>1, LookedUp DEF Working
  <1>3. /\ i \in Rows => Since(i, i) = 0
        /\ i \notin Rows /\ Listed(i) = {} => Since(i, Unknown) = 0
        /\ \A d \in Listed(i) : d \in Rows /\ Since(i, d) = 0
    BY <1>2, Meanings DEF HandlersOK
  <1>4. Unknown \in Results /\ Rows \subseteq Results /\ Unknown \notin Rows
    BY <1>2, ResolveAssumed DEF Results, ResolveAssumption, Identifiers
  <1>5. \A a \in Results : Since(i, a) <= post[p].age => Since(i, a)' <= post[p].age
    BY <1>2, StillSo
  <1>6. 0 <= post[p].age
    BY <1>2
  <1>7. CASE Get(p, ok)
    <2>1. CASE ok /\ i \in Rows
      <3>1. Goes(p, "confirm", i) /\ Since(i, i)' <= post[p].age
        BY <1>3, <1>4, <1>5, <1>6, <1>7, <1>0, <2>1 DEF Get
      <3> QED
        BY <1>1, <1>2, <1>4, <2>1, <3>1, <1>0, GoesKeeps DEF Working
    <2>2. CASE ~(ok /\ i \in Rows)
      <3>1. Goes(p, "list", Unknown)
        BY <1>0, <1>7, <2>2 DEF Get
      <3> QED
        BY <1>1, <1>2, <1>4, <3>1, <1>0, GoesKeeps DEF Working
    <2> QED
      BY <2>1, <2>2
  <1>8. CASE List(p, ok)
    <2>1. CASE ok /\ Listed(i) # {}
      <3>1. PICK d \in Listed(i) : Goes(p, "confirm", d)
        BY <1>0, <1>8, <2>1 DEF List
      <3>2. d \in Rows /\ Since(i, d)' <= post[p].age
        BY <1>3, <1>4, <1>5, <1>6
      <3> QED
        BY <1>1, <1>2, <1>4, <3>1, <3>2, <1>0, GoesKeeps DEF Working
    <2>2. CASE ~(ok /\ Listed(i) # {})
      <3>1. Goes(p, "confirm", i)
        BY <1>0, <1>8, <2>2 DEF List
      <3>2. i \in Rows => Since(i, i)' <= post[p].age
        BY <1>3, <1>4, <1>5, <1>6
      <3>3. i \notin Rows => Since(i, Unknown)' <= post[p].age
        BY <1>2, <1>3, <1>4, <1>5, <1>6, <2>2
      <3> QED
        BY <1>1, <1>2, <1>4, <3>1, <3>2, <3>3, <1>0, GoesKeeps DEF Working
    <2> QED
      BY <2>1, <2>2
  <1>9. CASE Confirm(p, ok)
    <2>1. post[p].pc = "confirm"
      BY <1>9 DEF Confirm
    <2>2. CASE ok /\ post[p].got \in Rows
      <3>0. PICK a \in Rows : a = post[p].got
        BY <2>2
      <3>1. Goes(p, "store", a)
        BY <1>9, <2>2, <3>0 DEF Confirm
      <3>2. Since(i, a) <= post[p].age
        BY <1>0, <1>2, <2>1, <2>2, <3>0 DEF FoundFits, Identifier
      <3>3. Since(i, a)' <= post[p].age
        BY <1>4, <1>5, <3>2
      <3> QED
        BY <1>1, <1>2, <1>4, <2>2, <3>1, <3>3, <1>0, GoesKeeps DEF Working
    <2>3. CASE ~(ok /\ post[p].got \in Rows)
      <3>1. Goes(p, "store", Unknown)
        BY <1>9, <2>3 DEF Confirm
      <3>2. Since(i, Unknown)' <= post[p].age
        BY <1>2, <1>4, <1>5, <1>6, <2>1, <2>3, <1>0 DEF FoundFits, Identifier
      <3> QED
        BY <1>1, <1>2, <1>4, <3>1, <3>2, <1>0, GoesKeeps DEF Working
    <2> QED
      BY <2>2, <2>3
  <1> QED
    BY <1>7, <1>8, <1>9 DEF Lookup

LEMMA StoreAnswerKeeps ==
    ASSUME HandlersOK, NEW p \in Posts, StoreAnswer(p) \/ StoreId(p)
    PROVE  HandlersOK'
  <1>1. PICK i : i = Identifier(p)
    OBVIOUS
  <1>2. PICK a : a = post[p].got
    OBVIOUS
  <1>3. /\ post[p].pc \in {"store", "storeId"}
        /\ UNCHANGED <<database, stored, ago>>
        /\ IF post[p].pc = "store"
           THEN /\ SetCached(i, a)
                /\ IF a = Unknown THEN Resolved(p, a) ELSE Goes(p, "storeId", a)
           ELSE SetCached(a, a) /\ Resolved(p, a)
    BY <1>1, <1>2 DEF StoreAnswer, StoreId
  <1>4. CacheOK /\ PostsOK /\ AgoTyped /\ Rows \subseteq Deployments
    BY RowsTyped DEF HandlersOK, AgoTyped
  <1>5. Steady /\ Rows' = Rows /\ AgoTyped'
    BY <1>3, SteadyAsIs DEF AgoTyped
  <1>6. post[p].todo # <<>> /\ i \in Identifiers /\ post[p].age \in 0..PostTicks
    BY <1>1, <1>3, <1>4, PostTyped DEF FoundFits, Working, Identifier
  <1>7. /\ a \in Rows \cup {Unknown} /\ a \in Results /\ Since(i, a) <= post[p].age
        /\ post[p].pc = "storeId" => a \in Rows
    BY <1>1, <1>2, <1>3, <1>4, PostTyped DEF FoundFits, Identifier, Results
  <1>8. /\ Since(i, a)' <= post[p].age
        /\ Since(i, a)' <= PostTicks
        /\ Since(i, a)' <= TTL(a) + PostTicks + post[p].age
    <2>1. post[p].age \in Nat /\ PostTicks \in Nat /\ TTL(a) \in Nat
      BY <1>6, <1>7, TimesTyped
    <2>2. Since(i, a)' <= post[p].age
      BY <1>4, <1>5, <1>6, <1>7, <2>1, StillSo
    <2>3. Since(i, a)' \in 0..Old
      BY <1>5, <1>6, <1>7, TimesTyped DEF Since, AgoTyped
    <2> QED
      BY <1>6, <2>1, <2>2, <2>3, TimesTyped
  <1>9. CASE post[p].pc = "store"
    <2>1. CacheOK'
      BY <1>3, <1>4, <1>5, <1>6, <1>7, <1>8, <1>9, SetCachedKeeps
    <2>2. CASE a = Unknown
      BY <1>1, <1>3, <1>5, <1>6, <1>7, <1>8, <1>9, <2>1, <2>2, ResolvedKeeps
    <2>3. CASE a # Unknown
      BY <1>1, <1>3, <1>5, <1>6, <1>7, <1>8, <1>9, <2>1, <2>3, GoesKeeps DEF Working
    <2> QED
      BY <2>2, <2>3
  <1>10. CASE post[p].pc = "storeId"
    <2>1. a \in Rows /\ a \in Identifiers /\ SetCached(a, a) /\ Resolved(p, a)
      BY <1>3, <1>4, <1>7, <1>10 DEF Identifiers
    <2>2. Since(a, a)' <= PostTicks
      <3>1. Since(a, a) = 0 /\ PostTicks \in Nat
        BY <2>1, Meanings, TimesTyped DEF HandlersOK
      <3>2. Since(a, a) <= PostTicks
        BY <3>1
      <3> QED
        BY <1>4, <1>5, <1>7, <2>1, <3>1, <3>2, StillSo
    <2>3. CacheOK'
      BY <1>4, <1>5, <1>7, <2>1, <2>2, SetCachedKeeps
    <2> QED
      BY <1>1, <1>3, <1>5, <1>6, <1>7, <1>8, <2>1, <2>3, ResolvedKeeps
  <1> QED
    BY <1>3, <1>9, <1>10

LEMMA NoPostTyped ==
    /\ NoPost \in PostRecord /\ FoundFits(NoPost) /\ LocalFits(NoPost)
    /\ (FoundFits(NoPost) /\ LocalFits(NoPost))'
  <1>1. <<>> \in Seq(Identifiers) /\ <<>> \in Seq(Deployments) /\ 0 \in 0..PostTicks
    BY TimesTyped
  <1> QED
    BY <1>1 DEF NoPost, PostRecord, FoundFits, LocalFits, Working, Results

LEMMA ReceiveKeeps ==
    ASSUME HandlersOK, NEW p \in Posts, NEW batch \in Seq(Identifiers),
           Receive(p, batch) \/ Recorded(p)
    PROVE  HandlersOK'
  <1>1. /\ Steady /\ Rows' = Rows /\ AgoTyped' /\ AgoTyped
        /\ UNCHANGED <<database, stored, cache, ago>>
    BY SteadyAsIs DEF Receive, Recorded, HandlersOK, AgoTyped
  <1>2. CacheOK'
    BY <1>1, CacheKept DEF HandlersOK
  <1>3. CASE Receive(p, batch)
    <2> DEFINE q == [NoPost EXCEPT !.pc = "next", !.todo = batch]
    <2>1. q \in PostRecord
      BY NoPostTyped DEF PostRecord
    <2>2. (FoundFits(q) /\ LocalFits(q))'
      BY DEF NoPost, FoundFits, LocalFits, Working
    <2>3. post' = [post EXCEPT ![p] = q]
      BY <1>3 DEF Receive
    <2> HIDE DEF q
    <2> QED
      BY <1>1, <1>2, <2>1, <2>2, <2>3, HandlerKeeps
  <1>4. CASE Recorded(p)
    BY <1>1, <1>2, <1>4, NoPostTyped, HandlerKeeps DEF Recorded
  <1> QED
    BY <1>3, <1>4

\* A row more: what was right before it may not be right any more, from now on.
LEMMA StoreKeeps ==
    ASSUME HandlersOK, NEW d \in Deployments, Store(d)
    PROVE  HandlersOK'
  <1>1. /\ stored' = Append(stored, d) /\ UNCHANGED <<database, cache, post>> /\ Remember
        /\ AgoTyped /\ CacheOK /\ PostsOK /\ stored \in Seq(Deployments)
    BY DEF Store, HandlersOK, AgoTyped
  <1>2. \A i \in Identifiers, a \in Results : Since(i, a) \in 0..Old
    BY <1>1, SinceTyped DEF AgoTyped
  <1>3. AgoTyped' /\ \A i \in Identifiers, a \in Results : ago'[i][a] = Since(i, a)
    BY <1>1, <1>2 DEF Remember, AgoTyped
  <1>4. Steady
    <2>1. \A i \in Identifiers, a \in Results : Since(i, a)' \in {0, Since(i, a)}
      BY <1>3 DEF Since
    <2> QED
      BY <1>2, <2>1, TimesTyped DEF Steady
  <1>5. /\ stored' \in Seq(Deployments)
        /\ Rows \subseteq Rows' /\ Rows \subseteq Deployments
    BY <1>1 DEF Rows
  <1>6. CacheOK'
    BY <1>1, <1>3, <1>4, CacheKept
  <1>7. PostsOK'
    <2>1. \A q \in PostRecord :
             (FoundFits(q) => FoundFits(q)') /\ (LocalFits(q) => LocalFits(q)')
      BY <1>1, <1>3, <1>4, <1>5, FitsKept DEF AgoTyped
    <2>2. ASSUME NEW p \in Posts PROVE FoundFits(post[p])' /\ LocalFits(post[p])'
      <3>1. PICK q \in PostRecord : q = post[p] /\ FoundFits(q) /\ LocalFits(q)
        BY <1>1 DEF PostsOK
      <3>2. FoundFits(q)' /\ LocalFits(q)'
        BY <2>1, <3>1
      <3> QED
        BY <1>1, <3>1, <3>2
    <2> QED
      BY <1>1, <2>2 DEF PostsOK
  <1> QED
    BY <1>1, <1>3, <1>5, <1>6, <1>7 DEF HandlersOK, AgoTyped

LEMMA ForgetKeeps ==
    ASSUME HandlersOK, Forget
    PROVE  HandlersOK'
  <1>1. \A i \in Identifiers, a \in Results : Since(i, a) \in 0..Old
    BY SinceTyped DEF HandlersOK
  <1>2. ago' \in [Identifiers -> [Results -> 0..Old]]
    BY <1>1 DEF Forget, Remember
  <1>3. stored' \in Seq(Deployments)
    <2>1. <<>> \in Seq(Deployments)
      OBVIOUS
    <2> QED
      BY <2>1 DEF Forget, HandlersOK
  <1>4. CacheOK'
    <2>1. DOMAIN cache' = {}
      BY DEF Forget
    <2>2. IsFiniteSet({}) /\ Cardinality({}) = 0 /\ 0 <= CacheEntries
      BY FS_EmptySet, ResolveAssumed DEF ResolveAssumption
    <2> QED
      BY <2>1, <2>2 DEF CacheOK
  <1>5. PostsOK'
    <2>1. /\ post' \in [Posts -> PostRecord]
          /\ \A p \in Posts : post'[p] = NoPost
      BY NoPostTyped DEF Forget
    <2>2. \A p \in Posts : FoundFits(post[p])' /\ LocalFits(post[p])'
      BY <2>1, NoPostTyped
    <2> QED
      BY <2>1, <2>2 DEF PostsOK
  <1> QED
    BY <1>2, <1>3, <1>4, <1>5 DEF HandlersOK, Forget

\* A tick makes everything older by as much: answers, entries and posts.
LEMMA TickKeeps ==
    ASSUME HandlersOK, Tick
    PROVE  HandlersOK'
  <1>1. /\ UNCHANGED <<database, stored>> /\ AgoTyped /\ CacheOK /\ PostsOK
        /\ Rows' = Rows /\ Rows \subseteq Deployments
    BY RowsTyped DEF Tick, HandlersOK, AgoTyped, Rows
  <1>2. \A i \in Identifiers, a \in Results :
           /\ ago'[i][a] = IF a \in Answers(i) THEN 0 ELSE Older(ago[i][a])
           /\ ago[i][a] \in 0..Old
    BY <1>1 DEF Tick, AgoTyped
  <1>3. ago' \in [Identifiers -> [Results -> 0..Old]]
    <2>1. \A i \in Identifiers, a \in Results :
             (IF a \in Answers(i) THEN 0 ELSE Older(ago[i][a])) \in 0..Old
      BY <1>2, TimesTyped DEF Older
    <2> QED
      BY <2>1 DEF Tick
  <1>4. \A i \in Identifiers, a \in Results :
           /\ Since(i, a) \in 0..Old /\ Since(i, a)' \in 0..Old
           /\ Since(i, a)' <= Since(i, a) + 1
           /\ Since(i, a) = 0 /\ a \in Answers(i) => Since(i, a)' = 0
    <2>1. \A i \in Identifiers : Answers(i)' = Answers(i)
      BY <1>1 DEF Answers, Listed, Rows
    <2> QED
      BY <1>2, <2>1, TimesTyped DEF Since, Older
  <1>5. CacheOK'
    <2>1. /\ DOMAIN cache' = DOMAIN cache
          /\ \A i \in DOMAIN cache :
                cache'[i] = [cache[i] EXCEPT !.left = IF @ < 0 THEN @ ELSE @ - 1]
      BY DEF Tick
    <2>2. ASSUME NEW i \in DOMAIN cache PROVE cache'[i] \in Entry /\ EntryFits(i, cache[i])'
      <3>1. PICK e \in Entry : e = cache[i] /\ EntryFits(i, e) /\ i \in Identifiers
        BY <1>1 DEF CacheOK
      <3>2. e.answer \in Results /\ e.left \in -1..(CacheTTL + NegativeTTL)
        BY DEF Entry
      <3>3. PICK left : left = IF e.left < 0 THEN e.left ELSE e.left - 1
        OBVIOUS
      <3>4. CacheTTL + NegativeTTL \in Nat /\ TTL(e.answer) \in Nat /\ PostTicks \in Nat
        BY <3>2, TimesTyped, ResolveAssumed DEF ResolveAssumption, TTL
      <3>5. left \in -1..(CacheTTL + NegativeTTL)
        BY <3>2, <3>3, <3>4
      <3>6. [e EXCEPT !.left = left] \in Entry /\ [e EXCEPT !.left = left].left = left
            /\ [e EXCEPT !.left = left].answer = e.answer
        BY <3>5 DEF Entry
      <3>7. cache'[i] = [e EXCEPT !.left = left]
        BY <2>1, <3>1, <3>3
      <3>8. left >= 0 => Since(i, e.answer)' <= TTL(e.answer) - left + PostTicks
        <4>1. left >= 0 => e.left >= 0 /\ left = e.left - 1
          BY <3>2, <3>3
        <4>2. Since(i, e.answer) \in Int /\ Since(i, e.answer)' \in Int
              /\ Since(i, e.answer)' <= Since(i, e.answer) + 1
          BY <1>4, <3>1, <3>2, TimesTyped
        <4> QED
          BY <3>1, <3>2, <3>4, <4>1, <4>2 DEF EntryFits
      <3> QED
        BY <3>6, <3>7, <3>8 DEF EntryFits, TTL
    <2> QED
      BY <1>1, <2>1, <2>2 DEF CacheOK
  <1>6. PostsOK'
    <2>1. ASSUME NEW p \in Posts
          PROVE  post'[p] \in PostRecord /\ FoundFits(post[p])' /\ LocalFits(post[p])'
      <3>1. PICK q \in PostRecord : q = post[p] /\ FoundFits(q) /\ LocalFits(q)
        BY <1>1 DEF PostsOK
      <3>2. CASE q.pc = "idle"
        <4>1. post'[p] = q
          BY <3>1, <3>2 DEF Tick
        <4>2. FoundFits(q)' /\ LocalFits(q)'
          BY <3>1, <3>2 DEF FoundFits, LocalFits, Working
        <4> QED
          BY <4>1, <4>2
      <3>3. CASE q.pc # "idle"
        <4>0. PICK r : r = [q EXCEPT !.age = q.age + 1]
          OBVIOUS
        <4>1. post'[p] = r /\ q.age < PostTicks
          BY <3>1, <3>3, <4>0 DEF Tick
        <4>2. /\ q.age \in Nat /\ q.age + 1 \in 0..PostTicks
              /\ q.local \in [Identifiers -> Results \cup {"none"}] /\ q.todo \in Seq(Identifiers)
          <5>1. q.age \in 0..PostTicks /\ PostTicks \in Nat
            BY TimesTyped DEF PostRecord
          <5> QED
            BY <4>1, <5>1 DEF PostRecord
        <4>3. /\ r \in PostRecord
              /\ r.pc = q.pc /\ r.todo = q.todo /\ r.local = q.local /\ r.got = q.got
              /\ r.age = q.age + 1
          BY <4>0, <4>2 DEF PostRecord
        <4>4. \A i \in Identifiers, a \in Results : Since(i, a)' <= Since(i, a) + 1
                  /\ Since(i, a) \in Int /\ Since(i, a)' \in Int
          BY <1>4, TimesTyped
        <4>5. FoundFits(r)'
          <5>1. q.pc \in Working => Head(q.todo) \in Identifiers
            BY <3>1, <4>2 DEF FoundFits
          <5>2. Unknown \in Results /\ Rows \subseteq Results
            BY <1>1 DEF Results
          <5>3. q.pc \in Working => r.todo # <<>>
            BY <3>1, <4>3 DEF FoundFits
          <5>4. CASE q.pc = "confirm"
            <6>1. CASE q.got \in Rows
              <7>1. Since(Head(q.todo), q.got) <= q.age
                BY <3>1, <5>4, <6>1 DEF FoundFits
              <7>2. Since(Head(q.todo), q.got)' <= q.age + 1
                BY <4>2, <4>4, <5>1, <5>2, <5>4, <6>1, <7>1 DEF Working
              <7> QED
                BY <1>1, <4>3, <5>3, <5>4, <6>1, <7>2 DEF FoundFits
            <6>2. CASE q.got \notin Rows
              <7>1. q.got = Head(q.todo) /\ Since(Head(q.todo), Unknown) <= q.age
                BY <3>1, <5>4, <6>2 DEF FoundFits
              <7>2. Since(Head(q.todo), Unknown)' <= q.age + 1
                BY <4>2, <4>4, <5>1, <5>2, <5>4, <7>1 DEF Working
              <7> QED
                BY <1>1, <4>3, <5>3, <5>4, <6>2, <7>1, <7>2 DEF FoundFits
            <6> QED
              BY <6>1, <6>2
          <5>5. CASE q.pc \in {"store", "storeId"}
            <6>1. /\ q.got \in Rows \cup {Unknown} /\ q.got \in Results
                  /\ q.pc = "storeId" => q.got \in Rows
                  /\ Since(Head(q.todo), q.got) <= q.age
              BY <3>1, <5>2, <5>5 DEF FoundFits
            <6>2. Since(Head(q.todo), q.got)' <= q.age + 1
              BY <4>2, <4>4, <5>1, <5>5, <6>1 DEF Working
            <6> QED
              BY <1>1, <4>3, <5>3, <5>5, <6>1, <6>2 DEF FoundFits, Working
          <5>6. CASE q.pc \notin {"confirm", "store", "storeId"}
            BY <3>3, <4>3, <5>3, <5>6 DEF FoundFits
          <5> QED
            BY <5>4, <5>5, <5>6
        <4>6. LocalFits(r)'
          <5> SUFFICES ASSUME NEW i \in Identifiers, r.local[i] # "none"
                       PROVE  Since(i, r.local[i])' <= TTL(r.local[i]) + PostTicks + r.age
            BY DEF LocalFits, TTL
          <5>1. PICK a \in Results : a = r.local[i]
            BY <4>2, <4>3
          <5>2. Since(i, a) <= TTL(a) + PostTicks + q.age
            BY <3>1, <4>3, <5>1 DEF LocalFits
          <5>3. TTL(a) \in Nat /\ PostTicks \in Nat
            BY TimesTyped
          <5>4. Since(i, a)' <= TTL(a) + PostTicks + r.age
            BY <4>2, <4>3, <4>4, <5>2, <5>3
          <5> QED
            BY <5>1, <5>4
        <4> QED
          BY <4>1, <4>3, <4>5, <4>6
      <3> QED
        BY <3>2, <3>3
    <2> QED
      BY <2>1 DEF PostsOK, Tick
  <1> QED
    BY <1>1, <1>3, <1>5, <1>6 DEF HandlersOK, AgoTyped

-----------------------------------------------------------------------------
(* The collector *)

LEMMA CountsTyped ==
    ASSUME requests \in [Deployments -> [Ages -> Nat]], NEW d \in Deployments
    PROVE  /\ LastHour(d) \in Nat /\ LastDay(d) \in Nat /\ Total(d) \in Nat
           /\ LastHour(d) <= LastDay(d) /\ LastDay(d) <= Total(d)
  <1>1. \A a \in {"hour", "day", "week", "old"} : requests[d][a] \in Nat
    BY DEF Ages
  <1> QED
    BY <1>1 DEF LastHour, LastDay, Total

\* Nothing a round has counted becomes less, and no failure is forgotten.
CountsKept ==
    /\ requests' \in [Deployments -> [Ages -> Nat]]
    /\ \A d \in Deployments : Total(d)' >= Total(d) /\ LastHour(d)' >= LastHour(d)

FaultsKept == LimitsOK /\ LimitsOK' /\ used'["faults"] >= used["faults"]

LEMMA RoundTyped ==
    ASSUME NEW r \in Round
    PROVE  /\ r.dep \in Deployments /\ r.got \in Metrics /\ r.todo \subseteq Deployments
           /\ r.got.total \in Nat /\ r.got.hour \in Nat /\ r.got.day \in Nat /\ r.got.bytes \in Nat
    BY DEF Round, Metrics

LEMMA RoundKept ==
    ASSUME requests \in [Deployments -> [Ages -> Nat]], CountsKept, FaultsKept,
           NEW r \in Round, RoundFits(r)
    PROVE  RoundFits(r)'
  <1>1. /\ r.dep \in Deployments
        /\ r.got.total \in Nat /\ r.got.hour \in Nat /\ r.got.day \in Nat /\ r.got.bytes \in Nat
    BY RoundTyped
  <1>2. /\ LastHour(r.dep) \in Nat /\ Total(r.dep) \in Nat
        /\ LastHour(r.dep)' >= LastHour(r.dep) /\ Total(r.dep)' >= Total(r.dep)
        /\ LastHour(r.dep)' \in Nat /\ Total(r.dep)' \in Nat
    <2>1. LastHour(r.dep)' \in Nat /\ Total(r.dep)' \in Nat
      <3>1. \A a \in {"hour", "day", "week", "old"} : requests'[r.dep][a] \in Nat
        BY <1>1 DEF Ages, CountsKept
      <3> QED
        BY <3>1 DEF LastHour, LastDay, Total
    <2> QED
      BY <1>1, <2>1, CountsTyped DEF CountsKept
  <1>3. used["faults"] \in Nat /\ used'["faults"] \in Nat /\ used'["faults"] >= used["faults"]
    BY DEF FaultsKept, LimitsOK, Bounded
  <1> QED
    BY <1>1, <1>2, <1>3 DEF RoundFits

\* Rows are inserted, grow old or stay, and the collector is where it was.
LEMMA TablesKeep ==
    ASSUME CollectorOK, FaultsKept, CountsKept,
           running' \subseteq Deployments, here' \subseteq Deployments,
           UNCHANGED <<metrics, round>>
    PROVE  CollectorOK'
  <1>1. CollectorTypeOK'
    BY DEF CollectorOK, CollectorTypeOK, CountsKept
  <1>2. RoundFits(round)'
    <2>1. PICK r \in Round : r = round /\ RoundFits(r)
      BY DEF CollectorOK, CollectorTypeOK
    <2>2. RoundFits(r)'
      BY <2>1, RoundKept DEF CollectorOK, CollectorTypeOK
    <2> QED
      BY <2>1, <2>2
  <1>3. WindowsNested'
    BY DEF CollectorOK, WindowsNested, FaultsKept, LimitsOK, Bounded
  <1> QED
    BY <1>1, <1>2, <1>3 DEF CollectorOK

LEMMA CountsAsTheyAre ==
    ASSUME requests \in [Deployments -> [Ages -> Nat]], UNCHANGED requests
    PROVE  CountsKept
  <1>1. \A d \in Deployments : LastHour(d)' = LastHour(d) /\ Total(d)' = Total(d)
    BY DEF LastHour, LastDay, Total
  <1> QED
    BY <1>1, CountsTyped DEF CountsKept

\* The collector goes on, and the tables stay.
LEMMA ReadKeeps ==
    ASSUME CollectorOK, FaultsKept, UNCHANGED <<placeVars, requests, metrics>>,
           NEW r \in Round, round' = r, RoundFits(r)'
    PROVE  CollectorOK'
  <1>1. CollectorTypeOK'
    BY DEF CollectorOK, CollectorTypeOK
  <1>2. WindowsNested'
    BY DEF CollectorOK, WindowsNested, FaultsKept, LimitsOK, Bounded
  <1> QED
    BY <1>1, <1>2 DEF CollectorOK

LEMMA RestingFits ==
    /\ Resting \in Round /\ NoMetrics \in Metrics
    /\ \A r \in Round : r.pc \in {"rest", "cleanup"} => RoundFits(r)'
    /\ \A todo \in SUBSET Deployments, d \in Deployments :
          LET r == [pc |-> "total", todo |-> todo, dep |-> d, got |-> NoMetrics]
          IN r \in Round /\ RoundFits(r)'
  <1>1. (CHOOSE d \in Deployments : TRUE) \in Deployments
    BY ResolveAssumed DEF ResolveAssumption
  <1>2. NoMetrics \in Metrics
    BY DEF NoMetrics, Metrics
  <1> QED
    BY <1>1, <1>2 DEF Resting, Round, NoMetrics, RoundFits

-----------------------------------------------------------------------------
(* The bounds *)

LEMMA UseCounts ==
    ASSUME LimitsOK, NEW k \in Bounded, Use(k)
    PROVE  FaultsKept /\ (k = "faults" => used'["faults"] >= 1)
  <1>1. used \in [Bounded -> Nat] /\ used' = [used EXCEPT ![k] = used[k] + 1]
        /\ "faults" \in Bounded /\ limits' = limits
    BY DEF LimitsOK, Use, Bounded
  <1>2. used[k] \in Nat /\ used["faults"] \in Nat
    BY <1>1
  <1>3. used' \in [Bounded -> Nat]
    BY <1>1, <1>2
  <1>4. /\ used'["faults"] >= used["faults"]
        /\ k = "faults" => used'["faults"] >= 1
    BY <1>1, <1>2
  <1> QED
    BY <1>1, <1>3, <1>4 DEF FaultsKept, LimitsOK

LEMMA NothingCounts ==
    ASSUME LimitsOK, UseNothing
    PROVE  FaultsKept
    BY DEF FaultsKept, LimitsOK, UseNothing, Bounded

LEMMA OutcomeCounts ==
    ASSUME LimitsOK, NEW ok \in BOOLEAN, Outcome(ok)
    PROVE  FaultsKept /\ (~ok => used'["faults"] >= 1)
  <1>1. CASE ok
    BY <1>1, NothingCounts DEF Outcome
  <1>2. CASE ~ok
    <2>1. Use("faults") /\ "faults" \in Bounded
      BY <1>2 DEF Outcome, Bounded
    <2> QED
      BY <2>1, UseCounts
  <1> QED
    BY <1>1, <1>2

-----------------------------------------------------------------------------
(* The collector's statements *)

LEMMA BeginRoundKeeps ==
    ASSUME CollectorOK, FaultsKept, NEW ok \in BOOLEAN, BeginRound(ok)
    PROVE  CollectorOK'
  <1>1. /\ running \subseteq Deployments /\ here \subseteq Deployments
        /\ requests \in [Deployments -> [Ages -> Nat]]
        /\ UNCHANGED <<placeVars, requests, metrics>>
    BY DEF CollectorOK, CollectorTypeOK, BeginRound, tableVars
  <1>2. CASE UNCHANGED round
    BY <1>1, <1>2, CountsAsTheyAre, TablesKeep
  <1>3. CASE Takes(running)
    <2>1. PICK d \in running :
             round' = [pc |-> "total", todo |-> running \ {d}, dep |-> d, got |-> NoMetrics]
      BY <1>3 DEF Takes
    <2> QED
      BY <1>1, <2>1, RestingFits, ReadKeeps
  <1> QED
    BY <1>2, <1>3 DEF BeginRound

\* A field of what was counted is replaced.
LEMMA FieldsCounted ==
    ASSUME NEW m \in Metrics, NEW n \in Nat, NEW b \in BOOLEAN
    PROVE  /\ LET got == [m EXCEPT !.total = n]
              IN got \in Metrics /\ got.total = n /\ got.hour = m.hour /\ got.day = m.day
           /\ LET got == [m EXCEPT !.total = 0, !.hour = 0, !.day = 0]
              IN got \in Metrics /\ got.total = 0 /\ got.hour = 0 /\ got.day = 0
           /\ LET got == [m EXCEPT !["hour"] = n]
              IN got \in Metrics /\ got.hour = n /\ got.total = m.total /\ got.day = m.day
           /\ LET got == [m EXCEPT !["day"] = n]
              IN got \in Metrics /\ got.day = n /\ got.total = m.total /\ got.hour = m.hour
           /\ LET got == [m EXCEPT !.bytes = n]
              IN /\ got \in Metrics /\ got.bytes = n /\ got.hour = m.hour
                 /\ got.total = m.total /\ got.day = m.day
           /\ LET got == [m EXCEPT !.latency = b]
              IN /\ got \in Metrics /\ got.bytes = m.bytes /\ got.hour = m.hour
                 /\ got.total = m.total /\ got.day = m.day
  <1>1. 0 \in Nat
    OBVIOUS
  <1> QED
    BY <1>1 DEF Metrics

\* What a statement of a round has read.
LEMMA ReadsTo ==
    ASSUME NEW r \in Round, r = round, NEW got \in Metrics,
           NEW pc \in {"first", "second", "bytes", "latency", "write"}, Reads(pc, got)
    PROVE  \E s \in Round : round' = s /\ s.pc = pc /\ s.dep = r.dep /\ s.got = got /\ s.todo = r.todo
  <1> DEFINE s == [r EXCEPT !.pc = pc, !.got = got]
  <1>1. s \in Round /\ s.pc = pc /\ s.dep = r.dep /\ s.got = got /\ s.todo = r.todo
    BY DEF Round
  <1>2. round' = s
    BY DEF Reads
  <1> QED
    BY <1>1, <1>2

LEMMA NoCountsKeeps ==
    ASSUME CollectorOK, FaultsKept, NoCounts, UNCHANGED <<placeVars, requests, metrics>>
    PROVE  CollectorOK'
  <1>1. PICK r \in Round : r = round
    BY DEF CollectorOK, CollectorTypeOK
  <1>2. PICK got \in Metrics : /\ got = [round.got EXCEPT !.total = 0, !.hour = 0, !.day = 0]
                               /\ got.total = 0 /\ got.hour = 0 /\ got.day = 0
    <2>1. r.got \in Metrics
      BY RoundTyped
    <2> QED
      BY <1>1, <2>1, FieldsCounted
  <1>3. PICK s \in Round : round' = s /\ s.pc = "bytes" /\ s.dep = r.dep /\ s.got = got
    BY <1>1, <1>2, ReadsTo DEF NoCounts
  <1>4. Total(r.dep)' \in Nat
    <2>1. requests \in [Deployments -> [Ages -> Nat]] /\ r.dep \in Deployments
      BY RoundTyped DEF CollectorOK, CollectorTypeOK
    <2>2. Total(r.dep)' = Total(r.dep)
      BY DEF Total, LastDay, LastHour
    <2> QED
      BY <2>1, <2>2, CountsTyped
  <1>5. RoundFits(s)'
    BY <1>2, <1>3, <1>4 DEF RoundFits
  <1> QED
    BY <1>3, <1>5, ReadKeeps

LEMMA StaysCounted ==
    ASSUME CollectorOK, UNCHANGED requests, NEW d \in Deployments
    PROVE  /\ Total(d)' = Total(d) /\ LastHour(d)' = LastHour(d) /\ LastDay(d)' = LastDay(d)
           /\ LastHour(d) \in Nat /\ LastDay(d) \in Nat /\ Total(d) \in Nat
           /\ LastHour(d) <= LastDay(d) /\ LastDay(d) <= Total(d)
  <1>1. requests \in [Deployments -> [Ages -> Nat]]
    BY DEF CollectorOK, CollectorTypeOK
  <1> QED
    BY <1>1, CountsTyped DEF Total, LastDay, LastHour

LEMMA CountTotalKeeps ==
    ASSUME CollectorOK, FaultsKept, NEW ok \in BOOLEAN, CountTotal(ok)
    PROVE  CollectorOK'
  <1>1. UNCHANGED <<placeVars, requests, metrics>>
    BY DEF CountTotal, tableVars
  <1>2. CASE ~ok
    BY <1>1, <1>2, NoCountsKeeps DEF CountTotal
  <1>3. CASE ok
    <2>1. PICK r \in Round : r = round /\ RoundFits(r) /\ r.pc = "total"
      BY DEF CollectorOK, CollectorTypeOK, CountTotal
    <2>2. /\ r.dep \in Deployments /\ r.got \in Metrics
          /\ Total(r.dep)' = Total(r.dep) /\ Total(r.dep) \in Nat
      BY <1>1, RoundTyped, StaysCounted
    <2>3. PICK got : got = [r.got EXCEPT !.total = Total(r.dep)]
      OBVIOUS
    <2>4. /\ got \in Metrics /\ got.total = Total(r.dep)
          /\ got.hour = r.got.hour /\ got.day = r.got.day
      BY <2>2, <2>3, FieldsCounted
    <2>5. Reads("first", got)
      BY <1>3, <2>1, <2>3 DEF CountTotal
    <2>6. PICK s \in Round : round' = s /\ s.pc = "first" /\ s.dep = r.dep /\ s.got = got
      BY <2>1, <2>4, <2>5, ReadsTo
    <2>7. RoundFits(s)'
      BY <2>1, <2>2, <2>4, <2>6 DEF RoundFits
    <2> QED
      BY <1>1, <2>6, <2>7, ReadKeeps
  <1> QED
    BY <1>2, <1>3

\* The hour is counted before the day.
LEMMA CountWindowKeeps ==
    ASSUME CollectorOK, FaultsKept, NEW k \in {1, 2}, NEW ok \in BOOLEAN, CountWindow(k, ok)
    PROVE  CollectorOK'
  <1>1. UNCHANGED <<placeVars, requests, metrics>>
    BY DEF CountWindow, tableVars
  <1>2. PICK r \in Round : r = round /\ RoundFits(r) /\ r.pc = <<"first", "second">>[k]
    BY DEF CollectorOK, CollectorTypeOK, CountWindow
  <1>3. /\ r.dep \in Deployments /\ r.got \in Metrics
        /\ r.got.total \in Nat /\ r.got.hour \in Nat /\ r.got.day \in Nat
        /\ Total(r.dep)' = Total(r.dep) /\ LastHour(r.dep)' = LastHour(r.dep)
        /\ LastHour(r.dep) \in Nat /\ LastDay(r.dep) \in Nat /\ Total(r.dep) \in Nat
        /\ LastHour(r.dep) <= LastDay(r.dep) /\ LastDay(r.dep) <= Total(r.dep)
    BY <1>1, RoundTyped, StaysCounted
  <1>4. CASE ~ok
    BY <1>1, <1>4, NoCountsKeeps DEF CountWindow
  <1>5. CASE ok /\ k = 1
    <2>1. PICK got : got = [r.got EXCEPT !["hour"] = LastHour(r.dep)]
      OBVIOUS
    <2>2. /\ got \in Metrics /\ got.hour = LastHour(r.dep)
          /\ got.total = r.got.total /\ got.day = r.got.day
      BY <1>3, <2>1, FieldsCounted
    <2>3. Reads("second", got)
      BY <1>2, <1>5, <2>1 DEF CountWindow, WindowOrder
    <2>4. PICK s \in Round : round' = s /\ s.pc = "second" /\ s.dep = r.dep /\ s.got = got
      BY <1>2, <2>2, <2>3, ReadsTo
    <2>5. r.pc = "first"
      BY <1>2, <1>5
    <2>6. RoundFits(s)'
      BY <1>2, <1>3, <2>2, <2>4, <2>5 DEF RoundFits
    <2> QED
      BY <1>1, <2>4, <2>6, ReadKeeps
  <1>6. CASE ok /\ k = 2
    <2>1. PICK got : got = [r.got EXCEPT !["day"] = LastDay(r.dep)]
      OBVIOUS
    <2>2. /\ got \in Metrics /\ got.day = LastDay(r.dep)
          /\ got.total = r.got.total /\ got.hour = r.got.hour
      BY <1>3, <2>1, FieldsCounted
    <2>3. Reads("bytes", got)
      BY <1>2, <1>6, <2>1 DEF CountWindow, WindowOrder
    <2>4. PICK s \in Round : round' = s /\ s.pc = "bytes" /\ s.dep = r.dep /\ s.got = got
      BY <1>2, <2>2, <2>3, ReadsTo
    <2>5. r.pc = "second"
      BY <1>2, <1>6
    <2>6. RoundFits(s)'
      BY <1>2, <1>3, <2>2, <2>4, <2>5 DEF RoundFits
    <2> QED
      BY <1>1, <2>4, <2>6, ReadKeeps
  <1> QED
    BY <1>4, <1>5, <1>6

LEMMA SumBytesKeeps ==
    ASSUME CollectorOK, FaultsKept, NEW ok \in BOOLEAN, ~ok => used'["faults"] >= 1, SumBytes(ok)
    PROVE  CollectorOK'
  <1>1. UNCHANGED <<placeVars, requests, metrics>>
    BY DEF SumBytes, tableVars
  <1>2. PICK r \in Round : r = round /\ RoundFits(r) /\ r.pc = "bytes"
    BY DEF CollectorOK, CollectorTypeOK, SumBytes
  <1>3. r.dep \in Deployments /\ r.got \in Metrics /\ Total(r.dep) \in Nat
    BY <1>1, RoundTyped, StaysCounted
  <1>4. PICK bytes \in Nat : bytes = IF ok THEN Total(r.dep) ELSE 0
    BY <1>3
  <1>5. PICK got : got = [r.got EXCEPT !.bytes = bytes]
    OBVIOUS
  <1>6. /\ got \in Metrics /\ got.bytes = bytes /\ got.hour = r.got.hour
        /\ got.total = r.got.total /\ got.day = r.got.day
    BY <1>3, <1>5, FieldsCounted
  <1>7. Reads("latency", got)
    BY <1>2, <1>4, <1>5 DEF SumBytes
  <1>8. PICK s \in Round : round' = s /\ s.pc = "latency" /\ s.dep = r.dep /\ s.got = got
    BY <1>2, <1>6, <1>7, ReadsTo
  <1>9. RoundFits(s)'
    <2>1. used'["faults"] = 0 => ok
      BY DEF FaultsKept, LimitsOK, Bounded
    <2> QED
      BY <1>2, <1>4, <1>6, <1>8, <2>1 DEF RoundFits
  <1> QED
    BY <1>1, <1>8, <1>9, ReadKeeps

LEMMA PercentilesKeeps ==
    ASSUME CollectorOK, FaultsKept, NEW ok \in BOOLEAN, Percentiles(ok)
    PROVE  CollectorOK'
  <1>1. UNCHANGED <<placeVars, requests, metrics>>
    BY DEF Percentiles, tableVars
  <1>2. PICK r \in Round : r = round /\ RoundFits(r) /\ r.pc = "latency"
    BY DEF CollectorOK, CollectorTypeOK, Percentiles
  <1>3. PICK latency \in BOOLEAN : latency = (ok /\ LastHour(r.dep) > 0)
    OBVIOUS
  <1>4. PICK got \in Metrics : /\ got = [r.got EXCEPT !.latency = latency]
                               /\ got.bytes = r.got.bytes /\ got.hour = r.got.hour
                               /\ got.total = r.got.total /\ got.day = r.got.day
    <2>1. r.got \in Metrics
      BY RoundTyped
    <2> QED
      BY <2>1, FieldsCounted
  <1>5. Reads("write", got)
    BY <1>2, <1>3, <1>4 DEF Percentiles
  <1>6. PICK s \in Round : round' = s /\ s.pc = "write" /\ s.dep = r.dep /\ s.got = got
    BY <1>2, <1>4, <1>5, ReadsTo
  <1>7. RoundFits(s)'
    <2>1. used'["faults"] = 0 => used["faults"] = 0
      BY DEF FaultsKept, LimitsOK, Bounded
    <2> QED
      BY <1>2, <1>4, <1>6, <2>1 DEF RoundFits
  <1> QED
    BY <1>1, <1>6, <1>7, ReadKeeps

\* The row that is written has nested windows.
LEMMA UpdateMetricsKeeps ==
    ASSUME CollectorOK, FaultsKept, NEW pods \in 0..1, NEW ok \in BOOLEAN, UpdateMetrics(pods, ok)
    PROVE  CollectorOK'
  <1>1. /\ UNCHANGED <<placeVars, requests>> /\ CollectorTypeOK /\ WindowsNested
        /\ used["faults"] \in Nat /\ used'["faults"] \in Nat /\ used'["faults"] >= used["faults"]
    BY DEF UpdateMetrics, CollectorOK, FaultsKept, LimitsOK, Bounded
  <1>2. PICK r \in Round : r = round /\ RoundFits(r) /\ r.pc = "write"
    BY DEF CollectorOK, CollectorTypeOK, UpdateMetrics
  <1>3. PICK m : m = [r.got EXCEPT !.pods = pods]
    OBVIOUS
  <1>4. /\ m \in Metrics /\ m.total = r.got.total /\ m.hour = r.got.hour
        /\ m.day = r.got.day /\ m.bytes = r.got.bytes /\ r.dep \in Deployments
    <2>1. r.got \in Metrics /\ r.dep \in Deployments
      BY RoundTyped
    <2> QED
      BY <1>3, <2>1 DEF Metrics
  <1>5. /\ m.hour <= m.day
        /\ used'["faults"] = 0 => m.total <= m.bytes /\ m.day <= m.bytes
    <2>1. used'["faults"] = 0 => used["faults"] = 0
      BY <1>1
    <2> QED
      BY <1>2, <1>4, <2>1 DEF RoundFits
  <1>6. metrics' = metrics \/ metrics' = [metrics EXCEPT ![r.dep] = m]
    BY <1>2, <1>3 DEF UpdateMetrics
  <1>7. /\ metrics' \in [Deployments -> Metrics]
        /\ \A d \in Deployments : metrics'[d] = metrics[d] \/ metrics'[d] = m
    BY <1>1, <1>4, <1>6 DEF CollectorTypeOK
  <1>8. WindowsNested'
    <2>1. used'["faults"] = 0 => used["faults"] = 0
      BY <1>1
    <2> QED
      BY <1>1, <1>5, <1>7, <2>1 DEF WindowsNested
  <1>9. round' \in Round /\ RoundFits(round)'
    <2>1. CASE r.todo = {}
      <3>1. PICK q : q = [Resting EXCEPT !.pc = "cleanup"]
        OBVIOUS
      <3>2. q \in Round /\ q.pc = "cleanup" /\ round' = q
        BY <1>2, <2>1, <3>1, RestingFits DEF UpdateMetrics, NextDeployment, Round
      <3> QED
        BY <3>2, RestingFits
    <2>2. CASE r.todo # {}
      <3>1. Takes(round.todo) /\ r.todo \subseteq Deployments
        BY <1>2, <2>2, RoundTyped DEF UpdateMetrics, NextDeployment
      <3>2. PICK d \in r.todo :
               round' = [pc |-> "total", todo |-> r.todo \ {d}, dep |-> d, got |-> NoMetrics]
        BY <1>2, <3>1 DEF Takes
      <3>3. d \in Deployments /\ r.todo \ {d} \in SUBSET Deployments
        BY <3>1
      <3>4. PICK q : q = [pc |-> "total", todo |-> r.todo \ {d}, dep |-> d, got |-> NoMetrics]
        OBVIOUS
      <3>5. q \in Round /\ RoundFits(q)'
        BY <3>3, <3>4, RestingFits
      <3> QED
        BY <3>2, <3>4, <3>5
    <2> QED
      BY <2>1, <2>2
  <1> QED
    BY <1>1, <1>7, <1>8, <1>9 DEF CollectorOK, CollectorTypeOK

\* The clean-up, and a restart: the collector rests.
LEMMA RestsKeep ==
    ASSUME CollectorOK, FaultsKept, requests' \in [Deployments -> [Ages -> Nat]],
           round' = Resting, UNCHANGED <<placeVars, metrics>>
    PROVE  CollectorOK'
  <1>1. CollectorTypeOK'
    BY RestingFits DEF CollectorOK, CollectorTypeOK
  <1>2. WindowsNested'
    BY DEF CollectorOK, WindowsNested, FaultsKept, LimitsOK, Bounded
  <1>3. PICK r : r = Resting
    OBVIOUS
  <1>4. r \in Round /\ r.pc = "rest"
    BY <1>3, RestingFits DEF Resting
  <1>5. RoundFits(r)'
    BY <1>4, RestingFits
  <1>6. RoundFits(round)'
    BY <1>3, <1>5
  <1> QED
    BY <1>1, <1>2, <1>6 DEF CollectorOK

LEMMA CleanupKeeps ==
    ASSUME CollectorOK, FaultsKept, NEW ok \in BOOLEAN, CleanupOldRequests(ok)
    PROVE  CollectorOK'
  <1>1. requests \in [Deployments -> [Ages -> Nat]]
    BY DEF CollectorOK, CollectorTypeOK
  <1>2. requests' \in [Deployments -> [Ages -> Nat]]
    <2>1. \A f \in [Ages -> Nat] : [f EXCEPT !["old"] = 0] \in [Ages -> Nat]
      OBVIOUS
    <2> QED
      BY <1>1, <2>1 DEF CleanupOldRequests
  <1> QED
    BY <1>2, RestsKeep DEF CleanupOldRequests

-----------------------------------------------------------------------------
(* The tables while the collector is not looking *)

\* No row gets older between the two windows; its deployment's total stays.
LEMMA GrowOldKeeps ==
    ASSUME CollectorOK, FaultsKept, NEW d \in Deployments, NEW age \in Ages, GrowOld(d, age)
    PROVE  CollectorOK'
  <1>1. /\ UNCHANGED <<placeVars, metrics, round>> /\ CollectorTypeOK
        /\ age \in {"hour", "day", "week"} /\ requests[d][age] > 0
        /\ requests' = [requests EXCEPT ![d][age] = @ - 1, ![d][Aged(age)] = @ + 1]
    BY DEF GrowOld, CollectorOK, Ages
  <1>2. PICK f \in [Ages -> Nat] : f = requests[d]
    BY <1>1 DEF CollectorTypeOK
  <1>3. PICK later \in Ages : later = Aged(age) /\ later # age
    BY <1>1 DEF Aged, Ages
  <1>4. PICK g : g = [f EXCEPT ![age] = f[age] - 1, ![later] = f[later] + 1]
    OBVIOUS
  <1>5. /\ g \in [Ages -> Nat]
        /\ g["hour"] + g["day"] + g["week"] + g["old"] = f["hour"] + f["day"] + f["week"] + f["old"]
    <2>1. f[age] \in Nat /\ f[age] > 0 /\ f[later] \in Nat
      BY <1>1, <1>2, <1>3
    <2>2. g \in [Ages -> Nat]
      BY <1>4, <2>1
    <2>3. \A a \in Ages : f[a] \in Nat /\ g[a] = IF a = later THEN f[a] + 1
                                               ELSE IF a = age THEN f[a] - 1 ELSE f[a]
      BY <1>3, <1>4
    <2>4. age \in {"hour", "day", "week", "old"} /\ later \in {"hour", "day", "week", "old"}
      BY <1>3 DEF Ages
    <2>5. /\ "hour" \in Ages /\ "day" \in Ages /\ "week" \in Ages /\ "old" \in Ages
      BY DEF Ages
    <2> QED
      BY <1>3, <2>2, <2>3, <2>4, <2>5
  <1>6. requests' = [requests EXCEPT ![d] = g]
    BY <1>1, <1>2, <1>3, <1>4 DEF CollectorTypeOK
  <1>7. requests' \in [Deployments -> [Ages -> Nat]]
    BY <1>1, <1>5, <1>6 DEF CollectorTypeOK
  <1>8. \A e \in Deployments : Total(e)' = Total(e) /\ Total(e) \in Nat
    <2>1. ASSUME NEW e \in Deployments PROVE Total(e)' = Total(e)
      <3>1. CASE e = d
        <4>1. requests'[e] = g /\ requests[e] = f
          BY <1>1, <1>2, <1>6, <3>1 DEF CollectorTypeOK
        <4> QED
          BY <1>5, <4>1 DEF Total, LastDay, LastHour
      <3>2. CASE e # d
        BY <1>1, <1>6, <3>2 DEF CollectorTypeOK, Total, LastDay, LastHour
      <3> QED
        BY <3>1, <3>2
    <2> QED
      BY <1>1, <2>1, CountsTyped DEF CollectorTypeOK
  <1>9. RoundFits(round)'
    <2>1. PICK r \in Round : r = round /\ RoundFits(r) /\ r.pc \notin {"first", "second"}
      BY DEF CollectorOK, CollectorTypeOK, GrowOld
    <2>2. r.dep \in Deployments
      BY RoundTyped
    <2>3. Total(r.dep)' = Total(r.dep) /\ (used'["faults"] = 0 => used["faults"] = 0)
      BY <1>8, <2>2 DEF FaultsKept, LimitsOK, Bounded
    <2>4. RoundFits(r)'
      BY <2>1, <2>3 DEF RoundFits
    <2> QED
      BY <1>1, <2>1, <2>4
  <1>10. WindowsNested'
    BY <1>1 DEF CollectorOK, WindowsNested, FaultsKept, LimitsOK, Bounded
  <1> QED
    BY <1>1, <1>7, <1>9, <1>10 DEF CollectorOK, CollectorTypeOK

\* A batch is inserted.
LEMMA InsertedKeeps ==
    ASSUME CollectorOK, FaultsKept, NEW out \in Seq(Deployments), NEW age \in Ages,
           requests' = Inserted(out, age), UNCHANGED <<placeVars, metrics, round>>
    PROVE  CollectorOK'
  <1>1. /\ requests \in [Deployments -> [Ages -> Nat]]
        /\ running \subseteq Deployments /\ here \subseteq Deployments
    BY DEF CollectorOK, CollectorTypeOK
  <1>2. ASSUME NEW d \in Deployments PROVE Cardinality({k \in DOMAIN out : out[k] = d}) \in Nat
    <2>1. IsFiniteSet(1..Len(out))
      BY FS_Interval
    <2>2. {k \in DOMAIN out : out[k] = d} \subseteq 1..Len(out)
      OBVIOUS
    <2> QED
      BY <2>1, <2>2, FS_Subset, FS_CardinalityType
  <1>3. ASSUME NEW d \in Deployments
        PROVE  /\ requests'[d] \in [Ages -> Nat]
               /\ \A a \in Ages : requests'[d][a] >= requests[d][a]
    <2>1. PICK f \in [Ages -> Nat] : f = requests[d]
      BY <1>1
    <2>2. PICK n \in Nat : n = Cardinality({k \in DOMAIN out : out[k] = d})
      BY <1>2
    <2>3. requests'[d] = [f EXCEPT ![age] = f[age] + n]
      BY <2>1, <2>2 DEF Inserted
    <2>4. f[age] \in Nat /\ f[age] + n \in Nat
      OBVIOUS
    <2> QED
      BY <2>1, <2>3, <2>4
  <1>4. requests' \in [Deployments -> [Ages -> Nat]]
    <2>1. DOMAIN requests' = Deployments /\ requests' = [d \in Deployments |-> requests'[d]]
      BY DEF Inserted
    <2> QED
      BY <1>3, <2>1
  <1>5. CountsKept
    <2>1. \A d \in Deployments : Total(d)' >= Total(d) /\ LastHour(d)' >= LastHour(d)
      <3> SUFFICES ASSUME NEW d \in Deployments
                   PROVE  Total(d)' >= Total(d) /\ LastHour(d)' >= LastHour(d)
        OBVIOUS
      <3>1. PICK f \in [Ages -> Nat] : f = requests[d]
        BY <1>1
      <3>2. PICK g \in [Ages -> Nat] : g = requests'[d] /\ \A a \in Ages : g[a] >= f[a]
        BY <1>3, <3>1
      <3>3. /\ f["hour"] \in Nat /\ f["day"] \in Nat /\ f["week"] \in Nat /\ f["old"] \in Nat
            /\ g["hour"] \in Nat /\ g["day"] \in Nat /\ g["week"] \in Nat /\ g["old"] \in Nat
            /\ g["hour"] >= f["hour"] /\ g["day"] >= f["day"]
            /\ g["week"] >= f["week"] /\ g["old"] >= f["old"]
        BY <3>2 DEF Ages
      <3>4. /\ Total(d) = f["hour"] + f["day"] + f["week"] + f["old"] /\ LastHour(d) = f["hour"]
            /\ Total(d)' = g["hour"] + g["day"] + g["week"] + g["old"] /\ LastHour(d)' = g["hour"]
        BY <3>1, <3>2 DEF Total, LastDay, LastHour
      <3>5. \A m1, m2, m3, m4, n1, n2, n3, n4 \in Nat :
               n1 >= m1 /\ n2 >= m2 /\ n3 >= m3 /\ n4 >= m4 =>
                   n1 + n2 + n3 + n4 >= m1 + m2 + m3 + m4
        OBVIOUS
      <3>6. g["hour"] + g["day"] + g["week"] + g["old"] >= f["hour"] + f["day"] + f["week"] + f["old"]
        BY <3>3, <3>5
      <3> QED
        BY <3>3, <3>4, <3>6
    <2> QED
      BY <1>4, <2>1 DEF CountsKept
  <1> QED
    BY <1>1, <1>5, TablesKeep

LEMMA ChangeKeeps ==
    ASSUME CollectorOK, FaultsKept, stored \in Seq(Deployments), NEW d \in Deployments, Change(d)
    PROVE  CollectorOK'
  <1>1. /\ running' \subseteq Deployments /\ here' \subseteq Deployments
        /\ UNCHANGED <<requests, metrics, round>>
    BY DEF Change, CollectorOK, CollectorTypeOK
  <1> QED
    BY <1>1, CountsAsTheyAre, TablesKeep DEF CollectorOK, CollectorTypeOK

-----------------------------------------------------------------------------
(* Each step of the control plane *)

\* A step of the handlers leaves the tables alone.
LEMMA CollectorRests ==
    ASSUME CollectorOK, FaultsKept, UNCHANGED collectorVars
    PROVE  CollectorOK'
  <1>1. UNCHANGED <<placeVars, requests, metrics, round>>
    BY DEF collectorVars
  <1> QED
    BY <1>1, CountsAsTheyAre, TablesKeep DEF CollectorOK, CollectorTypeOK

\* A step of the collector leaves the handlers alone.
LEMMA HandlersRest ==
    ASSUME HandlersOK, UNCHANGED resolveVars
    PROVE  HandlersOK'
  <1>1. UNCHANGED <<database, stored, cache, post, ago>>
    BY DEF resolveVars
  <1>2. Rows' = Rows /\ \A i \in Identifiers, a \in Results : Since(i, a)' = Since(i, a)
    BY <1>1 DEF Rows, Since, Answers, Listed
  <1>3. CacheOK'
    <2>1. \A i \in DOMAIN cache : \A e \in Entry : i \in Identifiers /\ EntryFits(i, e) => EntryFits(i, e)'
      <3> SUFFICES ASSUME NEW i \in DOMAIN cache, NEW e \in Entry, i \in Identifiers, EntryFits(i, e)
                   PROVE  EntryFits(i, e)'
        OBVIOUS
      <3>1. e.answer \in Results
        BY DEF Entry
      <3> QED
        BY <1>2, <3>1 DEF EntryFits, TTL
    <2> QED
      BY <1>1, <2>1 DEF HandlersOK, CacheOK
  <1>4. PostsOK'
    <2>1. Steady /\ AgoTyped /\ AgoTyped' /\ Rows \subseteq Deployments
      BY <1>1, SteadyAsIs, RowsTyped DEF HandlersOK, AgoTyped
    <2>2. ASSUME NEW p \in Posts PROVE FoundFits(post[p])' /\ LocalFits(post[p])'
      <3>1. PICK q \in PostRecord : q = post[p] /\ FoundFits(q) /\ LocalFits(q)
        BY DEF HandlersOK, PostsOK
      <3>2. FoundFits(q)' /\ LocalFits(q)'
        BY <1>2, <2>1, <3>1, FitsKept DEF AgoTyped
      <3> QED
        BY <1>1, <3>1, <3>2
    <2> QED
      BY <1>1, <2>2 DEF HandlersOK, PostsOK
  <1> QED
    BY <1>1, <1>3, <1>4 DEF HandlersOK

LEMMA ArrivesKeeps ==
    ASSUME IInv, NEW p \in Posts, Arrives(p)
    PROVE  IInv'
  <1>1. PICK batch \in limits.batches : Receive(p, batch)
    BY DEF Arrives
  <1>2. batch \in Seq(Identifiers)
    <2>1. limits \in Limits
      BY DEF IInv, LimitsOK
    <2> QED
      BY <1>1, <2>1, AnalyticsAssumed, ResolveAssumed DEF AnalyticsAssumption, ResolveAssumption
  <1>3. HandlersOK'
    BY <1>1, <1>2, ReceiveKeeps DEF IInv
  <1>4. FaultsKept
    BY UseCounts DEF IInv, Arrives, Bounded
  <1>5. CollectorOK'
    BY <1>4, CollectorRests DEF IInv, Arrives
  <1> QED
    BY <1>3, <1>4, <1>5 DEF IInv, FaultsKept

LEMMA ResolvesKeeps ==
    ASSUME IInv, NEW p \in Posts, Resolves(p)
    PROVE  IInv'
  <1>1. FaultsKept /\ HandlersOK'
    <2>1. CASE CacheStep(p) /\ UseNothing
      BY <2>1, NothingCounts, LookKeeps, EvictKeeps, StoreAnswerKeeps DEF IInv, CacheStep
    <2>2. ASSUME NEW ok \in BOOLEAN, Lookup(p, ok) /\ Outcome(ok) PROVE FaultsKept /\ HandlersOK'
      BY <2>2, OutcomeCounts, LookupKeeps DEF IInv
    <2> QED
      BY <2>1, <2>2 DEF Resolves
  <1>2. CollectorOK'
    BY <1>1, CollectorRests DEF IInv, Resolves
  <1> QED
    BY <1>1, <1>2 DEF IInv, FaultsKept

LEMMA RecordsKeeps ==
    ASSUME IInv, NEW p \in Posts, Records(p)
    PROVE  IInv'
  <1>1. HandlersOK'
    <2>1. <<>> \in Seq(Identifiers)
      OBVIOUS
    <2> QED
      BY <2>1, ReceiveKeeps DEF IInv, Records
  <1>2. post[p].out \in Seq(Deployments)
    BY PostTyped DEF IInv, HandlersOK
  <1>3. UNCHANGED <<placeVars, metrics, round>>
    BY DEF Records
  <1>4. CASE \E age \in Ages : /\ IF age = "hour" THEN UseNothing ELSE Use("agings")
                               /\ requests' = Inserted(post[p].out, age)
    <2>1. PICK age \in Ages : /\ IF age = "hour" THEN UseNothing ELSE Use("agings")
                              /\ requests' = Inserted(post[p].out, age)
      BY <1>4
    <2>2. FaultsKept
      BY <2>1, NothingCounts, UseCounts DEF IInv, Bounded
    <2>3. CollectorOK'
      BY <1>2, <1>3, <2>1, <2>2, InsertedKeeps DEF IInv
    <2> QED
      BY <1>1, <2>2, <2>3 DEF IInv, FaultsKept
  <1>5. CASE requests' = requests /\ Outcome(~database)
    <2>1. FaultsKept
      BY <1>5, OutcomeCounts DEF IInv
    <2>2. CollectorOK'
      BY <1>3, <1>5, <2>1, CollectorRests DEF IInv, collectorVars
    <2> QED
      BY <1>1, <2>1, <2>2 DEF IInv, FaultsKept
  <1> QED
    BY <1>4, <1>5 DEF Records

LEMMA CollectsKeeps ==
    ASSUME IInv, Collects
    PROVE  IInv'
  <1>1. HandlersOK'
    BY HandlersRest DEF IInv, Collects
  <1>2. FaultsKept /\ CollectorOK'
    <2>1. ASSUME NEW ok \in BOOLEAN, CollectorStatement(ok) /\ Outcome(ok)
          PROVE  FaultsKept /\ CollectorOK'
      <3>1. FaultsKept /\ (~ok => used'["faults"] >= 1)
        BY <2>1, OutcomeCounts DEF IInv
      <3>2. CASE BeginRound(ok)
        BY <3>1, <3>2, BeginRoundKeeps DEF IInv
      <3>3. CASE CountTotal(ok)
        BY <3>1, <3>3, CountTotalKeeps DEF IInv
      <3>4. CASE CountWindow(1, ok) \/ CountWindow(2, ok)
        BY <3>1, <3>4, CountWindowKeeps DEF IInv
      <3>5. CASE SumBytes(ok)
        BY <3>1, <3>5, SumBytesKeeps DEF IInv
      <3>6. CASE Percentiles(ok)
        BY <3>1, <3>6, PercentilesKeeps DEF IInv
      <3>7. CASE CleanupOldRequests(ok)
        BY <3>1, <3>7, CleanupKeeps DEF IInv
      <3> QED
        BY <2>1, <3>1, <3>2, <3>3, <3>4, <3>5, <3>6, <3>7 DEF CollectorStatement
    <2>2. ASSUME NEW ok \in BOOLEAN, NEW answered \in BOOLEAN,
                 UpdateMetrics(PodCounts(round.dep, answered), ok) /\ Outcome(ok /\ answered)
          PROVE  FaultsKept /\ CollectorOK'
      <3>1. FaultsKept
        BY <2>2, OutcomeCounts DEF IInv
      <3>2. PodCounts(round.dep, answered) \in 0..1
        BY DEF PodCounts
      <3> QED
        BY <2>2, <3>1, <3>2, UpdateMetricsKeeps DEF IInv
    <2> QED
      BY <2>1, <2>2 DEF Collects
  <1> QED
    BY <1>1, <1>2 DEF IInv, FaultsKept

LEMMA DeploymentKeeps ==
    ASSUME IInv, NEW d \in Deployments, Stores(d) \/ Changes(d) \/ GrowsOld(d)
    PROVE  IInv'
  <1>1. CASE Stores(d)
    <2>1. HandlersOK' /\ FaultsKept
      BY <1>1, StoreKeeps, NothingCounts DEF IInv, Stores
    <2> QED
      BY <1>1, <2>1, CollectorRests DEF IInv, Stores, FaultsKept
  <1>2. CASE Changes(d)
    <2>1. HandlersOK' /\ FaultsKept
      BY <1>2, HandlersRest, UseCounts DEF IInv, Changes, Bounded
    <2>2. CollectorOK'
      BY <1>2, <2>1, ChangeKeeps DEF IInv, HandlersOK, Changes
    <2> QED
      BY <2>1, <2>2 DEF IInv, FaultsKept
  <1>3. CASE GrowsOld(d)
    <2>1. HandlersOK' /\ FaultsKept
      BY <1>3, HandlersRest, UseCounts DEF IInv, GrowsOld, Bounded
    <2>2. CollectorOK'
      BY <1>3, <2>1, GrowOldKeeps DEF IInv, GrowsOld
    <2> QED
      BY <2>1, <2>2 DEF IInv, FaultsKept
  <1> QED
    BY <1>1, <1>2, <1>3

LEMMA ClockKeeps ==
    ASSUME IInv, Ticks \/ Restart
    PROVE  IInv'
  <1>1. CASE Ticks
    <2>1. HandlersOK' /\ FaultsKept
      BY <1>1, TickKeeps, UseCounts DEF IInv, Ticks, Bounded
    <2> QED
      BY <1>1, <2>1, CollectorRests DEF IInv, Ticks, FaultsKept
  <1>2. CASE Restart
    <2>1. HandlersOK' /\ FaultsKept
      BY <1>2, ForgetKeeps, UseCounts DEF IInv, Restart, Bounded
    <2>2. CollectorOK'
      BY <1>2, <2>1, RestsKeep DEF IInv, Restart, tableVars, CollectorOK, CollectorTypeOK
    <2> QED
      BY <2>1, <2>2 DEF IInv, FaultsKept
  <1> QED
    BY <1>1, <1>2

LEMMA NextKeeps ==
    ASSUME IInv, [Next]_vars
    PROVE  IInv'
  <1>1. CASE \E p \in Posts : Arrives(p) \/ Resolves(p) \/ Records(p)
    BY <1>1, ArrivesKeeps, ResolvesKeeps, RecordsKeeps
  <1>2. CASE Collects
    BY <1>2, CollectsKeeps
  <1>3. CASE \E d \in Deployments : Stores(d) \/ Changes(d) \/ GrowsOld(d)
    BY <1>3, DeploymentKeeps
  <1>4. CASE Ticks \/ Restart
    BY <1>4, ClockKeeps
  <1>5. CASE UNCHANGED vars
    <2>1. UNCHANGED resolveVars /\ UNCHANGED collectorVars /\ UseNothing
      BY <1>5 DEF vars, UseNothing
    <2>2. FaultsKept
      BY <2>1, NothingCounts DEF IInv
    <2> QED
      BY <2>1, <2>2, HandlersRest, CollectorRests DEF IInv, FaultsKept
  <1> QED
    BY <1>1, <1>2, <1>3, <1>4, <1>5 DEF Next

LEMMA InitIInv ==
    ASSUME Init
    PROVE  IInv
  <1>1. PICK l \in Limits : l = limits
    BY DEF Init
  <1>2. PICK before \in Seq(Deployments) :
           /\ before = l.before
           /\ Cardinality({before[k] : k \in DOMAIN before}) <= CacheEntries
    BY <1>1, AnalyticsAssumed DEF AnalyticsAssumption
  <1>3. /\ stored = before /\ database \in BOOLEAN
        /\ cache = [d \in {before[k] : k \in DOMAIN before} |-> [answer |-> d, left |-> CacheTTL]]
        /\ post = [p \in Posts |-> NoPost]
        /\ ago = [i \in Identifiers |-> [a \in Results |-> Old]]
    BY <1>1, <1>2 DEF Init, ResolveInit
  <1>4. Rows = {before[k] : k \in DOMAIN before} /\ Rows \subseteq Deployments
    BY <1>3 DEF Rows
  <1>5. AgoTyped
    BY <1>3, TimesTyped DEF AgoTyped
  <1>6. CacheOK
    <2>1. IsFiniteSet(Rows)
      <3>1. IsFiniteSet(1..Len(before))
        BY FS_Interval
      <3>2. before \in Surjection(1..Len(before), Rows)
        BY <1>4 DEF Surjection
      <3> QED
        BY <3>1, <3>2, FS_Surjection
    <2>2. ASSUME NEW d \in Rows
          PROVE  /\ d \in Identifiers /\ [answer |-> d, left |-> CacheTTL] \in Entry
                 /\ EntryFits(d, [answer |-> d, left |-> CacheTTL])
      <3>1. d \in Deployments /\ d \in Identifiers /\ d \in Results /\ d # Unknown
        BY <1>4, ResolveAssumed DEF Identifiers, Results, ResolveAssumption
      <3>2. Since(d, d) = 0
        BY DEF Since, Answers
      <3>3. CacheTTL \in -1..(CacheTTL + NegativeTTL) /\ CacheTTL - CacheTTL + PostTicks >= 0
            /\ TTL(d) = CacheTTL
        BY <3>1, ResolveAssumed DEF ResolveAssumption, TTL
      <3> QED
        BY <3>1, <3>2, <3>3 DEF Entry, EntryFits
    <2>3. DOMAIN cache = Rows /\ \A d \in Rows : cache[d] = [answer |-> d, left |-> CacheTTL]
      BY <1>3, <1>4
    <2> QED
      BY <1>2, <1>4, <2>1, <2>2, <2>3 DEF CacheOK
  <1>7. PostsOK
    BY <1>3, NoPostTyped DEF PostsOK
  <1>8. CollectorOK
    <2>1. CollectorTypeOK
      <3>1. 0 \in Nat
        OBVIOUS
      <3> QED
        BY <1>4, <3>1, RestingFits DEF Init, CollectorInit, CollectorTypeOK
    <2>2. RoundFits(round)
      BY DEF Init, CollectorInit, Resting, RoundFits
    <2>3. WindowsNested
      BY DEF Init, CollectorInit, NoMetrics, WindowsNested
    <2> QED
      BY <2>1, <2>2, <2>3 DEF CollectorOK
  <1>9. LimitsOK
    BY DEF Init, LimitsOK
  <1> QED
    BY <1>3, <1>5, <1>6, <1>7, <1>8, <1>9 DEF IInv, HandlersOK, AgoTyped

LEMMA IInvAlways == Spec => []IInv
  <1>1. Init => IInv
    BY InitIInv
  <1>2. IInv /\ [Next]_vars => IInv'
    BY NextKeeps
  <1> QED
    BY <1>1, <1>2, PTL DEF Spec

-----------------------------------------------------------------------------
(***************************************************************************)
(* The state keeps its shape; the cache of resolveTelemetryDeploymentID    *)
(* never holds more than telemetryResolveMaxCacheEntries.                  *)
(***************************************************************************)
THEOREM TypeCorrect == Spec => []TypeOK
  <1>1. IInv => TypeOK
    BY DEF IInv, HandlersOK, CacheOK, PostsOK, CollectorOK, CollectorTypeOK, LimitsOK, TypeOK
  <1> QED
    BY <1>1, IInvAlways, PTL

(***************************************************************************)
(* A request that telemetry reports is counted for a deployment its        *)
(* identifier meant at most one lifetime of the answer and two handlers    *)
(* ago, for any number of handlers, deployments that take over a name,     *)
(* failed lookups and restarts.                                            *)
(***************************************************************************)
THEOREM CountedForItsDeployment == Spec => []AnswersRecent
  <1>1. ASSUME IInv PROVE AnswersRecent
    <2>1. \A i \in DOMAIN cache : EntryFits(i, cache[i])
      BY <1>1 DEF IInv, HandlersOK, CacheOK
    <2>2. \A p \in Posts : LocalFits(post[p])
      BY <1>1 DEF IInv, HandlersOK, PostsOK
    <2> QED
      BY <2>1, <2>2 DEF AnswersRecent, EntryFits, LocalFits
  <1> QED
    BY <1>1, IInvAlways, PTL

(***************************************************************************)
(* A metrics row never shows more requests in the last hour than in the    *)
(* last day, nor requests without their bytes unless a statement failed,   *)
(* although collectDeploymentMetrics reads them one after the other while  *)
(* rows are inserted and get older.                                        *)
(***************************************************************************)
THEOREM RowsAreNested == Spec => []WindowsNested
  <1>1. IInv => WindowsNested
    BY DEF IInv, CollectorOK
  <1> QED
    BY <1>1, IInvAlways, PTL

=============================================================================
