----------------------------- MODULE PagesProofs -----------------------------
(***************************************************************************)
(* Proofs about the details of a deployment, for any number of requests at *)
(* the same time and any lifetime of the pods' cache that is not shorter   *)
(* than a request, about its build log, for any number of chunks and of    *)
(* viewers, and about its application log, for lines of any length.        *)
(***************************************************************************)
EXTENDS PagesProperties, SequenceTheorems, TLAPS

-----------------------------------------------------------------------------
(* The inductive invariant of the details *)

\* Requests that missed the cache at first.
Missed == {r \in Requests : detail[r].pc \in {"pods", "resources", "store"}}

\* An entry is as old as its halves, up to the two requests that stored and
\* renewed it.
EntryRecent(k) ==
    k.age <= PodTTL =>
        /\ k.pods <= k.age + 2 * RequestTicks
        /\ k.resources <= k.age + 2 * RequestTicks

\* Whoever missed the cache finds an entry only if it is newer than the miss,
\* and data that a request may have fetched that also missed it.
NewerThanMiss(k, q) ==
    k.age <= PodTTL =>
        /\ k.age <= q.age
        /\ k.pods <= RequestTicks + q.age /\ k.resources <= RequestTicks + q.age

\* What a request has not fetched itself it has from an entry that is still
\* fresh: nobody has missed the cache since.
Fetched(data, q) ==
    /\ data <= q.age \/ \E k \in kept : k.age <= q.age
    /\ \A r \in Missed : data <= RequestTicks + detail[r].age

HasRecent(q) ==
    /\ q.pc \in {"resources", "store"} => q.pods # -1 /\ Fetched(q.pods, q)
    /\ q.pc = "store" => Fetched(q.resources, q)
    /\ q.pods <= PodTTL + 2 * RequestTicks + q.age
    /\ q.resources <= PodTTL + 2 * RequestTicks + q.age

PodsOK ==
    /\ kept \subseteq Kept /\ \A k, l \in kept : k = l
    /\ detail \in [Requests -> Detail]
    /\ \A k \in kept : EntryRecent(k) /\ \A r \in Missed : NewerThanMiss(k, detail[r])
    /\ \A r \in Requests : HasRecent(detail[r])

-----------------------------------------------------------------------------
(* Ages *)

LEMMA AgesTyped ==
    /\ PodTTL \in Nat /\ RequestTicks \in Nat /\ RequestTicks <= PodTTL
    /\ Oldest \in Nat /\ Stale = PodTTL + 1 /\ Oldest >= PodTTL + 2 * RequestTicks
    BY PodAssumed DEF PodAssumption, Oldest, Stale

LEMMA DetailTyped ==
    ASSUME NEW q \in Detail
    PROVE  /\ q.pods \in Int /\ q.resources \in Int /\ q.age \in Nat /\ q.age <= RequestTicks
           /\ q.pods \in DataAge \cup {-1} /\ q.resources \in DataAge \cup {-1}
           /\ q.pods >= -1 /\ q.resources >= -1
  <1>1. q.age \in 0..RequestTicks /\ q.pods \in DataAge \cup {-1} /\ q.resources \in DataAge \cup {-1}
    BY DEF Detail
  <1> QED
    BY <1>1, AgesTyped DEF DataAge

LEMMA KeptTyped ==
    ASSUME NEW k \in Kept
    PROVE  /\ k.age \in Nat /\ k.age <= Stale /\ k.pods \in Nat /\ k.resources \in Int
           /\ k.pods \in DataAge /\ k.resources \in DataAge \cup {-1}
  <1>1. k.age \in 0..Stale /\ k.pods \in DataAge /\ k.resources \in DataAge \cup {-1}
    BY DEF Kept
  <1> QED
    BY <1>1, AgesTyped DEF DataAge

-----------------------------------------------------------------------------
(* Steps of one request *)

\* What a request may have, in terms of the state before its step.
MayHave(data, q, r) ==
    /\ data <= q.age \/ \E k \in kept : k.age <= q.age
    /\ \A s \in Missed \cup {r} : data <= RequestTicks + detail[s].age

\* A request goes on; it misses the cache only when nothing in it is fresh.
LEMMA StepKeeps ==
    ASSUME PodsOK, NEW r \in Requests, NEW q \in Detail,
           detail' = [detail EXCEPT ![r] = q], UNCHANGED kept,
           q.pc \in {"pods", "resources", "store"} =>
               q.age = detail[r].age /\ (r \in Missed \/ Fresh = {}),
           q.pc \in {"resources", "store"} => q.pods # -1 /\ MayHave(q.pods, q, r),
           q.pc = "store" => MayHave(q.resources, q, r),
           q.pods <= PodTTL + 2 * RequestTicks + q.age,
           q.resources <= PodTTL + 2 * RequestTicks + q.age
    PROVE  PodsOK'
  <1>1. /\ detail \in [Requests -> Detail] /\ detail' \in [Requests -> Detail] /\ kept' = kept
        /\ detail'[r] = q /\ \A s \in Requests : s # r => detail'[s] = detail[s]
    BY DEF PodsOK
  <1>2. Missed' \subseteq Missed \cup {r} /\ (r \in Missed' => q.pc \in {"pods", "resources", "store"})
    BY <1>1 DEF Missed
  <1>3. \A s \in Missed' : s \in Requests /\ detail'[s].age = detail[s].age
                           /\ (s \in Missed \/ Fresh = {})
    BY <1>1, <1>2 DEF Missed
  <1>4. \A k \in kept, s \in Missed' : NewerThanMiss(k, detail'[s])
    <2> SUFFICES ASSUME NEW k \in kept, NEW s \in Missed' PROVE NewerThanMiss(k, detail'[s])
      OBVIOUS
    <2>1. CASE s \in Missed
      BY <1>3, <2>1 DEF PodsOK, NewerThanMiss
    <2>2. CASE Fresh = {}
      BY <2>2 DEF Fresh, NewerThanMiss
    <2> QED
      BY <1>3, <2>1, <2>2
  \* Nobody has missed what is still fresh, or all have fetched what they have.
  <1>5. ASSUME NEW s \in Requests, NEW data \in Int, Fetched(data, detail[s])
        PROVE  \A m \in Missed' : data <= RequestTicks + detail'[m].age
    <2> SUFFICES ASSUME NEW m \in Missed' PROVE data <= RequestTicks + detail'[m].age
      OBVIOUS
    <2>1. CASE m \in Missed
      BY <1>3, <1>5, <2>1 DEF Fetched
    <2>2. CASE Fresh = {}
      <3>1. detail[s].age \in Nat /\ detail[s].age <= RequestTicks
            /\ detail'[m].age \in Nat
        BY <1>1, <1>3, DetailTyped
      <3>2. \A k \in kept : ~(k.age <= PodTTL) /\ k.age \in Nat
        BY <2>2, KeptTyped DEF Fresh, PodsOK
      <3>3. data <= detail[s].age
        BY <1>5, <3>1, <3>2, AgesTyped DEF Fetched
      <3> QED
        BY <3>1, <3>3, AgesTyped
    <2> QED
      BY <1>3, <2>1, <2>2
  <1>6. ASSUME NEW s \in Requests PROVE HasRecent(detail[s])'
    <2>1. CASE s = r
      <3>1. /\ q.pc \in {"resources", "store"} =>
                   q.pods # -1 /\ \A m \in Missed' : q.pods <= RequestTicks + detail'[m].age
            /\ q.pc = "store" => \A m \in Missed' : q.resources <= RequestTicks + detail'[m].age
        BY <1>2, <1>3 DEF MayHave
      <3>2. /\ q.pc \in {"resources", "store"} => Fetched(q.pods, q)'
            /\ q.pc = "store" => Fetched(q.resources, q)'
        BY <1>1, <3>1 DEF MayHave, Fetched
      <3>3. HasRecent(q)'
        BY <3>1, <3>2 DEF HasRecent
      <3> QED
        BY <1>1, <2>1, <3>3
    <2>2. CASE s # r
      <3>1. PICK x \in Detail : x = detail[s] /\ HasRecent(x) /\ x.pods \in Int /\ x.resources \in Int
        BY <1>1, DetailTyped DEF PodsOK
      <3>2. /\ x.pc \in {"resources", "store"} => Fetched(x.pods, x)'
            /\ x.pc = "store" => Fetched(x.resources, x)'
        BY <1>1, <1>5, <3>1 DEF HasRecent, Fetched
      <3>3. HasRecent(x)'
        BY <3>1, <3>2 DEF HasRecent
      <3> QED
        BY <1>1, <2>2, <3>1, <3>3
    <2> QED
      BY <2>1, <2>2
  <1> QED
    BY <1>1, <1>4, <1>6 DEF PodsOK, EntryRecent, NewerThanMiss

\* What is taken from a fresh entry.
LEMMA TakenFromCache ==
    ASSUME PodsOK, NEW r \in Missed, NEW q \in Detail, q.age = detail[r].age, NEW k \in Fresh
    PROVE  /\ MayHave(k.pods, q, r) /\ MayHave(k.resources, q, r) /\ k \in Kept
           /\ k.pods <= PodTTL + 2 * RequestTicks + q.age
           /\ k.resources <= PodTTL + 2 * RequestTicks + q.age
  <1>1. k \in kept /\ k.age <= PodTTL /\ k \in Kept /\ EntryRecent(k)
        /\ \A s \in Missed : NewerThanMiss(k, detail[s])
    BY DEF Fresh, PodsOK
  <1>2. MayHave(k.pods, q, r) /\ MayHave(k.resources, q, r)
    BY <1>1 DEF NewerThanMiss, MayHave
  <1>3. k.age \in Nat /\ k.pods \in Int /\ k.resources \in Int /\ q.age \in Nat
    BY <1>1, KeptTyped, DetailTyped
  <1>4. k.pods <= PodTTL + 2 * RequestTicks + q.age /\ k.resources <= PodTTL + 2 * RequestTicks + q.age
    BY <1>1, <1>3, AgesTyped DEF EntryRecent
  <1> QED
    BY <1>1, <1>2, <1>4

\* What kubectl has just said, or not.
LEMMA JustFetched ==
    ASSUME PodsOK, NEW r \in Requests, NEW q \in Detail, q.age = detail[r].age, NEW data \in {0, -1}
    PROVE  MayHave(data, q, r) /\ data <= PodTTL + 2 * RequestTicks + q.age
  <1>1. q.age \in Nat /\ \A s \in Missed \cup {r} : detail[s].age \in Nat
    BY DetailTyped DEF PodsOK, Missed
  <1> QED
    BY <1>1, AgesTyped DEF MayHave

LEMMA RequestTyped ==
    ASSUME PodsOK, NEW r \in Requests
    PROVE  detail[r] \in Detail /\ HasRecent(detail[r])
    BY DEF PodsOK

LEMMA AskKeeps ==
    ASSUME PodsOK, NEW r \in Requests, AskDetails(r) \/ AnswerDetails(r)
    PROVE  PodsOK'
  <1>1. PICK q : (q = [NoDetail EXCEPT !.pc = "look"] \/ q = NoDetail)
                 /\ detail' = [detail EXCEPT ![r] = q] /\ UNCHANGED kept
    BY DEF AskDetails, AnswerDetails, Sets
  <1>2. q \in Detail /\ q.pc \in {"look", "idle"} /\ q.pods = -1 /\ q.resources = -1 /\ q.age = 0
    BY <1>1, AgesTyped DEF NoDetail, Detail
  <1>3. -1 <= PodTTL + 2 * RequestTicks + 0
    BY AgesTyped
  <1> QED
    BY <1>1, <1>2, <1>3, StepKeeps

LEMMA ReadRecordKeeps ==
    ASSUME PodsOK, NEW r \in Requests, NEW found \in BOOLEAN, ReadRecord(r, found)
    PROVE  PodsOK'
  <1>1. PICK record \in {"running", "other", "missing"} :
            detail' = [detail EXCEPT ![r] = [detail[r] EXCEPT !.record = record]] /\ UNCHANGED kept
    BY DEF ReadRecord, Sets
  <1>2. PICK q : q = [detail[r] EXCEPT !.record = record]
    OBVIOUS
  <1>3. /\ q \in Detail /\ q.pc = detail[r].pc /\ q.pods = detail[r].pods
        /\ q.resources = detail[r].resources /\ q.age = detail[r].age
    BY <1>2, RequestTyped DEF Detail
  <1>4. HasRecent(detail[r]) /\ (q.pc \in {"pods", "resources", "store"} => r \in Missed)
    BY <1>3, RequestTyped DEF Missed
  <1>5. /\ q.pc \in {"resources", "store"} => q.pods # -1 /\ MayHave(q.pods, q, r)
        /\ q.pc = "store" => MayHave(q.resources, q, r)
    BY <1>3, <1>4 DEF HasRecent, Fetched, MayHave
  <1> QED
    BY <1>1, <1>2, <1>3, <1>4, <1>5, StepKeeps DEF HasRecent

LEMMA LookKeeps ==
    ASSUME PodsOK, NEW r \in Requests, LookForPods(r)
    PROVE  PodsOK'
  <1>1. detail[r] \in Detail /\ HasRecent(detail[r]) /\ detail[r].pc = "look" /\ UNCHANGED kept
    BY RequestTyped DEF LookForPods
  <1>2. CASE detail[r].record # "running" \/ Fresh = {}
    <2>1. PICK pc \in {"done", "pods"} :
             /\ detail' = [detail EXCEPT ![r] = [detail[r] EXCEPT !.pc = pc]]
             /\ pc = "pods" => Fresh = {}
      BY <1>2 DEF LookForPods, Sets
    <2>2. PICK q : q = [detail[r] EXCEPT !.pc = pc]
      OBVIOUS
    <2>3. /\ q \in Detail /\ q.pc = pc /\ q.pods = detail[r].pods
          /\ q.resources = detail[r].resources /\ q.age = detail[r].age
      BY <1>1, <2>2 DEF Detail
    <2>4. q.pods <= PodTTL + 2 * RequestTicks + q.age /\ q.resources <= PodTTL + 2 * RequestTicks + q.age
      BY <1>1, <2>3 DEF HasRecent
    <2>5. /\ q.pc \in {"pods", "resources", "store"} =>
                 q.age = detail[r].age /\ (r \in Missed \/ Fresh = {})
          /\ q.pc \notin {"resources", "store"}
      BY <2>1, <2>3
    <2>6. detail' = [detail EXCEPT ![r] = q]
      BY <2>1, <2>2
    <2> QED
      BY <1>1, <2>3, <2>4, <2>5, <2>6, StepKeeps
  <1>3. CASE ~(detail[r].record # "running" \/ Fresh = {})
    <2>1. PICK k \in Fresh : Sets(r, [detail[r] EXCEPT !.pc = "done", !.pods = k.pods,
                                                      !.resources = k.resources])
      BY <1>3 DEF LookForPods
    <2>2. PICK q : q = [detail[r] EXCEPT !.pc = "done", !.pods = k.pods, !.resources = k.resources]
      OBVIOUS
    <2>3. k \in Kept /\ EntryRecent(k) /\ k.age <= PodTTL
      BY DEF Fresh, PodsOK
    <2>4. /\ k.pods \in DataAge /\ k.resources \in DataAge \cup {-1}
          /\ k.pods \in Int /\ k.resources \in Int /\ k.age \in Nat
      BY <2>3, KeptTyped
    <2>5. /\ q \in Detail /\ q.pc = "done" /\ q.pods = k.pods
          /\ q.resources = k.resources /\ q.age = detail[r].age
      BY <1>1, <2>2, <2>4 DEF Detail
    <2>6. q.age \in Nat
      BY <2>5, DetailTyped
    <2>7. q.pods <= PodTTL + 2 * RequestTicks + q.age /\ q.resources <= PodTTL + 2 * RequestTicks + q.age
      BY <2>3, <2>4, <2>5, <2>6, AgesTyped DEF EntryRecent
    <2> QED
      BY <1>1, <2>1, <2>2, <2>5, <2>7, StepKeeps DEF Sets
  <1> QED
    BY <1>2, <1>3

LEMMA GetPodsKeeps ==
    ASSUME PodsOK, NEW r \in Requests, NEW ok \in BOOLEAN, GetPods(r, ok)
    PROVE  PodsOK'
  <1>1. /\ detail[r] \in Detail /\ HasRecent(detail[r]) /\ detail[r].pc = "pods" /\ UNCHANGED kept
        /\ r \in Missed
    BY RequestTyped DEF GetPods, Missed
  <1>2. CASE Fresh # {}
    <2>1. PICK k \in Fresh : Sets(r, [detail[r] EXCEPT !.pc = "resources", !.pods = k.pods])
      BY <1>2 DEF GetPods
    <2>2. PICK q : q = [detail[r] EXCEPT !.pc = "resources", !.pods = k.pods]
      OBVIOUS
    <2>3. k.pods \in DataAge /\ k.pods \in Nat
      BY KeptTyped DEF Fresh, PodsOK
    <2>4. /\ q \in Detail /\ q.pc = "resources" /\ q.pods = k.pods
          /\ q.resources = detail[r].resources /\ q.age = detail[r].age
      BY <1>1, <2>2, <2>3 DEF Detail
    <2>5. MayHave(q.pods, q, r) /\ q.pods <= PodTTL + 2 * RequestTicks + q.age
      BY <1>1, <2>4, TakenFromCache
    <2>6. q.pods # -1
      BY <2>3, <2>4
    <2> QED
      BY <1>1, <2>1, <2>2, <2>4, <2>5, <2>6, StepKeeps DEF Sets, HasRecent
  <1>3. CASE Fresh = {}
    <2>1. PICK pc \in {"resources", "done"}, pods \in {0, -1} :
             /\ Sets(r, [detail[r] EXCEPT !.pc = pc, !.pods = pods])
             /\ pc = "resources" => pods = 0
      BY <1>3 DEF GetPods
    <2>2. PICK q : q = [detail[r] EXCEPT !.pc = pc, !.pods = pods]
      OBVIOUS
    <2>3. pods \in DataAge \cup {-1}
      BY AgesTyped DEF DataAge
    <2>4. /\ q \in Detail /\ q.pc = pc /\ q.pods = pods
          /\ q.resources = detail[r].resources /\ q.age = detail[r].age
      BY <1>1, <2>2, <2>3 DEF Detail
    <2>5. MayHave(q.pods, q, r) /\ q.pods <= PodTTL + 2 * RequestTicks + q.age
      BY <2>4, JustFetched
    <2>6. q.pc = "resources" => q.pods # -1
      BY <2>1, <2>4
    <2>7. q.resources <= PodTTL + 2 * RequestTicks + q.age
      BY <1>1, <2>4 DEF HasRecent
    <2>8. detail' = [detail EXCEPT ![r] = q] /\ q.pc \notin {"pods", "store"}
      BY <2>1, <2>2, <2>4 DEF Sets
    <2> QED
      BY <1>1, <2>4, <2>5, <2>6, <2>7, <2>8, StepKeeps
  <1> QED
    BY <1>2, <1>3

LEMMA GetResourcesKeeps ==
    ASSUME PodsOK, NEW r \in Requests, NEW ok \in BOOLEAN, GetResources(r, ok)
    PROVE  PodsOK'
  <1>1. /\ detail[r] \in Detail /\ HasRecent(detail[r]) /\ detail[r].pc = "resources" /\ UNCHANGED kept
        /\ r \in Missed
    BY RequestTyped DEF GetResources, Missed
  <1>2. PICK resources :
           /\ Sets(r, [detail[r] EXCEPT !.pc = "store", !.resources = resources])
           /\ resources \in {0, -1} \/ \E k \in Fresh : resources = k.resources
    BY DEF GetResources
  <1>3. PICK q : q = [detail[r] EXCEPT !.pc = "store", !.resources = resources]
    OBVIOUS
  <1>4. resources \in DataAge \cup {-1}
    BY <1>2, KeptTyped, AgesTyped DEF Fresh, PodsOK, DataAge
  <1>5. /\ q \in Detail /\ q.pc = "store" /\ q.pods = detail[r].pods
        /\ q.resources = resources /\ q.age = detail[r].age
    BY <1>1, <1>3, <1>4 DEF Detail
  <1>6. MayHave(q.resources, q, r) /\ q.resources <= PodTTL + 2 * RequestTicks + q.age
    <2>1. CASE resources \in {0, -1}
      BY <1>5, <2>1, JustFetched
    <2>2. CASE \E k \in Fresh : resources = k.resources
      BY <1>1, <1>5, <2>2, TakenFromCache
    <2> QED
      BY <1>2, <2>1, <2>2
  <1>7. q.pods # -1 /\ MayHave(q.pods, q, r)
    BY <1>1, <1>5 DEF HasRecent, Fetched, MayHave
  <1> QED
    BY <1>1, <1>2, <1>3, <1>5, <1>6, <1>7, StepKeeps DEF Sets, HasRecent

\* A new entry, of halves that are not older than two requests.
LEMMA StoreKeeps ==
    ASSUME PodsOK, NEW r \in Requests, StorePods(r)
    PROVE  PodsOK'
  <1>1. /\ detail[r] \in Detail /\ HasRecent(detail[r]) /\ detail[r].pc = "store" /\ r \in Missed
    BY RequestTyped DEF StorePods, Missed
  <1>2. PICK x \in Detail : x = detail[r]
    BY <1>1
  <1>3. PICK k : k = [age |-> 0, pods |-> x.pods, resources |-> x.resources]
    OBVIOUS
  <1>4. PICK q : q = [x EXCEPT !.pc = "done"]
    OBVIOUS
  <1>5. kept' = {k} /\ detail' = [detail EXCEPT ![r] = q]
    BY <1>2, <1>3, <1>4 DEF StorePods, Sets
  <1>6. /\ x.pods \in Int /\ x.resources \in Int /\ x.age \in Nat /\ x.age <= RequestTicks
        /\ x.pods \in DataAge \cup {-1} /\ x.resources \in DataAge \cup {-1}
    BY DetailTyped
  <1>7. /\ x.pods # -1
        /\ \A s \in Missed : x.pods <= RequestTicks + detail[s].age
                             /\ x.resources <= RequestTicks + detail[s].age
    BY <1>1, <1>2 DEF HasRecent, Fetched
  <1>8. k \in Kept /\ k.age = 0 /\ k.pods = x.pods /\ k.resources = x.resources
    <2>1. 0 \in 0..Stale
      BY AgesTyped
    <2> QED
      BY <1>3, <1>6, <1>7, <2>1 DEF Kept
  <1>9. EntryRecent(k)
    <2>1. x.pods <= RequestTicks + x.age /\ x.resources <= RequestTicks + x.age
      BY <1>1, <1>2, <1>7
    <2> QED
      BY <1>6, <1>8, <2>1, AgesTyped DEF EntryRecent
  <1>10. /\ q \in Detail /\ q.pc = "done" /\ q.pods = x.pods /\ q.resources = x.resources
         /\ q.age = x.age
    BY <1>4 DEF Detail
  <1>11. /\ detail \in [Requests -> Detail] /\ detail' \in [Requests -> Detail]
         /\ detail'[r] = q /\ \A s \in Requests : s # r => detail'[s] = detail[s]
    BY <1>5, <1>10 DEF PodsOK
  <1>12. Missed' \subseteq Missed \ {r}
    BY <1>10, <1>11 DEF Missed
  <1>13. \A s \in Missed' : NewerThanMiss(k, detail'[s])
    <2> SUFFICES ASSUME NEW s \in Missed' PROVE NewerThanMiss(k, detail'[s])
      OBVIOUS
    <2>1. s \in Missed /\ s # r /\ detail'[s] = detail[s] /\ detail[s].age \in Nat
      BY <1>11, <1>12, DetailTyped DEF Missed
    <2> QED
      BY <1>7, <1>8, <2>1 DEF NewerThanMiss
  <1>14. ASSUME NEW s \in Requests PROVE HasRecent(detail[s])'
    <2>1. CASE s = r
      BY <1>1, <1>2, <1>10, <1>11, <2>1 DEF HasRecent
    <2>2. CASE s # r
      <3>1. PICK y \in Detail : y = detail[s] /\ HasRecent(y) /\ y.age \in Nat
        BY <1>11, DetailTyped DEF PodsOK
      <3>2. \A m \in Missed' : m \in Missed /\ detail'[m] = detail[m]
        BY <1>11, <1>12 DEF Missed
      <3>3. \E e \in kept' : e.age <= y.age
        BY <1>5, <1>8, <3>1
      <3>4. HasRecent(y)'
        BY <3>1, <3>2, <3>3 DEF HasRecent, Fetched
      <3> QED
        BY <1>11, <2>2, <3>1, <3>4
    <2> QED
      BY <2>1, <2>2
  <1> QED
    BY <1>5, <1>8, <1>9, <1>11, <1>13, <1>14 DEF PodsOK, EntryRecent, NewerThanMiss

-----------------------------------------------------------------------------
(* Time *)

LEMMA GrownTyped ==
    ASSUME NEW data \in DataAge \cup {-1}
    PROVE  /\ Grown(data) \in DataAge \cup {-1} /\ Grown(data) <= data + 1 /\ Grown(data) \in Int
           /\ data # -1 => Grown(data) \in DataAge /\ Grown(data) # -1
    BY AgesTyped DEF Grown, DataAge

\* Requests, entries and what they have get older by as much.
LEMMA TickKeeps ==
    ASSUME PodsOK, PodTick
    PROVE  PodsOK'
  <1> DEFINE later(q) == IF q.pc = "idle" THEN q
                         ELSE [q EXCEPT !.age = @ + 1, !.pods = Grown(@), !.resources = Grown(@)]
             older(k) == [age |-> IF k.age < Stale THEN k.age + 1 ELSE Stale,
                          pods |-> Grown(k.pods), resources |-> Grown(k.resources)]
  <1>1. /\ detail' = [r \in Requests |-> later(detail[r])]
        /\ kept' = {older(k) : k \in kept}
        /\ \A r \in Requests : detail[r].pc # "idle" => detail[r].age < RequestTicks
    BY DEF PodTick
  <1>2. ASSUME NEW q \in Detail, q.pc # "idle", q.age < RequestTicks
        PROVE  /\ later(q) \in Detail /\ later(q).pc = q.pc /\ later(q).age = q.age + 1
               /\ later(q).pods = Grown(q.pods) /\ later(q).resources = Grown(q.resources)
    <2>1. PICK pods \in DataAge \cup {-1}, resources \in DataAge \cup {-1} :
             pods = Grown(q.pods) /\ resources = Grown(q.resources)
      BY DetailTyped, GrownTyped
    <2>2. PICK age \in 0..RequestTicks : age = q.age + 1
      BY <1>2, DetailTyped, AgesTyped
    <2>3. later(q) = [q EXCEPT !.age = age, !.pods = pods, !.resources = resources]
      BY <1>2, <2>1, <2>2
    <2> HIDE DEF later
    <2> QED
      BY <2>1, <2>2, <2>3 DEF Detail
  <1>3. ASSUME NEW k \in Kept
        PROVE  /\ older(k) \in Kept
               /\ older(k).age <= PodTTL => k.age <= PodTTL /\ older(k).age = k.age + 1
               /\ k.age <= PodTTL => older(k).age = k.age + 1
               /\ older(k).pods <= k.pods + 1 /\ older(k).resources <= k.resources + 1
               /\ older(k).pods \in Int /\ older(k).resources \in Int
    <2>1. PICK pods \in DataAge, resources \in DataAge \cup {-1} :
             pods = Grown(k.pods) /\ resources = Grown(k.resources)
      BY KeptTyped, GrownTyped
    <2>2. pods <= k.pods + 1 /\ resources <= k.resources + 1 /\ pods \in Int /\ resources \in Int
      BY <2>1, KeptTyped, GrownTyped
    <2>3. PICK age \in 0..Stale : age = IF k.age < Stale THEN k.age + 1 ELSE Stale
      BY KeptTyped, AgesTyped
    <2>4. older(k) = [age |-> age, pods |-> pods, resources |-> resources]
      BY <2>1, <2>3
    <2>5. /\ age <= PodTTL => k.age <= PodTTL /\ age = k.age + 1
          /\ k.age <= PodTTL => age = k.age + 1
      BY <2>3, KeptTyped, AgesTyped
    <2> HIDE DEF older
    <2> QED
      BY <2>2, <2>4, <2>5 DEF Kept
  <1> HIDE DEF later, older
  <1>4. /\ kept \subseteq Kept /\ detail \in [Requests -> Detail]
        /\ \A k, l \in kept : k = l
    BY DEF PodsOK
  <1>5. ASSUME NEW r \in Requests
        PROVE  IF detail[r].pc = "idle" THEN detail'[r] = detail[r]
               ELSE /\ detail'[r] \in Detail /\ detail'[r].pc = detail[r].pc
                    /\ detail'[r].age = detail[r].age + 1
                    /\ detail'[r].pods = Grown(detail[r].pods)
                    /\ detail'[r].resources = Grown(detail[r].resources)
    <2>1. CASE detail[r].pc = "idle"
      BY <1>1, <2>1 DEF later
    <2>2. CASE detail[r].pc # "idle"
      BY <1>1, <1>2, <1>4, <2>2
    <2> QED
      BY <2>1, <2>2
  <1>6. /\ detail' \in [Requests -> Detail] /\ Missed' = Missed
        /\ \A r \in Missed : r \in Requests /\ detail[r].pc # "idle"
                             /\ detail'[r].age = detail[r].age + 1 /\ detail[r].age \in Nat
    <2>1. \A r \in Requests : detail'[r] \in Detail /\ detail'[r].pc = detail[r].pc
      BY <1>4, <1>5
    <2>2. detail' \in [Requests -> Detail]
      BY <1>1, <2>1
    <2>3. Missed' = Missed
      BY <2>1 DEF Missed
    <2>4. \A r \in Missed : r \in Requests /\ detail[r].pc # "idle" /\ detail[r].age \in Nat
      BY <1>4, DetailTyped DEF Missed
    <2> QED
      BY <1>5, <2>2, <2>3, <2>4
  <1>7. kept' \subseteq Kept /\ \A k, l \in kept' : k = l
    BY <1>1, <1>3, <1>4
  <1>8. ASSUME NEW e \in kept'
        PROVE  EntryRecent(e) /\ \A r \in Missed : NewerThanMiss(e, detail'[r])
    <2>1. PICK k \in kept : e = older(k)
      BY <1>1
    <2>2. /\ k \in Kept /\ EntryRecent(k) /\ k.age \in Nat /\ k.pods \in Int /\ k.resources \in Int
          /\ \A r \in Missed : NewerThanMiss(k, detail[r])
      BY <1>4, KeptTyped DEF PodsOK
    <2>3. /\ e.age <= PodTTL => k.age <= PodTTL /\ e.age = k.age + 1
          /\ e.pods <= k.pods + 1 /\ e.resources <= k.resources + 1
          /\ e.pods \in Int /\ e.resources \in Int
      BY <1>3, <2>1, <2>2
    <2>4. EntryRecent(e)
      BY <2>2, <2>3, AgesTyped DEF EntryRecent
    <2>5. ASSUME NEW r \in Missed PROVE NewerThanMiss(e, detail'[r])
      <3>1. detail'[r].age = detail[r].age + 1 /\ detail[r].age \in Nat /\ NewerThanMiss(k, detail[r])
        BY <1>6, <2>2
      <3> QED
        BY <2>2, <2>3, <3>1, AgesTyped DEF NewerThanMiss
    <2> QED
      BY <2>4, <2>5
  <1>9. ASSUME NEW r \in Requests, detail[r].pc # "idle",
               NEW data \in DataAge \cup {-1}, Fetched(data, detail[r])
        PROVE  Fetched(Grown(data), detail[r])'
    <2>1. /\ Grown(data) \in Int /\ Grown(data) <= data + 1 /\ data \in Int
          /\ detail'[r].age = detail[r].age + 1 /\ detail[r].age \in Nat
          /\ detail[r].age <= RequestTicks
      <3>1. data \in Int
        BY DEF DataAge
      <3> QED
        BY <1>4, <1>5, <1>9, <3>1, DetailTyped, GrownTyped
    <2>2. \A m \in Missed' : Grown(data) <= RequestTicks + detail'[m].age
      BY <1>6, <1>9, <2>1, AgesTyped DEF Fetched
    <2>3. CASE data <= detail[r].age
      <3>1. Grown(data) <= detail'[r].age
        BY <2>1, <2>3
      <3> QED
        BY <2>2, <3>1 DEF Fetched, Grown
    <2>4. CASE \E k \in kept : k.age <= detail[r].age
      <3>1. PICK k \in kept : k.age <= detail[r].age
        BY <2>4
      <3>2. k \in Kept /\ k.age \in Nat /\ k.age <= PodTTL
        BY <1>4, <2>1, <3>1, KeptTyped, AgesTyped
      <3>3. older(k) \in kept' /\ older(k).age <= detail'[r].age
        BY <1>1, <1>3, <2>1, <3>1, <3>2
      <3> QED
        BY <2>2, <3>3 DEF Fetched, Grown
    <2> QED
      BY <1>9, <2>3, <2>4 DEF Fetched
  <1>10. ASSUME NEW r \in Requests PROVE HasRecent(detail[r])'
    <2>1. PICK q \in Detail : q = detail[r] /\ HasRecent(q)
      BY <1>4 DEF PodsOK
    <2>2. CASE q.pc = "idle"
      BY <1>5, <2>1, <2>2 DEF HasRecent
    <2>3. CASE q.pc # "idle"
      <3>1. /\ detail'[r].pc = q.pc /\ detail'[r].age = q.age + 1
            /\ detail'[r].pods = Grown(q.pods) /\ detail'[r].resources = Grown(q.resources)
        BY <1>5, <2>1, <2>3
      <3>2. /\ q.pods \in DataAge \cup {-1} /\ q.resources \in DataAge \cup {-1}
            /\ q.pods \in Int /\ q.resources \in Int /\ q.age \in Nat
            /\ Grown(q.pods) <= q.pods + 1 /\ Grown(q.resources) <= q.resources + 1
            /\ Grown(q.pods) \in Int /\ Grown(q.resources) \in Int
            /\ (q.pods # -1 => Grown(q.pods) # -1)
        BY DetailTyped, GrownTyped
      <3>3. /\ q.pc \in {"resources", "store"} => Fetched(Grown(q.pods), detail[r])'
            /\ q.pc = "store" => Fetched(Grown(q.resources), detail[r])'
        BY <1>9, <2>1, <2>3, <3>2 DEF HasRecent
      <3>4. /\ Grown(q.pods) <= PodTTL + 2 * RequestTicks + (q.age + 1)
            /\ Grown(q.resources) <= PodTTL + 2 * RequestTicks + (q.age + 1)
        BY <2>1, <3>2, AgesTyped DEF HasRecent
      <3>5. /\ q.pc \in {"resources", "store"} => Grown(q.pods) # -1
        BY <2>1, <3>2 DEF HasRecent
      <3>6. /\ q.pc \in {"resources", "store"} => Fetched(detail[r].pods, detail[r])'
            /\ q.pc = "store" => Fetched(detail[r].resources, detail[r])'
        BY <3>1, <3>3 DEF Fetched, Grown
      <3> QED
        BY <3>1, <3>4, <3>5, <3>6 DEF HasRecent
    <2> QED
      BY <2>2, <2>3
  <1> QED
    BY <1>6, <1>7, <1>8, <1>10 DEF PodsOK, EntryRecent, NewerThanMiss

-----------------------------------------------------------------------------
LEMMA NextKeeps ==
    ASSUME PodsOK, [Next]_vars
    PROVE  PodsOK'
  <1>1. CASE UNCHANGED <<kept, detail>>
    BY <1>1 DEF PodsOK, EntryRecent, NewerThanMiss, HasRecent, Fetched, Missed
  <1>2. CASE UNCHANGED podVars
    BY <1>1, <1>2 DEF podVars
  <1>3. CASE Builds \/ \E v \in Viewers : FollowsBuild(v) \/ OpensBuildLog(v)
    BY <1>2, <1>3 DEF Builds, FollowsBuild, OpensBuildLog, OnBuildLog
  <1>4. CASE Container \/ Connection \/ FollowsApp
    BY <1>2, <1>4 DEF Container, Connection, FollowsApp, OnAppLog
  <1>5. ASSUME NEW r \in Requests, Details(r) PROVE PodsOK'
    <2>1. CASE AskDetails(r) \/ LookForPods(r) \/ StorePods(r) \/ AnswerDetails(r)
      BY <2>1, AskKeeps, LookKeeps, StoreKeeps
    <2>2. ASSUME NEW ok \in BOOLEAN, ReadRecord(r, ok) \/ GetPods(r, ok) \/ GetResources(r, ok)
          PROVE  PodsOK'
      BY <2>2, ReadRecordKeeps, GetPodsKeeps, GetResourcesKeeps
    <2> QED
      BY <1>5, <2>1, <2>2 DEF Details
  <1>6. CASE Moments
    BY <1>1, <1>6, TickKeeps DEF Moments, Turns
  <1>7. CASE UNCHANGED vars
    BY <1>2, <1>7 DEF vars
  <1> QED
    BY <1>3, <1>4, <1>5, <1>6, <1>7 DEF Next

LEMMA InitPods == Init => PodsOK
  <1> SUFFICES ASSUME Init PROVE PodsOK
    OBVIOUS
  <1>1. kept = {} /\ detail = [r \in Requests |-> NoDetail]
    BY DEF Init, PodInit
  <1>2. NoDetail \in Detail /\ NoDetail.pc = "idle" /\ NoDetail.pods = -1 /\ NoDetail.resources = -1
        /\ NoDetail.age = 0
    BY AgesTyped DEF NoDetail, Detail
  <1>3. HasRecent(NoDetail)
    BY <1>2, AgesTyped DEF HasRecent
  <1> QED
    BY <1>1, <1>2, <1>3 DEF PodsOK

(***************************************************************************)
(* The details that GetDeploymentDetails answers with show pods and        *)
(* resources as they were at most one lifetime of the cache and three      *)
(* requests ago, with any number of requests between getFromCache and      *)
(* setCache: a request that stores what it took from an entry with a new   *)
(* timestamp does not keep the data alive.                                 *)
(***************************************************************************)
THEOREM PodsAreRecent == Spec => []PodsRecent
  <1>1. PodsOK /\ [Next]_vars => PodsOK'
    BY NextKeeps
  <1>2. PodsOK => PodsRecent
    BY DEF PodsOK, HasRecent, PodsRecent
  <1> QED
    BY <1>1, <1>2, InitPods, PTL DEF Spec

-----------------------------------------------------------------------------
(* The inductive invariant of the build log, chunk by chunk *)

Chunks == [kind : Kinds, n : Nat]

Begins(text, log) == Len(text) <= Len(log) /\ \A j \in 1..Len(text) : text[j] = log[j]

\* The first n chunks of the live log, then the final log's.
Spliced(text, n) ==
    /\ Len(text) = IF Len(row.log) > n THEN Len(row.log) ELSE n
    /\ \A j \in 1..Len(text) : text[j] = IF j <= n THEN live[j] ELSE row.log[j]

ViewerOK(x) ==
    \/ x.pc # "complete" /\ x.offset = Len(x.text) /\ Begins(x.text, live)
    \/ /\ x.pc = "complete" /\ isTerminalBuildStatus(row.status)
       /\ \E n \in 0..Len(live) : Spliced(x.text, n)

\* Until the build is over the row's log is the beginning of the live log.
BuildOK ==
    /\ row \in BuildRow /\ live \in Logs /\ driver \in Logs
    /\ viewer \in [Viewers -> Viewer]
    /\ worker = "idle" => live = <<>>
    /\ IF isTerminalBuildStatus(row.status) THEN worker = "over" ELSE Begins(row.log, live)
    /\ \A v \in Viewers : ViewerOK(viewer[v])

-----------------------------------------------------------------------------
(* What a stream sends *)

\* What is behind the first n elements.
LEMMA RestOf ==
    ASSUME NEW S, NEW s \in Seq(S), NEW n \in Nat, n < Len(s)
    PROVE  /\ SubSeq(s, n + 1, Len(s)) \in Seq(S) /\ Len(SubSeq(s, n + 1, Len(s))) = Len(s) - n
           /\ \A j \in 1..(Len(s) - n) : SubSeq(s, n + 1, Len(s))[j] = s[n + j]
    OBVIOUS

LEMMA SentTyped ==
    ASSUME row \in BuildRow, NEW x \in Viewer, x.offset = Len(x.text)
    PROVE  /\ Sent(x) \in Viewer /\ Sent(x).pc = x.pc /\ Sent(x).offset = Len(Sent(x).text)
           /\ Len(Sent(x).text) = IF Len(row.log) > x.offset THEN Len(row.log) ELSE x.offset
           /\ \A j \in 1..Len(Sent(x).text) :
                 Sent(x).text[j] = IF j <= x.offset THEN x.text[j] ELSE row.log[j]
  <1>1. /\ row.log \in Seq(Chunks) /\ x.text \in Seq(Chunks) /\ x.offset \in Nat
        /\ Len(row.log) \in Nat /\ Len(x.text) \in Nat
    BY DEF BuildRow, Viewer, Logs, Chunks
  <1>2. CASE ~(Len(row.log) > x.offset)
    BY <1>1, <1>2 DEF Sent
  <1>3. CASE Len(row.log) > x.offset
    <2> DEFINE m == Len(row.log)
               rest == SubSeq(row.log, x.offset + 1, m)
               text == x.text \o rest
    <2>1. /\ rest \in Seq(Chunks) /\ Len(rest) = m - x.offset
          /\ \A j \in 1..(m - x.offset) : rest[j] = row.log[x.offset + j]
      BY <1>1, <1>3, RestOf
    <2> HIDE DEF rest
    <2>2. /\ text \in Seq(Chunks) /\ Len(text) = Len(x.text) + Len(rest)
          /\ \A j \in 1..(Len(x.text) + Len(rest)) :
                text[j] = IF j <= Len(x.text) THEN x.text[j] ELSE rest[j - Len(x.text)]
      BY <1>1, <2>1, ConcatProperties
    <2>3. Len(text) = m /\ \A j \in 1..m : text[j] = IF j <= x.offset THEN x.text[j] ELSE row.log[j]
      <3>1. Len(x.text) + Len(rest) = m
        BY <1>1, <2>1
      <3>2. ASSUME NEW j \in 1..m, ~(j <= x.offset) PROVE rest[j - Len(x.text)] = row.log[j]
        <4>1. j - x.offset \in 1..(m - x.offset) /\ x.offset + (j - x.offset) = j
          BY <1>1, <3>2
        <4> QED
          BY <2>1, <4>1
      <3> QED
        BY <2>2, <3>1, <3>2
    <2>4. Sent(x) = [x EXCEPT !.text = text, !.offset = m]
      BY <1>3 DEF Sent, After, rest
    <2> HIDE DEF text
    <2>5. Sent(x).text = text /\ Sent(x).offset = m /\ Sent(x).pc = x.pc /\ Sent(x) \in Viewer
      BY <1>1, <2>2, <2>4 DEF Viewer, Logs, Chunks
    <2> QED
      BY <1>3, <2>3, <2>5
  <1> QED
    BY <1>2, <1>3

LEMMA DeltaKeeps ==
    ASSUME BuildOK, NEW v \in Viewers, viewer[v].pc \in {"away", "open"}, Delta(v),
           UNCHANGED <<row, live, driver, worker>>
    PROVE  BuildOK'
  <1>1. PICK x \in Viewer : x = viewer[v] /\ ViewerOK(x) /\ x.pc # "complete"
    BY DEF BuildOK
  <1>2. x.offset = Len(x.text) /\ Begins(x.text, live) /\ row \in BuildRow
    BY <1>1 DEF ViewerOK, BuildOK
  <1>3. PICK y : y = Sent(x)
    OBVIOUS
  <1>4. /\ y \in Viewer /\ y.offset = Len(y.text)
        /\ Len(y.text) = IF Len(row.log) > x.offset THEN Len(row.log) ELSE x.offset
        /\ \A j \in 1..Len(y.text) : y.text[j] = IF j <= x.offset THEN x.text[j] ELSE row.log[j]
    BY <1>2, <1>3, SentTyped
  <1>5. PICK pc \in {"complete", "open"} :
           pc = IF isTerminalBuildStatus(row.status) THEN "complete" ELSE "open"
    OBVIOUS
  <1>6. PICK z : z = [y EXCEPT !.pc = pc]
    OBVIOUS
  <1>7. z \in Viewer /\ z.pc = pc /\ z.text = y.text /\ z.offset = y.offset
    BY <1>4, <1>6 DEF Viewer
  <1>8. viewer' = [viewer EXCEPT ![v] = z]
    BY <1>1, <1>3, <1>5, <1>6 DEF Delta, BuildOK
  <1>9. /\ Len(x.text) \in Nat /\ Len(live) \in Nat /\ Len(row.log) \in Nat /\ Len(y.text) \in Nat
        /\ x.offset \in 0..Len(live)
    BY <1>2, <1>4 DEF BuildOK, BuildRow, Viewer, Logs, Begins
  <1>10. ViewerOK(z)
    <2>1. CASE isTerminalBuildStatus(row.status)
      <3>1. Spliced(y.text, x.offset)
        BY <1>2, <1>4, <1>9 DEF Spliced, Begins
      <3> QED
        BY <1>5, <1>7, <1>9, <2>1, <3>1 DEF ViewerOK
    <2>2. CASE ~isTerminalBuildStatus(row.status)
      <3>1. Begins(row.log, live)
        BY <2>2 DEF BuildOK
      <3>2. Begins(y.text, live)
        BY <1>2, <1>4, <1>9, <3>1 DEF Begins
      <3> QED
        BY <1>4, <1>5, <1>7, <2>2, <3>2 DEF ViewerOK
    <2> QED
      BY <2>1, <2>2
  <1>11. /\ viewer' \in [Viewers -> Viewer]
         /\ \A w \in Viewers : ViewerOK(viewer'[w])
    BY <1>7, <1>8, <1>10 DEF BuildOK
  <1> QED
    BY <1>11 DEF BuildOK, ViewerOK, Spliced, Begins, isTerminalBuildStatus

LEMMA PollKeeps ==
    ASSUME BuildOK, NEW v \in Viewers, NEW found \in BOOLEAN,
           PollBuildLog(v, found) \/ OpenBuildLog(v)
    PROVE  BuildOK'
  <1>1. CASE Delta(v)
    BY <1>1, DeltaKeeps DEF PollBuildLog, OpenBuildLog
  <1>2. CASE viewer' = [viewer EXCEPT ![v].pc = "error"] /\ PollBuildLog(v, found)
    <2>1. PICK x \in Viewer : x = viewer[v] /\ ViewerOK(x) /\ x.pc = "open"
      BY <1>2 DEF BuildOK, PollBuildLog
    <2>2. PICK z : z = [x EXCEPT !.pc = "error"]
      OBVIOUS
    <2>3. z \in Viewer /\ z.pc = "error" /\ z.text = x.text /\ z.offset = x.offset
      BY <2>2 DEF Viewer
    <2>4. viewer' = [viewer EXCEPT ![v] = z]
      BY <1>2, <2>1, <2>2 DEF BuildOK
    <2>5. /\ viewer' \in [Viewers -> Viewer]
          /\ \A w \in Viewers : ViewerOK(viewer'[w])
      BY <2>1, <2>3, <2>4 DEF BuildOK, ViewerOK
    <2> QED
      BY <1>2, <2>5 DEF PollBuildLog, BuildOK, ViewerOK, Spliced, Begins, isTerminalBuildStatus
  <1> QED
    BY <1>1, <1>2 DEF PollBuildLog, OpenBuildLog

-----------------------------------------------------------------------------
(* The worker *)

\* While it builds, the live log grows, and no stream is complete.
LEMMA WorkKeeps ==
    ASSUME BuildOK, worker # "over", worker' # "idle", UNCHANGED viewer,
           live' \in Logs, Begins(live, live'), driver' \in Logs, row' \in BuildRow,
           \/ row' = row
           \/ IF isTerminalBuildStatus(row'.status) THEN worker' = "over" ELSE Begins(row'.log, live')
    PROVE  BuildOK'
  <1>1. ~isTerminalBuildStatus(row.status) /\ Begins(row.log, live)
    BY DEF BuildOK
  <1>2. /\ Len(live) \in Nat /\ Len(live') \in Nat /\ Len(live) <= Len(live')
        /\ \A j \in 1..Len(live) : live[j] = live'[j]
    BY DEF BuildOK, Logs, Begins
  <1>3. ASSUME NEW text \in Logs, Begins(text, live) PROVE Begins(text, live')
    <2>1. Len(text) \in Nat
      BY DEF Logs
    <2> QED
      BY <1>2, <1>3, <2>1 DEF Begins
  <1>4. IF isTerminalBuildStatus(row'.status) THEN worker' = "over" ELSE Begins(row'.log, live')
    BY <1>1, <1>3 DEF BuildOK, BuildRow
  <1>5. ASSUME NEW v \in Viewers PROVE ViewerOK(viewer[v])'
    <2>1. PICK x \in Viewer : x = viewer[v] /\ ViewerOK(x)
      BY DEF BuildOK
    <2>2. x.pc # "complete" /\ x.offset = Len(x.text) /\ Begins(x.text, live)
      BY <1>1, <2>1 DEF ViewerOK
    <2>3. Begins(x.text, live')
      BY <1>3, <2>2 DEF Viewer
    <2> QED
      BY <2>1, <2>2, <2>3 DEF ViewerOK, Begins
  <1>6. (IF isTerminalBuildStatus(row.status) THEN worker = "over" ELSE Begins(row.log, live))'
    BY <1>4 DEF isTerminalBuildStatus, Begins
  <1>7. row' \in BuildRow /\ live' \in Logs /\ driver' \in Logs /\ viewer' \in [Viewers -> Viewer]
    BY DEF BuildOK
  <1> QED
    BY <1>5, <1>6, <1>7 DEF BuildOK

LEMMA PersistTyped ==
    ASSUME BuildOK, NEW status \in {"deploying", "running", "failed"}, NEW log \in Logs,
           NEW stored \in BOOLEAN, Persist(status, log, stored)
    PROVE  /\ row' \in BuildRow
           /\ row' = row \/ (row'.status = status /\ row'.log = log)
  <1>1. CASE stored
    BY <1>1 DEF Persist, BuildRow
  <1>2. CASE ~stored
    BY <1>2 DEF Persist, BuildOK
  <1> QED
    BY <1>1, <1>2

LEMMA BeginsItself ==
    ASSUME NEW log \in Logs
    PROVE  Begins(log, log)
    BY DEF Begins, Logs

LEMMA BuildsKeep ==
    ASSUME BuildOK, Builds
    PROVE  BuildOK'
  <1>1. ASSUME NEW stored \in BOOLEAN, StartBuild(stored) PROVE BuildOK'
    <2>1. live = <<>> /\ worker = "idle" /\ worker' = "building" /\ UNCHANGED <<driver, viewer>>
          /\ Persist("deploying", live', stored)
      BY <1>1 DEF StartBuild, BuildOK
    <2>2. live' \in Logs
      BY <1>1 DEF StartBuild, Logs, Chunk, Kinds
    <2>3. Begins(live, live') /\ Begins(live', live')
      BY <2>1, <2>2, BeginsItself DEF Begins, Logs
    <2>4. row' \in BuildRow /\ (row' = row \/ (row'.status = "deploying" /\ row'.log = live'))
      BY <2>1, <2>2, PersistTyped
    <2> QED
      BY <2>1, <2>2, <2>3, <2>4, WorkKeeps DEF BuildOK, isTerminalBuildStatus
  <1>2. ASSUME NEW stored \in BOOLEAN, NEW kind \in {"section", "stream"}, NEW due \in BOOLEAN,
               Emit(kind, due, stored)
        PROVE  BuildOK'
    <2>1. PICK c : c = Chunk(kind, Len(live))
      OBVIOUS
    <2>2. live \in Seq(Chunks) /\ driver \in Seq(Chunks) /\ c \in Chunks
      BY <2>1 DEF BuildOK, Logs, Chunks, Chunk, Kinds
    <2>3. /\ live' = Append(live, c) /\ driver' \in {driver, Append(driver, c)}
          /\ worker = "building" /\ worker' = "building" /\ UNCHANGED viewer
          /\ row' = row \/ Persist("deploying", live', stored)
      BY <1>2, <2>1 DEF Emit
    <2>4. live' \in Logs /\ driver' \in Logs
      <3>1. Append(live, c) \in Seq(Chunks) /\ Append(driver, c) \in Seq(Chunks)
        BY <2>2, AppendProperties
      <3>2. live' \in Seq(Chunks) /\ driver' \in Seq(Chunks)
        BY <2>2, <2>3, <3>1
      <3> QED
        BY <3>2 DEF Logs, Chunks
    <2>5. Begins(live, live') /\ Begins(live', live')
      <3>1. Len(live') = Len(live) + 1 /\ \A j \in 1..Len(live) : live'[j] = live[j]
        BY <2>2, <2>3, AppendProperties
      <3>2. Len(live) \in Nat
        BY <2>2
      <3> QED
        BY <2>4, <3>1, <3>2, BeginsItself DEF Begins
    <2>6. row' \in BuildRow /\ (row' = row \/ (row'.status = "deploying" /\ row'.log = live'))
      BY <2>3, <2>4, PersistTyped DEF BuildOK
    <2> QED
      BY <2>3, <2>4, <2>5, <2>6, WorkKeeps DEF isTerminalBuildStatus
  <1>3. ASSUME NEW stored \in BOOLEAN, Flush(stored) PROVE BuildOK'
    <2>1. /\ worker = "building" /\ worker' = "built" /\ UNCHANGED <<live, driver, viewer>>
          /\ live \in Logs /\ driver \in Logs /\ Persist("deploying", live, stored)
      BY <1>3 DEF Flush, BuildOK
    <2>2. row' \in BuildRow /\ (row' = row \/ (row'.status = "deploying" /\ row'.log = live))
      BY <2>1, PersistTyped
    <2> QED
      BY <2>1, <2>2, BeginsItself, WorkKeeps DEF isTerminalBuildStatus
  <1>4. ASSUME NEW stored \in BOOLEAN, NEW ok \in BOOLEAN, NEW scaling \in BOOLEAN,
               SettleBuild(ok, scaling, stored)
        PROVE  BuildOK'
    <2>1. /\ worker = "built" /\ worker' = "over" /\ UNCHANGED <<live, viewer>>
          /\ live \in Logs /\ driver \in Logs
      BY <1>4 DEF SettleBuild, BuildOK
    <2>2. Chunk("scaling", 0) \in Chunks
      BY DEF Chunk, Chunks, Kinds
    <2>3. driver' \in Logs
      <3>1. driver \in Seq(Chunks)
        BY <2>1 DEF Logs, Chunks
      <3>2. Append(driver, Chunk("scaling", 0)) \in Seq(Chunks)
        BY <2>2, <3>1, AppendProperties
      <3>3. driver' \in Seq(Chunks)
        BY <1>4, <3>1, <3>2 DEF SettleBuild
      <3> QED
        BY <3>3 DEF Logs, Chunks
    <2>4. row' \in BuildRow
      <3>1. PICK status \in {"running", "failed"} : Persist(status, driver', stored)
        BY <1>4 DEF SettleBuild
      <3> QED
        BY <2>3, <3>1, PersistTyped
    <2>5. row' = row \/ isTerminalBuildStatus(row'.status)
      BY <1>4 DEF SettleBuild, Persist, isTerminalBuildStatus
    <2> QED
      BY <2>1, <2>3, <2>4, <2>5, BeginsItself, WorkKeeps
  <1> QED
    BY <1>1, <1>2, <1>3, <1>4 DEF Builds

LEMMA BuildNextKeeps ==
    ASSUME BuildOK, [Next]_vars
    PROVE  BuildOK'
  <1>1. CASE UNCHANGED buildVars
    BY <1>1 DEF buildVars, BuildOK, ViewerOK, Spliced, Begins, isTerminalBuildStatus
  <1>2. CASE Builds
    BY <1>2, BuildsKeep
  <1>3. CASE \E v \in Viewers : FollowsBuild(v) \/ OpensBuildLog(v)
    BY <1>3, PollKeeps DEF FollowsBuild, OpensBuildLog
  <1>4. CASE Container \/ Connection \/ FollowsApp
    BY <1>1, <1>4 DEF Container, Connection, FollowsApp, OnAppLog
  <1>5. CASE (\E r \in Requests : Details(r)) \/ Moments
    BY <1>1, <1>5 DEF Details, Moments, OnDetails
  <1>6. CASE UNCHANGED vars
    BY <1>1, <1>6 DEF vars
  <1> QED
    BY <1>2, <1>3, <1>4, <1>5, <1>6 DEF Next

LEMMA InitBuild == Init => BuildOK
  <1> SUFFICES ASSUME Init PROVE BuildOK
    OBVIOUS
  <1>1. <<>> \in Logs /\ Len(<<>>) = 0 /\ 0 \in Nat
    BY DEF Logs
  <1>2. Begins(<<>>, <<>>)
    BY DEF Begins
  <1> QED
    BY <1>1, <1>2 DEF Init, BuildInit, BuildOK, BuildRow, Viewer, ViewerOK, isTerminalBuildStatus

-----------------------------------------------------------------------------
(* What a viewer has, as a sequence *)

\* The first n elements, and what is behind them, also when there is nothing.
LEMMA PartsOf ==
    ASSUME NEW S, NEW s \in Seq(S), NEW n \in Nat
    PROVE  /\ n <= Len(s) => /\ SubSeq(s, 1, n) \in Seq(S) /\ Len(SubSeq(s, 1, n)) = n
                             /\ \A j \in 1..n : SubSeq(s, 1, n)[j] = s[j]
           /\ After(s, n) \in Seq(S)
           /\ Len(After(s, n)) = IF n < Len(s) THEN Len(s) - n ELSE 0
           /\ \A j \in 1..Len(After(s, n)) : After(s, n)[j] = s[n + j]
  <1>1. n <= Len(s) => /\ SubSeq(s, 1, n) \in Seq(S) /\ Len(SubSeq(s, 1, n)) = n
                       /\ \A j \in 1..n : SubSeq(s, 1, n)[j] = s[j]
    OBVIOUS
  <1>2. CASE n < Len(s)
    BY <1>1, <1>2, RestOf DEF After
  <1>3. CASE ~(n < Len(s))
    <2>1. After(s, n) = <<>>
      <3>1. n + 1 \in Int /\ Len(s) \in Int /\ Len(s) < n + 1
        BY <1>3
      <3> QED
        BY <3>1, SubSeqEmpty DEF After
    <2>2. After(s, n) \in Seq(S) /\ Len(After(s, n)) = 0
      BY <2>1
    <2> QED
      BY <1>1, <1>3, <2>2
  <1> QED
    BY <1>2, <1>3

LEMMA PrefixOf ==
    ASSUME NEW S, NEW s \in Seq(S), NEW t \in Seq(S), Begins(s, t)
    PROVE  IsPrefix(s, t)
  <1>1. Len(s) \in Nat /\ Len(s) <= Len(t) /\ \A j \in 1..Len(s) : s[j] = t[j]
    BY DEF Begins
  <1>2. SubSeq(s, 1, Len(s)) = SubSeq(t, 1, Len(s))
    <2> DEFINE a == SubSeq(s, 1, Len(s))
               b == SubSeq(t, 1, Len(s))
    <2>1. /\ a \in Seq(S) /\ Len(a) = Len(s) /\ \A j \in 1..Len(s) : a[j] = s[j]
          /\ b \in Seq(S) /\ Len(b) = Len(s) /\ \A j \in 1..Len(s) : b[j] = t[j]
      BY <1>1, PartsOf
    <2> HIDE DEF a, b
    <2>2. Len(a) = Len(b) /\ \A j \in 1..Len(a) : a[j] = b[j]
      BY <1>1, <2>1
    <2>3. a = b
      BY <2>1, <2>2, SeqEqual
    <2> QED
      BY <2>3 DEF a, b
  <1> QED
    BY <1>1, <1>2 DEF IsPrefix

LEMMA SuffixOf ==
    ASSUME NEW S, NEW s \in Seq(S), NEW t \in Seq(S), Len(s) <= Len(t),
           \A j \in 1..Len(s) : s[j] = t[Len(t) - Len(s) + j]
    PROVE  IsSuffix(s, t)
  <1> DEFINE a == Reverse(s)
             b == Reverse(t)
  <1>1. Len(s) \in Nat /\ Len(t) \in Nat
    OBVIOUS
  <1>2. /\ a \in Seq(S) /\ Len(a) = Len(s) /\ \A j \in 1..Len(s) : a[j] = s[Len(s) - j + 1]
        /\ b \in Seq(S) /\ Len(b) = Len(t) /\ \A j \in 1..Len(t) : b[j] = t[Len(t) - j + 1]
    <2>1. /\ \A j \in 1..Len(s) : Len(s) - j + 1 \in 1..Len(s)
          /\ \A j \in 1..Len(t) : Len(t) - j + 1 \in 1..Len(t)
      BY <1>1
    <2> QED
      BY <1>1, <2>1 DEF Reverse
  <1> HIDE DEF a, b
  <1>3. ASSUME NEW j \in 1..Len(s) PROVE a[j] = b[j]
    <2>1. /\ Len(s) - j + 1 \in 1..Len(s) /\ j \in 1..Len(t)
          /\ Len(t) - Len(s) + (Len(s) - j + 1) = Len(t) - j + 1
      BY <1>1
    <2> QED
      BY <1>2, <2>1
  <1>4. Begins(a, b)
    BY <1>2, <1>3 DEF Begins
  <1>5. IsPrefix(a, b)
    BY <1>2, <1>4, PrefixOf
  <1> QED
    BY <1>5 DEF IsSuffix, a, b

LEMMA SplicedIs ==
    ASSUME NEW S, row.log \in Seq(S), live \in Seq(S), NEW text \in Seq(S),
           NEW n \in 0..Len(live), Spliced(text, n)
    PROVE  /\ text = SubSeq(live, 1, n) \o After(row.log, n)
           /\ IsSuffix(After(row.log, Len(live)), text) /\ Len(text) >= Len(row.log)
  <1>1. PICK log \in Seq(S) : log = row.log
    OBVIOUS
  <1>2. n \in Nat /\ Len(live) \in Nat /\ n <= Len(live) /\ Len(log) \in Nat
    BY <1>1
  <1>3. /\ Len(text) = IF Len(log) > n THEN Len(log) ELSE n
        /\ \A j \in 1..Len(text) : text[j] = IF j <= n THEN live[j] ELSE log[j]
    BY <1>1 DEF Spliced
  <1>4. text = SubSeq(live, 1, n) \o After(log, n)
    <2> DEFINE a == SubSeq(live, 1, n)
               b == After(log, n)
    <2>1. a \in Seq(S) /\ Len(a) = n /\ \A j \in 1..n : a[j] = live[j]
      BY <1>2, PartsOf
    <2>2. /\ b \in Seq(S) /\ Len(b) = IF n < Len(log) THEN Len(log) - n ELSE 0
          /\ \A j \in 1..Len(b) : b[j] = log[n + j]
      BY <1>2, PartsOf
    <2> HIDE DEF a, b
    <2>3. /\ a \o b \in Seq(S) /\ Len(a \o b) = n + Len(b)
          /\ \A j \in 1..(n + Len(b)) : (a \o b)[j] = IF j <= n THEN a[j] ELSE b[j - n]
      <3>1. /\ a \o b \in Seq(S) /\ Len(a \o b) = Len(a) + Len(b)
            /\ \A j \in 1..(Len(a) + Len(b)) :
                  (a \o b)[j] = IF j <= Len(a) THEN a[j] ELSE b[j - Len(a)]
        BY <2>1, <2>2, ConcatProperties
      <3> QED
        BY <2>1, <3>1
    <2>4. Len(a \o b) = Len(text)
      BY <1>2, <1>3, <2>2, <2>3
    <2>5. ASSUME NEW j \in 1..Len(text) PROVE text[j] = (a \o b)[j]
      <3>1. CASE j <= n
        <4>1. j \in 1..n /\ j \in 1..(n + Len(b)) /\ j \in 1..Len(text)
          BY <1>2, <2>2, <3>1
        <4>2. text[j] = live[j] /\ a[j] = live[j] /\ (a \o b)[j] = a[j]
          BY <1>3, <2>1, <2>3, <3>1, <4>1
        <4> QED
          BY <4>2
      <3>2. CASE ~(j <= n)
        <4>1. j - n \in 1..Len(b) /\ n + (j - n) = j /\ j \in 1..(n + Len(b))
          BY <1>2, <1>3, <2>2, <3>2
        <4> QED
          BY <1>3, <2>2, <2>3, <3>2, <4>1
      <3> QED
        BY <3>1, <3>2
    <2>6. text = a \o b
      BY <2>3, <2>4, <2>5, SeqEqual
    <2> QED
      BY <2>6 DEF a, b
  <1>5. Len(text) >= Len(log)
    BY <1>2, <1>3
  <1>6. IsSuffix(After(log, Len(live)), text)
    <2> DEFINE s == After(log, Len(live))
    <2>1. /\ s \in Seq(S) /\ Len(s) = IF Len(live) < Len(log) THEN Len(log) - Len(live) ELSE 0
          /\ \A j \in 1..Len(s) : s[j] = log[Len(live) + j]
      BY <1>2, PartsOf
    <2> HIDE DEF s
    <2>2. Len(s) <= Len(text)
      BY <1>2, <1>3, <2>1
    <2>3. ASSUME NEW j \in 1..Len(s) PROVE s[j] = text[Len(text) - Len(s) + j]
      <3>1. /\ Len(live) < Len(log) /\ Len(text) = Len(log) /\ Len(s) = Len(log) - Len(live)
        BY <1>2, <1>3, <2>1
      <3>2. /\ Len(text) - Len(s) + j = Len(live) + j /\ Len(live) + j \in 1..Len(text)
            /\ ~(Len(live) + j <= n)
        BY <1>2, <3>1
      <3> QED
        BY <1>3, <2>1, <3>2
    <2>4. IsSuffix(s, text)
      BY <2>1, <2>2, <2>3, SuffixOf
    <2> QED
      BY <2>4 DEF s
  <1> QED
    BY <1>1, <1>4, <1>5, <1>6

(***************************************************************************)
(* Who follows a build through StreamBuildLogs has a beginning of the live *)
(* log, and when the stream is complete that beginning with the end of the *)
(* log that the worker stored last, whatever writes were lost and however  *)
(* often the stream looked.                                                *)
(***************************************************************************)
THEOREM LogsAreSpliced == Spec => []BuildLogSpliced
  <1>1. BuildOK /\ [Next]_vars => BuildOK'
    BY BuildNextKeeps
  <1>2. ASSUME BuildOK PROVE BuildLogSpliced
    <2> SUFFICES ASSUME NEW v \in Viewers
                 PROVE  /\ \/ IsPrefix(viewer[v].text, live)
                           \/ /\ isTerminalBuildStatus(row.status)
                              /\ \E n \in 0..Len(live) :
                                    viewer[v].text = SubSeq(live, 1, n) \o After(row.log, n)
                        /\ viewer[v].pc = "complete" =>
                               /\ IsSuffix(After(row.log, Len(live)), viewer[v].text)
                               /\ Len(viewer[v].text) >= Len(row.log)
      BY DEF BuildLogSpliced
    <2>1. PICK x \in Viewer : x = viewer[v] /\ ViewerOK(x)
      BY <1>2 DEF BuildOK
    <2>2. x.text \in Seq(Chunks) /\ live \in Seq(Chunks) /\ row.log \in Seq(Chunks)
      BY <1>2 DEF BuildOK, BuildRow, Viewer, Logs, Chunks
    <2>3. CASE x.pc # "complete" /\ Begins(x.text, live)
      BY <2>1, <2>2, <2>3, PrefixOf
    <2>4. CASE isTerminalBuildStatus(row.status) /\ \E n \in 0..Len(live) : Spliced(x.text, n)
      BY <2>1, <2>2, <2>4, SplicedIs
    <2> QED
      BY <2>1, <2>3, <2>4 DEF ViewerOK
  <1> QED
    BY <1>1, <1>2, InitBuild, PTL DEF Spec


-----------------------------------------------------------------------------
(* The inductive invariant of the application log *)

Byte == BOOLEAN \X Nat

\* The client has a beginning of the first container's output.
Follows ==
    /\ Len(buffer) <= LineEnd(Len(ends))
    /\ \A j \in 1..Len(buffer) : buffer[j] = <<FALSE, j>>

\* No line ends behind the last one.
EndsOK ==
    /\ ends \in Seq(Nat) /\ Len(ends) <= MaxLines /\ renewed \in BOOLEAN
    /\ \A k \in 1..Len(ends) : ends[k] <= LineEnd(Len(ends))

\* A stream goes on where the client's buffer ends, or has sent nothing yet;
\* and while the whole output fits into the tail, the buffer is a part of it.
AppOK ==
    /\ EndsOK
    /\ stream \in [open : BOOLEAN, last : Nat]
    /\ buffer \in Seq(Byte) /\ cursor = Len(buffer)
    /\ \/ stream.last = 0
       \/ stream.open /\ stream.last = cursor
    /\ ~renewed /\ Len(ends) <= TailLines => Follows

LEMMA LineEndTyped ==
    ASSUME AppOK
    PROVE  /\ Len(ends) \in Nat /\ LineEnd(Len(ends)) \in Nat
           /\ \A k \in 0..Len(ends) : LineEnd(k) \in Nat /\ LineEnd(k) <= LineEnd(Len(ends))
BY DEF AppOK, EndsOK, LineEnd

LEMMA SameEnds ==
    ASSUME EndsOK, UNCHANGED <<ends, renewed>>
    PROVE  EndsOK' /\ LineEnd(Len(ends))' = LineEnd(Len(ends))
<1>1. LineEnd(Len(ends))' = LineEnd(Len(ends))
  BY DEF LineEnd
<1> QED BY <1>1 DEF EndsOK

\* Where neither the container nor the client does anything.
LEMMA SameBuffer ==
    ASSUME AppOK, UNCHANGED <<ends, renewed, buffer, cursor>>
    PROVE  /\ EndsOK' /\ buffer' \in Seq(Byte) /\ cursor' = Len(buffer')
           /\ ~renewed' /\ Len(ends') <= TailLines => Follows'
<1>1. EndsOK' /\ LineEnd(Len(ends))' = LineEnd(Len(ends))
  BY SameEnds DEF AppOK
<1>2. buffer' \in Seq(Byte) /\ cursor' = Len(buffer')
  BY DEF AppOK
<1>3. ASSUME ~renewed', Len(ends') <= TailLines
      PROVE  Follows'
  <2>1. Follows
    BY <1>3 DEF AppOK
  <2> QED BY <1>1, <2>1 DEF Follows
<1> QED BY <1>1, <1>2, <1>3

LEMMA TextTyped ==
    ASSUME AppOK, NEW n \in Nat, n <= LineEnd(Len(ends))
    PROVE  /\ Text(n) \in Seq(Byte) /\ Len(Text(n)) = LineEnd(Len(ends)) - n
           /\ \A j \in 1..Len(Text(n)) : Text(n)[j] = <<renewed, n + j>>
<1>1. PICK m \in Nat : m = LineEnd(Len(ends)) - n
  BY LineEndTyped
<1>2. Text(n) = [j \in 1..m |-> <<renewed, n + j>>]
  BY <1>1 DEF Text
<1>3. \A j \in 1..m : <<renewed, n + j>> \in Byte
  BY DEF AppOK, EndsOK, Byte
<1>4. Text(n) \in Seq(Byte) /\ Len(Text(n)) = m
  <2>1. Text(n) \in [1..m -> Byte]
    BY <1>2, <1>3
  <2> HIDE DEF Byte
  <2> QED BY <2>1
<1> QED BY <1>1, <1>2, <1>4

\* The text that an answer is cut from.
LEMMA LogsTyped ==
    ASSUME AppOK
    PROVE  /\ ContainerLogs \in Seq(Byte) /\ Len(ContainerLogs) \in Nat
           /\ ~renewed /\ Len(ends) <= TailLines =>
                /\ Len(ContainerLogs) = LineEnd(Len(ends))
                /\ \A j \in 1..Len(ContainerLogs) : ContainerLogs[j] = <<FALSE, j>>
<1>1. PICK n \in Nat : /\ n <= LineEnd(Len(ends)) /\ ContainerLogs = Text(n)
                       /\ Len(ends) <= TailLines => n = 0
  <2>1. CASE Len(ends) > TailLines
    <3>1. Len(ends) - TailLines \in 0..Len(ends)
      BY <2>1, AppAssumed, LineEndTyped DEF AppAssumption
    <3>2. ~(Len(ends) <= TailLines)
      BY <2>1, AppAssumed, LineEndTyped DEF AppAssumption
    <3> QED BY <2>1, <3>1, <3>2, LineEndTyped DEF ContainerLogs
  <2>2. CASE ~(Len(ends) > TailLines)
    BY <2>2, LineEndTyped DEF ContainerLogs
  <2> QED BY <2>1, <2>2
<1>2. /\ Text(n) \in Seq(Byte) /\ Len(Text(n)) = LineEnd(Len(ends)) - n
      /\ \A j \in 1..Len(Text(n)) : Text(n)[j] = <<renewed, n + j>>
  BY <1>1, TextTyped
<1>3. ContainerLogs \in Seq(Byte) /\ Len(ContainerLogs) \in Nat
  BY <1>1, <1>2
<1>4. ASSUME ~renewed, Len(ends) <= TailLines
      PROVE  /\ Len(ContainerLogs) = LineEnd(Len(ends))
             /\ \A j \in 1..Len(ContainerLogs) : ContainerLogs[j] = <<FALSE, j>>
  <2>1. n = 0 /\ renewed = FALSE
    BY <1>1, <1>4 DEF AppOK, EndsOK
  <2>2. Len(ContainerLogs) = LineEnd(Len(ends))
    BY <1>1, <1>2, <2>1, LineEndTyped
  <2>3. ASSUME NEW j \in 1..Len(ContainerLogs)
        PROVE  ContainerLogs[j] = <<FALSE, j>>
    <3>1. ContainerLogs[j] = <<renewed, n + j>>
      BY <1>1, <1>2
    <3>2. renewed = FALSE /\ n + j = j
      BY <2>1
    <3> QED BY <3>1, <3>2
  <2> QED BY <2>2, <2>3
<1> QED BY <1>3, <1>4

LEMMA LeastOf ==
    ASSUME NEW a \in Nat, NEW b \in Nat, b <= a
    PROVE  Min({a, b}) = b
<1>1. b \in {a, b} /\ \A y \in {a, b} : b <= y
  OBVIOUS
<1>2. ASSUME NEW x \in {a, b}, \A y \in {a, b} : x <= y
      PROVE  x = b
  BY <1>2
<1> QED BY <1>1, <1>2 DEF Min

\* A chunk that begins where the buffer is known.
LEMMA AppendsTo ==
    ASSUME buffer \in Seq(Byte), NEW n \in Nat, n <= Len(buffer), NEW chunk \in Seq(Byte),
           Appends(chunk, n + Len(chunk))
    PROVE  /\ buffer' \in Seq(Byte) /\ Len(buffer') = n + Len(chunk) /\ cursor' = n + Len(chunk)
           /\ \A j \in 1..Len(buffer') : buffer'[j] = IF j <= n THEN buffer[j] ELSE chunk[j - n]
<1>1. Len(chunk) \in Nat /\ Len(buffer) \in Nat /\ (n + Len(chunk)) - Len(chunk) = n
  OBVIOUS
<1>2. Min({Len(buffer), (n + Len(chunk)) - Len(chunk)}) = n
  BY <1>1, LeastOf
<1> DEFINE a == SubSeq(buffer, 1, n)
<1>3. buffer' = a \o chunk /\ cursor' = n + Len(chunk)
  BY <1>2 DEF Appends
<1>4. a \in Seq(Byte) /\ Len(a) = n /\ \A j \in 1..n : a[j] = buffer[j]
  BY PartsOf
<1> HIDE DEF a
<1>5. /\ a \o chunk \in Seq(Byte) /\ Len(a \o chunk) = Len(a) + Len(chunk)
      /\ \A j \in 1..(Len(a) + Len(chunk)) :
            (a \o chunk)[j] = IF j <= Len(a) THEN a[j] ELSE chunk[j - Len(a)]
  BY <1>4, ConcatProperties
<1>6. ASSUME NEW j \in 1..(n + Len(chunk))
      PROVE  (a \o chunk)[j] = IF j <= n THEN buffer[j] ELSE chunk[j - n]
  <2>1. (a \o chunk)[j] = IF j <= n THEN a[j] ELSE chunk[j - n]
    BY <1>4, <1>5
  <2>2. j <= n => j \in 1..n
    BY <1>1
  <2> QED BY <1>4, <2>1, <2>2
<1> QED BY <1>1, <1>3, <1>4, <1>5, <1>6

\* An answer from the n-th byte on makes the buffer as long as the text, and
\* the text itself if the buffer was a beginning of it.
LEMMA AnswerAppends ==
    ASSUME AppOK, NEW n \in Nat, n <= cursor, n <= Len(ContainerLogs),
           Appends(From(ContainerLogs, n), Len(ContainerLogs)), UNCHANGED <<ends, renewed>>
    PROVE  /\ buffer' \in Seq(Byte) /\ cursor' = Len(buffer') /\ cursor' = Len(ContainerLogs)
           /\ ~renewed' /\ Len(ends') <= TailLines => Follows'
<1> DEFINE text == ContainerLogs
           chunk == From(text, n)
<1>1. /\ text \in Seq(Byte) /\ Len(text) \in Nat
      /\ buffer \in Seq(Byte) /\ cursor = Len(buffer)
  BY LogsTyped DEF AppOK
<1>2. chunk \in Seq(Byte) /\ Len(chunk) = Len(text) - n
      /\ \A j \in 1..Len(chunk) : chunk[j] = text[n + j]
  <2> HIDE DEF text
  <2>1. /\ After(text, n) \in Seq(Byte)
        /\ Len(After(text, n)) = IF n < Len(text) THEN Len(text) - n ELSE 0
        /\ \A j \in 1..Len(After(text, n)) : After(text, n)[j] = text[n + j]
    BY <1>1, PartsOf
  <2>2. Len(After(text, n)) = Len(text) - n
    BY <1>1, <2>1 DEF text
  <2> QED BY <2>1, <2>2 DEF After, From
<1> HIDE DEF chunk
<1>3. n + Len(chunk) = Len(text)
  BY <1>1, <1>2
<1>4. /\ buffer' \in Seq(Byte) /\ Len(buffer') = Len(text) /\ cursor' = Len(text)
      /\ \A j \in 1..Len(buffer') : buffer'[j] = IF j <= n THEN buffer[j] ELSE chunk[j - n]
  <2>1. Appends(chunk, n + Len(chunk))
    BY <1>3 DEF chunk
  <2> QED BY <1>1, <1>2, <1>3, <2>1, AppendsTo
<1>5. ASSUME ~renewed', Len(ends') <= TailLines
      PROVE  Follows'
  <2>1. /\ Follows /\ Len(text) = LineEnd(Len(ends))
        /\ \A j \in 1..Len(text) : text[j] = <<FALSE, j>>
    BY <1>5, LogsTyped DEF AppOK
  <2>2. Len(buffer') <= LineEnd(Len(ends))'
    BY <1>1, <1>4, <2>1, SameEnds DEF AppOK
  <2>3. ASSUME NEW j \in 1..Len(buffer')
        PROVE  buffer'[j] = <<FALSE, j>>
    <3>1. CASE j <= n
      <4>1. j \in 1..Len(buffer) /\ buffer'[j] = buffer[j]
        BY <1>1, <1>4, <3>1
      <4> QED BY <2>1, <4>1 DEF Follows
    <3>2. CASE ~(j <= n)
      <4>1. j - n \in 1..Len(chunk) /\ n + (j - n) = j /\ j \in 1..Len(text)
        BY <1>1, <1>2, <1>4, <3>2
      <4> QED BY <1>2, <1>4, <2>1, <3>2, <4>1
    <3> QED BY <3>1, <3>2
  <2> QED BY <2>2, <2>3 DEF Follows
<1> QED BY <1>4, <1>5

-----------------------------------------------------------------------------
LEMMA PrintsKeeps ==
    ASSUME AppOK, NEW width \in Widths, Prints(width)
    PROVE  AppOK'
<1>1. PICK w \in Nat, e \in Nat, l \in Nat :
          w = width /\ e = LineEnd(Len(ends)) /\ l = Len(ends)
  BY AppAssumed, LineEndTyped DEF AppAssumption
<1>2. /\ ends \in Seq(Nat) /\ ends' = Append(ends, e + w) /\ l < MaxLines
      /\ UNCHANGED <<renewed, stream, buffer, cursor>>
  BY <1>1 DEF Prints, AppOK, EndsOK
<1>3. /\ ends' \in Seq(Nat) /\ Len(ends') = l + 1 /\ ends'[l + 1] = e + w
      /\ \A k \in 1..l : ends'[k] = ends[k]
  BY <1>1, <1>2
<1>4. LineEnd(Len(ends))' = e + w
  BY <1>3 DEF LineEnd
<1>5. ASSUME NEW k \in 1..Len(ends')
      PROVE  ends'[k] <= LineEnd(Len(ends))'
  <2>1. CASE k = l + 1
    BY <1>3, <1>4, <2>1
  <2>2. CASE k # l + 1
    <3>1. k \in 1..l /\ k \in 1..Len(ends)
      BY <1>1, <1>3, <2>2
    <3>2. ends'[k] = ends[k]
      BY <1>3, <3>1
    <3>3. ends[k] <= e /\ ends[k] \in Nat
      BY <1>1, <3>1 DEF AppOK, EndsOK
    <3> QED BY <1>4, <3>2, <3>3
  <2> QED BY <2>1, <2>2
<1>6. ASSUME ~renewed', Len(ends') <= TailLines
      PROVE  Follows'
  <2>1. Len(ends) <= TailLines
    BY <1>1, <1>3, <1>6, AppAssumed DEF AppAssumption
  <2>2. Follows
    BY <1>2, <1>6, <2>1 DEF AppOK
  <2>3. Len(buffer) <= e /\ Len(buffer) \in Nat
    BY <1>1, <2>2 DEF Follows, AppOK
  <2>4. Len(buffer) <= e + w
    BY <2>3
  <2> QED BY <1>2, <1>4, <2>2, <2>4 DEF Follows
<1>7. Len(ends') <= MaxLines
  BY <1>2, <1>3, AppAssumed DEF AppAssumption
<1> QED BY <1>2, <1>3, <1>5, <1>6, <1>7 DEF AppOK, EndsOK

LEMMA RenewKeeps ==
    ASSUME AppOK, Renew
    PROVE  AppOK'
<1>1. ends' = <<>> /\ renewed' = TRUE /\ UNCHANGED <<stream, buffer, cursor>>
  BY DEF Renew
<1>2. ends' \in Seq(Nat) /\ Len(ends') = 0 /\ Len(ends') <= MaxLines
  BY <1>1, AppAssumed DEF AppAssumption
<1> QED BY <1>1, <1>2 DEF AppOK, EndsOK

LEMMA OpenKeeps ==
    ASSUME AppOK, OpenAppLog
    PROVE  AppOK'
<1> DEFINE n == Len(ContainerLogs)
<1>1. UNCHANGED <<ends, renewed>> /\ stream' = [open |-> TRUE, last |-> n] /\ n \in Nat
  BY LogsTyped DEF OpenAppLog
<1>2. CASE ContainerLogs = <<>>
  <2>1. UNCHANGED <<buffer, cursor>> /\ n = 0
    BY <1>2 DEF OpenAppLog
  <2> QED BY <1>1, <2>1, SameBuffer DEF AppOK
<1>3. CASE ContainerLogs # <<>>
  <2>1. From(ContainerLogs, 0) = ContainerLogs
    <3> DEFINE text == ContainerLogs
               all == SubSeq(text, 1, Len(text))
    <3>1. text \in Seq(Byte) /\ Len(text) \in Nat
      BY LogsTyped
    <3> HIDE DEF text
    <3>2. all \in Seq(Byte) /\ Len(all) = Len(text) /\ \A j \in 1..Len(text) : all[j] = text[j]
      BY <3>1, PartsOf
    <3> HIDE DEF all
    <3>3. all = text
      BY <3>1, <3>2, SeqEqual
    <3>4. From(text, 0) = all
      BY DEF From, all
    <3> QED BY <3>3, <3>4 DEF text
  <2>2. Appends(From(ContainerLogs, 0), Len(ContainerLogs))
    BY <1>3, <2>1 DEF OpenAppLog
  <2>3. 0 \in Nat /\ 0 <= cursor /\ 0 <= Len(ContainerLogs)
    BY <1>1 DEF AppOK
  <2>4. /\ buffer' \in Seq(Byte) /\ cursor' = Len(buffer') /\ cursor' = n
        /\ ~renewed' /\ Len(ends') <= TailLines => Follows'
    BY <1>1, <2>2, <2>3, AnswerAppends
  <2> QED BY <1>1, <2>4, SameEnds DEF AppOK
<1> QED BY <1>2, <1>3

LEMMA DisconnectKeeps ==
    ASSUME AppOK, Disconnect
    PROVE  AppOK'
BY SameBuffer DEF Disconnect, AppOK

LEMMA StreamTickKeeps ==
    ASSUME AppOK, StreamTick
    PROVE  AppOK'
<1> DEFINE n == Len(ContainerLogs)
<1>1. /\ UNCHANGED <<ends, renewed>> /\ n \in Nat
      /\ stream' = [stream EXCEPT !.last = n]
      /\ stream \in [open : BOOLEAN, last : Nat] /\ stream.open
      /\ stream.last \in {0, cursor} /\ ContainerLogs \in Seq(Byte)
  BY LogsTyped DEF StreamTick, AppOK
<1>2. stream' \in [open : BOOLEAN, last : Nat] /\ stream'.last = n
  BY <1>1
<1>3. CASE n < stream.last
  <2>1. buffer' = ContainerLogs /\ cursor' = n
    BY <1>3 DEF StreamTick
  <2>2. ASSUME ~renewed', Len(ends') <= TailLines
        PROVE  Follows'
    <3>1. /\ n = LineEnd(Len(ends))
          /\ \A j \in 1..n : ContainerLogs[j] = <<FALSE, j>>
      BY <1>1, <2>2, LogsTyped
    <3>2. LineEnd(Len(ends))' = n
      BY <1>1, <3>1, SameEnds DEF AppOK
    <3>3. Len(buffer') = n /\ \A j \in 1..Len(buffer') : buffer'[j] = <<FALSE, j>>
      BY <2>1, <3>1
    <3>4. Len(buffer') <= LineEnd(Len(ends))'
      BY <1>1, <3>2, <3>3
    <3> QED BY <3>3, <3>4 DEF Follows
  <2> QED BY <1>1, <1>2, <2>1, <2>2, SameEnds DEF AppOK
<1>4. CASE n > stream.last
  <2>1. Appends(From(ContainerLogs, stream.last), n)
    BY <1>1, <1>4 DEF StreamTick
  <2>2. stream.last \in Nat /\ stream.last <= cursor /\ stream.last <= n
    BY <1>1, <1>4 DEF AppOK
  <2>3. /\ buffer' \in Seq(Byte) /\ cursor' = Len(buffer') /\ cursor' = n
        /\ ~renewed' /\ Len(ends') <= TailLines => Follows'
    BY <1>1, <2>1, <2>2, AnswerAppends
  <2> QED BY <1>1, <1>2, <2>3, SameEnds DEF AppOK
<1>5. CASE n = stream.last
  <2>1. UNCHANGED <<buffer, cursor>> /\ stream' = stream
    BY <1>1, <1>5 DEF StreamTick
  <2> QED BY <1>1, <2>1, SameBuffer DEF AppOK
<1> QED BY <1>1, <1>3, <1>4, <1>5

LEMMA PollAppKeeps ==
    ASSUME AppOK, PollAppLog
    PROVE  AppOK'
<1> DEFINE n == Len(ContainerLogs)
<1>1. /\ UNCHANGED <<ends, renewed, stream>> /\ n \in Nat /\ cursor \in Nat
  BY LogsTyped DEF PollAppLog, AppOK
<1>2. PICK from \in Nat : /\ from <= cursor /\ from <= n
                          /\ Appends(From(ContainerLogs, from), n)
  BY <1>1 DEF PollAppLog
<1>3. /\ buffer' \in Seq(Byte) /\ cursor' = Len(buffer')
      /\ ~renewed' /\ Len(ends') <= TailLines => Follows'
  BY <1>1, <1>2, AnswerAppends
<1>4. stream.last = 0 /\ stream \in [open : BOOLEAN, last : Nat]
  BY DEF PollAppLog, AppOK
<1>5. EndsOK'
  BY <1>1, SameEnds DEF AppOK
<1> QED BY <1>1, <1>3, <1>4, <1>5 DEF AppOK

LEMMA AppNextKeeps ==
    ASSUME AppOK, [Next]_vars
    PROVE  AppOK'
<1>1. CASE UNCHANGED appVars
  BY <1>1, SameBuffer DEF appVars, AppOK
<1>2. CASE Container \/ Connection \/ FollowsApp
  BY <1>2, PrintsKeeps, RenewKeeps, OpenKeeps, DisconnectKeeps, StreamTickKeeps, PollAppKeeps
  DEF Container, Connection, FollowsApp
<1>3. CASE Builds \/ \E v \in Viewers : FollowsBuild(v) \/ OpensBuildLog(v)
  BY <1>1, <1>3 DEF Builds, FollowsBuild, OpensBuildLog, OnBuildLog
<1>4. CASE (\E r \in Requests : Details(r)) \/ Moments
  BY <1>1, <1>4 DEF Details, Moments, OnDetails
<1>5. CASE UNCHANGED vars
  BY <1>1, <1>5 DEF vars
<1> QED BY <1>2, <1>3, <1>4, <1>5 DEF Next

LEMMA InitApp == Init => AppOK
<1> SUFFICES ASSUME Init PROVE AppOK
  OBVIOUS
<1>1. /\ ends = <<>> /\ renewed = FALSE /\ buffer = <<>> /\ cursor = 0
      /\ stream = [open |-> FALSE, last |-> 0]
  BY DEF Init, AppInit
<1>2. Len(ends) = 0 /\ ends \in Seq(Nat) /\ Len(ends) <= MaxLines
  BY <1>1, AppAssumed DEF AppAssumption
<1>3. LineEnd(Len(ends)) = 0
  BY <1>2 DEF LineEnd
<1>4. EndsOK
  <2>1. 1..Len(ends) = {}
    BY <1>2
  <2>2. renewed \in BOOLEAN
    BY <1>1
  <2> QED BY <1>2, <2>1, <2>2 DEF EndsOK
<1> QED BY <1>1, <1>3, <1>4 DEF AppOK, Follows

(***************************************************************************)
(* A client of StreamAppLogs and GetAppLogs, used as documented, has a     *)
(* beginning of the container's output as long as the whole output fits    *)
(* into the tail, for lines of any length and however often it loses the   *)
(* stream and asks again with its cursor.                                  *)
(***************************************************************************)
THEOREM LogIsFollowed == Spec => []AppLogFollows
<1>1. AppOK /\ [Next]_vars => AppOK'
  BY AppNextKeeps
<1>2. ASSUME AppOK PROVE AppLogFollows
  <2> SUFFICES ASSUME ~renewed, Len(ends) <= TailLines
               PROVE  IsPrefix(buffer, Everything)
    BY DEF AppLogFollows
  <2>1. /\ buffer \in Seq(Byte) /\ Len(buffer) <= LineEnd(Len(ends))
        /\ \A j \in 1..Len(buffer) : buffer[j] = <<FALSE, j>>
    BY <1>2 DEF AppOK, Follows
  <2>2. /\ Everything \in Seq(Byte) /\ Len(Everything) = LineEnd(Len(ends)) - 0
        /\ \A j \in 1..Len(Everything) : Everything[j] = <<renewed, 0 + j>>
    BY <1>2, LineEndTyped, TextTyped DEF Everything
  <2>3. Len(buffer) <= Len(Everything)
    BY <1>2, <2>1, <2>2, LineEndTyped
  <2>4. ASSUME NEW j \in 1..Len(buffer)
        PROVE  buffer[j] = Everything[j]
    <3>1. j \in 1..Len(Everything) /\ 0 + j = j
      BY <2>1, <2>2, <2>3
    <3>2. renewed = FALSE
      BY <1>2 DEF AppOK, EndsOK
    <3> QED BY <2>1, <2>2, <3>1, <3>2
  <2> QED BY <2>1, <2>2, <2>3, <2>4, PrefixOf DEF Begins
<1> QED BY <1>1, <1>2, InitApp, PTL DEF Spec

-----------------------------------------------------------------------------
(* The shape of the state *)

\* What none of the three pages' invariants says.
RestOK ==
    /\ worker \in {"idle", "building", "built", "over"}
    /\ hosted \in BOOLEAN
    /\ faults \in 0..MaxFaults

LEMMA OutcomeTyped ==
    ASSUME RestOK, NEW ok \in BOOLEAN, Outcome(ok)
    PROVE  faults' \in 0..MaxFaults
BY PagesAssumed DEF RestOK, Outcome, PagesAssumption

LEMMA RestKeeps ==
    ASSUME RestOK, [Next]_vars
    PROVE  RestOK'
<1>1. CASE Builds
  <2>1. hosted' = hosted
    BY <1>1 DEF Builds, OnBuildLog, podVars
  <2>2. PICK stored \in BOOLEAN :
            /\ \/ StartBuild(stored) \/ Flush(stored)
               \/ \E kind \in {"section", "stream"}, due \in BOOLEAN : Emit(kind, due, stored)
               \/ \E ok, scaling \in BOOLEAN : SettleBuild(ok, scaling, stored)
            /\ Outcome(stored)
    BY <1>1 DEF Builds
  <2>3. worker' \in {"idle", "building", "built", "over"}
    BY <2>2 DEF StartBuild, Flush, Emit, SettleBuild, RestOK
  <2> QED BY <2>1, <2>2, <2>3, OutcomeTyped DEF RestOK
<1>2. CASE \E v \in Viewers : FollowsBuild(v) \/ OpensBuildLog(v)
  <2>1. worker' = worker /\ hosted' = hosted
    BY <1>2 DEF FollowsBuild, OpensBuildLog, PollBuildLog, OpenBuildLog, OnBuildLog, podVars
  <2>2. faults' = faults \/ \E ok \in BOOLEAN : Outcome(ok)
    BY <1>2 DEF FollowsBuild, OpensBuildLog
  <2> QED BY <2>1, <2>2, OutcomeTyped DEF RestOK
<1>3. CASE Container \/ Connection \/ FollowsApp
  BY <1>3 DEF Container, Connection, FollowsApp, OnAppLog, buildVars, podVars, RestOK
<1>4. ASSUME NEW r \in Requests, Details(r) PROVE RestOK'
  <2>1. worker' = worker
    BY <1>4 DEF Details, OnDetails, buildVars
  <2>2. hosted' = hosted
    BY <1>4 DEF Details, AskDetails, LookForPods, StorePods, AnswerDetails, ReadRecord,
                GetPods, GetResources
  <2>3. faults' = faults \/ \E ok \in BOOLEAN : Outcome(ok)
    BY <1>4 DEF Details
  <2> QED BY <2>1, <2>2, <2>3, OutcomeTyped DEF RestOK
<1>5. CASE Moments
  <2>1. worker' = worker /\ faults' = faults
    BY <1>5 DEF Moments, OnDetails, buildVars
  <2>2. hosted' \in BOOLEAN
    BY <1>5 DEF Moments, Turns, PodTick, RestOK
  <2> QED BY <2>1, <2>2 DEF RestOK
<1>6. CASE UNCHANGED vars
  BY <1>6 DEF vars, buildVars, podVars, RestOK
<1> QED BY <1>1, <1>2, <1>3, <1>4, <1>5, <1>6 DEF Next

(***************************************************************************)
(* The logs, the streams, the pods' cache and the requests keep their      *)
(* shape; in particular a client's cursor is always the length of what it  *)
(* has, whichever of the two handlers answered last.                       *)
(***************************************************************************)
THEOREM TypeCorrect == Spec => []TypeOK
<1>1. Init => RestOK
  <2> SUFFICES ASSUME Init PROVE RestOK
    OBVIOUS
  <2>1. worker = "idle" /\ hosted = TRUE /\ faults = 0
    BY DEF Init, BuildInit, PodInit
  <2> QED BY <2>1, PagesAssumed DEF RestOK, PagesAssumption
<1>2. PodsOK /\ BuildOK /\ AppOK /\ RestOK => TypeOK
  BY DEF PodsOK, BuildOK, AppOK, EndsOK, Byte, RestOK, TypeOK
<1>3. [Next]_vars => /\ PodsOK => PodsOK'
                     /\ BuildOK => BuildOK'
                     /\ AppOK => AppOK'
                     /\ RestOK => RestOK'
  BY NextKeeps, BuildNextKeeps, AppNextKeeps, RestKeeps
<1> QED BY <1>1, <1>2, <1>3, InitPods, InitBuild, InitApp, PTL DEF Spec

=============================================================================
