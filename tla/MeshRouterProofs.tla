-------------------------- MODULE MeshRouterProofs --------------------------
(***************************************************************************)
(* Proofs about the edge router, for every TTL, every bound on a lookup    *)
(* and any number of deployments, workers and requests.                    *)
(***************************************************************************)
EXTENDS MeshRouter, TLAPS

-----------------------------------------------------------------------------
(* The inductive invariant *)

\* A deployment that is executed or up has a worker as its host.
HostOK ==
    \A d \in Deployments : phase[d] \in {"executing", "up"} => host[d] \in Workers

\* The worker a lookup has found hosted the deployment when it was found.
FoundOK ==
    \A r \in Requests :
        request[r].pc = "found" =>
            /\ request[r].worker \in Workers
            /\ request[r].age <= LookupTicks
            /\ Absence(request[r].dep, request[r].worker) <= request[r].age

\* The worker of an entry did so at most a lookup before the entry was made.
CacheOK ==
    \A d \in Deployments :
        Usable(d) =>
            /\ cache[d].worker \in Workers
            /\ Absence(d, cache[d].worker) <= cache[d].age + LookupTicks

IInv == LifeTypeOK /\ RouterShape /\ HostOK /\ FoundOK /\ CacheOK

-----------------------------------------------------------------------------
LEMMA AgesGrow ==
    ASSUME NEW age \in 0..Old
    PROVE  /\ Older(age) \in 0..Old
           /\ Older(age) <= age + 1
           /\ Older(age) >= age
           /\ Older(age) <= TTL => Older(age) = age + 1
    BY RouterAssumed DEF RouterAssumption, Older, Old

LEMMA InitIInv == Init => IInv
  <1> SUFFICES ASSUME Init PROVE IInv
    OBVIOUS
  <1> USE RouterAssumed DEF RouterAssumption, Init, LifeInit, RouterInit
  <1>1. LifeTypeOK
    BY DEF LifeTypeOK, Phases
  <1>2. RouterShape
    BY DEF RouterShape, CacheEntry, RequestRecord, WorkerOrNone, Old
  <1>3. HostOK /\ FoundOK /\ CacheOK
    BY DEF HostOK, FoundOK, CacheOK, Usable
  <1> QED
    BY <1>1, <1>2, <1>3 DEF IInv

\* A deployment moves along its lifecycle.
LEMMA LifeKeeps == IInv /\ LifeStep => IInv'
  <1> SUFFICES ASSUME IInv, LifeStep PROVE IInv'
    OBVIOUS
  <1> USE DEF IInv, LifeStep
  <1>1. LifeTypeOK' /\ HostOK'
    <2>1. ASSUME NEW d \in Deployments, NEW w \in Workers,
                 Submit(d) \/ Queue(d) \/ Take(d, w) \/ Succeed(d) \/ Fail(d) \/ Relocate(d)
          PROVE  LifeTypeOK' /\ HostOK'
      BY <2>1 DEF LifeTypeOK, HostOK, Submit, Queue, Take, Succeed, Fail, Relocate,
                  Move, Phases
    <2>2. ASSUME NEW d \in Deployments,
                 Submit(d) \/ Queue(d) \/ Succeed(d) \/ Fail(d) \/ Relocate(d)
          PROVE  LifeTypeOK' /\ HostOK'
      BY <2>2 DEF LifeTypeOK, HostOK, Submit, Queue, Succeed, Fail, Relocate, Move, Phases
    <2>3. ASSUME NEW S \in SUBSET Deployments, Strand(S)
          PROVE  LifeTypeOK' /\ HostOK'
      BY <2>3 DEF LifeTypeOK, HostOK, Strand, Phases
    <2> QED
      BY <2>1, <2>2, <2>3 DEF LifeNext
  <1>2. RouterShape'
    BY RouterAssumed DEF RouterShape, RouterAssumption, Old
  <1>3. ASSUME NEW d \in Deployments, NEW w \in Workers
        PROVE  Absence(d, w)' <= Absence(d, w)
    BY RouterAssumed DEF Absence, RouterShape, RouterAssumption, Old
  <1>4. FoundOK'
    <2> SUFFICES ASSUME NEW r \in Requests, request'[r].pc = "found"
                 PROVE  /\ request'[r].worker \in Workers
                        /\ request'[r].age <= LookupTicks
                        /\ Absence(request[r].dep, request[r].worker)' <= request'[r].age
      BY DEF FoundOK
    <2>1. /\ request' = request
          /\ request[r].dep \in Deployments
          /\ request[r].worker \in Workers
          /\ request[r].age \in Nat
          /\ request[r].age <= LookupTicks
          /\ Absence(request[r].dep, request[r].worker) <= request[r].age
      BY DEF FoundOK, RouterShape, RequestRecord
    <2>2. Absence(request[r].dep, request[r].worker) \in Int
      BY <2>1, RouterAssumed DEF Absence, RouterShape, RouterAssumption, Old
    <2>3. Absence(request[r].dep, request[r].worker)' \in Int
      BY <2>1, <1>2, RouterAssumed DEF Absence, RouterShape, RouterAssumption, Old
    <2>4. Absence(request[r].dep, request[r].worker)'
              <= Absence(request[r].dep, request[r].worker)
      BY <2>1, <1>3
    <2> QED
      BY <2>1, <2>2, <2>3, <2>4
  <1>5. CacheOK'
    BY <1>2, <1>3, RouterAssumed DEF CacheOK, Usable, Absence, RouterShape, CacheEntry,
       RouterAssumption, Old
  <1> QED
    BY <1>1, <1>2, <1>4, <1>5

\* Everything grows older by at most a tick, what is usable by exactly one.
LEMMA TickKeeps == IInv /\ Tick => IInv'
  <1> SUFFICES ASSUME IInv, Tick PROVE IInv'
    OBVIOUS
  <1> USE RouterAssumed DEF IInv, Tick, RouterAssumption
  <1>1. LifeTypeOK' /\ HostOK'
    BY DEF LifeTypeOK, HostOK, lifeVars
  <1>2. RouterShape'
    <2>1. cache' \in [Deployments -> CacheEntry]
      BY AgesGrow DEF RouterShape, CacheEntry
    <2>2. request' \in [Requests -> RequestRecord]
      BY AgesGrow DEF RouterShape, RequestRecord
    <2>3. since' \in [Deployments -> [Workers -> 0..Old]]
      BY AgesGrow DEF RouterShape, Old
    <2> QED
      BY <2>1, <2>2, <2>3 DEF RouterShape
  <1>3. ASSUME NEW d \in Deployments, NEW w \in Workers
        PROVE  /\ Absence(d, w)' \in Nat
               /\ Absence(d, w) \in Nat
               /\ Absence(d, w)' <= Absence(d, w) + 1
    <2>1. since[d][w] \in 0..Old
      BY DEF RouterShape
    <2>2. since'[d][w] = IF phase[d] = "up" /\ host[d] = w THEN 0 ELSE Older(since[d][w])
      OBVIOUS
    <2>3. Older(since[d][w]) \in 0..Old /\ Older(since[d][w]) <= since[d][w] + 1
      BY <2>1, AgesGrow
    <2> QED
      BY <2>1, <2>2, <2>3 DEF Absence, lifeVars, Old
  <1>4. FoundOK'
    <2> SUFFICES ASSUME NEW r \in Requests, request'[r].pc = "found"
                 PROVE  /\ request'[r].worker \in Workers
                        /\ request'[r].age <= LookupTicks
                        /\ Absence(request[r].dep, request[r].worker)' <= request'[r].age
      BY DEF FoundOK
    <2>1. PICK d, w, age : d = request[r].dep /\ w = request[r].worker /\ age = request[r].age
      OBVIOUS
    <2>2. request[r] \in RequestRecord
      BY DEF RouterShape
    <2>3. request[r].pc = "found" /\ age < LookupTicks /\ age \in Nat
      BY <2>1, <2>2 DEF RequestRecord, Old
    <2>4. /\ request'[r].worker = w
          /\ request'[r].dep = d
          /\ request'[r].age = age + 1
      BY <2>1, <2>2, <2>3 DEF RequestRecord, Older, Old
    <2>5. w \in Workers /\ d \in Deployments /\ Absence(d, w) <= age
      BY <2>1, <2>2, <2>3 DEF FoundOK, RequestRecord
    <2>6. Absence(d, w)' \in Nat /\ Absence(d, w) \in Nat /\ Absence(d, w)' <= Absence(d, w) + 1
      BY <2>5, <1>3
    <2> QED
      BY <2>3, <2>4, <2>5, <2>6
  <1>5. CacheOK'
    <2> SUFFICES ASSUME NEW d \in Deployments, Usable(d)'
                 PROVE  /\ cache'[d].worker \in Workers
                        /\ Absence(d, cache[d].worker)' <= cache'[d].age + LookupTicks
      BY DEF CacheOK
    <2>1. PICK w, age : w = cache[d].worker /\ age = cache[d].age
      OBVIOUS
    <2>2. cache[d] \in CacheEntry
      BY DEF RouterShape
    <2>3. cache'[d].worker = w /\ cache'[d].age = Older(age) /\ age \in 0..Old
      BY <2>1, <2>2 DEF CacheEntry
    <2>4. Older(age) = age + 1 /\ Usable(d)
      BY <2>1, <2>3, AgesGrow DEF Usable
    <2>5. w \in Workers /\ Absence(d, w) <= age + LookupTicks
      BY <2>1, <2>4 DEF CacheOK
    <2>6. Absence(d, w)' \in Nat /\ Absence(d, w) \in Nat /\ Absence(d, w)' <= Absence(d, w) + 1
      BY <2>5, <1>3
    <2> QED
      BY <2>3, <2>4, <2>5, <2>6
  <1> QED
    BY <1>1, <1>2, <1>4, <1>5

\* Only the request r goes on.
LEMMA GoesOn ==
    ASSUME RouterShape, NEW r \in Requests, NEW pc \in {"idle", "query", "found"},
           NEW d \in Deployments, NEW w \in WorkerOrNone, Goes(r, pc, d, w)
    PROVE  /\ request' \in [Requests -> RequestRecord]
           /\ request'[r] = [pc |-> pc, dep |-> d, worker |-> w, age |-> 0]
           /\ \A q \in Requests : q # r => request'[q] = request[q]
  <1>1. [pc |-> pc, dep |-> d, worker |-> w, age |-> 0] \in RequestRecord
    BY RouterAssumed DEF RequestRecord, RouterAssumption, Old
  <1> QED
    BY <1>1 DEF Goes, RouterShape

\* A lookup finds the host of this moment, and stores what it has found.
LEMMA RouterKeeps ==
    ASSUME IInv, NEW r \in Requests, RouterStep(r)
    PROVE  IInv'
  <1> USE RouterAssumed DEF IInv, RouterAssumption
  <1>1. UNCHANGED <<lifeVars, since>>
    BY DEF RouterStep
  <1>2. LifeTypeOK' /\ HostOK'
    BY <1>1 DEF LifeTypeOK, HostOK, lifeVars
  <1>3. \A d, w : Absence(d, w)' = Absence(d, w)
    BY <1>1 DEF Absence, lifeVars
  <1>4. request[r] \in RequestRecord
    BY DEF RouterShape
  <1>5. CASE Query(r) /\ phase[request[r].dep] = "up"
    <2> DEFINE d == request[r].dep
    <2>1. d \in Deployments /\ host[d] \in Workers /\ Absence(d, host[d]) = 0
      BY <1>4, <1>5 DEF RequestRecord, HostOK, Absence
    <2>2. Goes(r, "found", d, host[d]) /\ UNCHANGED cache
      BY <1>5 DEF Query
    <2> HIDE DEF d
    <2>3. /\ request' \in [Requests -> RequestRecord]
          /\ request'[r] = [pc |-> "found", dep |-> d, worker |-> host[d], age |-> 0]
          /\ \A q \in Requests : q # r => request'[q] = request[q]
      BY <2>1, <2>2, GoesOn DEF WorkerOrNone
    <2>4. FoundOK'
      BY <1>3, <2>1, <2>3 DEF FoundOK
    <2>5. RouterShape' /\ CacheOK'
      BY <1>1, <1>3, <2>2, <2>3 DEF RouterShape, CacheOK, Usable
    <2> QED
      BY <1>2, <2>4, <2>5
  <1>6. ASSUME NEW d \in Deployments, NEW pc \in {"idle", "query"},
               Goes(r, pc, d, NoWorker)
        PROVE  /\ request' \in [Requests -> RequestRecord]
               /\ FoundOK'
    <2>1. /\ request' \in [Requests -> RequestRecord]
          /\ request'[r] = [pc |-> pc, dep |-> d, worker |-> NoWorker, age |-> 0]
          /\ \A q \in Requests : q # r => request'[q] = request[q]
      BY <1>6, GoesOn DEF WorkerOrNone
    <2> QED
      BY <1>3, <2>1 DEF FoundOK
  <1>7. ASSUME NEW d \in Deployments, NEW pc \in {"idle", "query"},
               Goes(r, pc, d, NoWorker), UNCHANGED cache
        PROVE  IInv'
    <2>1. RouterShape' /\ CacheOK'
      BY <1>1, <1>3, <1>6, <1>7 DEF RouterShape, CacheOK, Usable
    <2> QED
      BY <1>2, <1>6, <1>7, <2>1
  <1>8. CASE Query(r) /\ phase[request[r].dep] # "up"
    BY <1>4, <1>7, <1>8 DEF Query, RequestRecord
  <1>9. CASE Store(r)
    <2>1. PICK d, w, age : d = request[r].dep /\ w = request[r].worker /\ age = request[r].age
      OBVIOUS
    <2>2. d \in Deployments /\ w \in Workers /\ age \in Nat /\ age <= LookupTicks
          /\ Absence(d, w) <= age
      BY <1>4, <1>9, <2>1 DEF Store, FoundOK, RequestRecord, Old
    <2>3. Goes(r, "idle", d, NoWorker) /\ Set(d, w)
      BY <1>9, <2>1 DEF Store
    <2>4. Absence(d, w)' \in Nat /\ Absence(d, w)' <= LookupTicks
      BY <1>3, <2>2 DEF Absence, RouterShape, Old
    <2>5. RouterShape'
      <3>1. [worker |-> w, age |-> 0] \in CacheEntry
        BY <2>2 DEF CacheEntry, WorkerOrNone, Old
      <3> QED
        BY <1>1, <1>6, <2>2, <2>3, <3>1 DEF Set, RouterShape
    <2>6. CacheOK'
      <3> SUFFICES ASSUME NEW e \in Deployments, Usable(e)'
                   PROVE  /\ cache'[e].worker \in Workers
                          /\ Absence(e, cache[e].worker)' <= cache'[e].age + LookupTicks
        BY DEF CacheOK
      <3>1. CASE e = d
        <4>1. cache'[d] = [worker |-> w, age |-> 0]
          BY <2>2, <2>3 DEF Set, RouterShape
        <4> QED
          BY <2>2, <2>4, <3>1, <4>1
      <3>2. CASE e # d
        BY <1>3, <2>3, <3>2 DEF Set, RouterShape, CacheOK, Usable
      <3> QED
        BY <3>1, <3>2
    <2> QED
      BY <1>2, <1>6, <2>2, <2>3, <2>5, <2>6
  <1>10. CASE \E d \in Deployments : Receive(r, d)
    BY <1>7, <1>10 DEF Receive
  <1> QED
    BY <1>5, <1>8, <1>9, <1>10 DEF RouterStep, Lookup

LEMMA SpecKeepsIInv == Spec => []IInv
  <1>1. IInv /\ [Next]_vars => IInv'
    <2> SUFFICES ASSUME IInv, [Next]_vars PROVE IInv'
      OBVIOUS
    <2>1. CASE UNCHANGED vars
      BY <2>1 DEF vars, IInv, LifeTypeOK, RouterShape, HostOK, FoundOK, CacheOK, Usable,
                  Absence
    <2> QED
      BY <2>1, LifeKeeps, TickKeeps, RouterKeeps DEF Next
  <1> QED
    BY InitIInv, <1>1, PTL DEF Spec

(***************************************************************************)
(* The router's state keeps its shape.                                     *)
(***************************************************************************)
THEOREM RouterTyped == Spec => []RouterTypeOK
  <1>1. IInv => RouterTypeOK
    BY DEF IInv, FoundOK, RouterTypeOK
  <1> QED
    BY <1>1, SpecKeepsIInv, PTL

LEMMA RecentFollows == IInv => RoutesRecent
  <1> SUFFICES ASSUME IInv, NEW d \in Deployments, NEW w \in Destinations(d)
               PROVE  Absence(d, w) <= TTL + LookupTicks
    BY DEF RoutesRecent
  <1> USE RouterAssumed DEF RouterAssumption, IInv
  <1>1. CASE Usable(d) /\ w = cache[d].worker
    BY <1>1 DEF CacheOK, Usable, RouterShape, CacheEntry, Absence, Old
  <1>2. ASSUME NEW r \in Requests, request[r].pc = "found", request[r].dep = d,
               w = request[r].worker
        PROVE  Absence(d, w) <= TTL + LookupTicks
    BY <1>2 DEF FoundOK, RouterShape, RequestRecord, Absence, Old
  <1> QED
    BY <1>1, <1>2 DEF Destinations

(***************************************************************************)
(* getWorkerIP never sends a request to a worker that has not hosted the   *)
(* deployment for longer than the TTL and a lookup, however often the      *)
(* deployment moves and however many requests look it up.                  *)
(***************************************************************************)
THEOREM RoutesStayRecent == Spec => []RoutesRecent
  BY SpecKeepsIInv, RecentFollows, PTL

=============================================================================
