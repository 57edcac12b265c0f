----------------------------- MODULE MeshRouter -----------------------------
(***************************************************************************)
(* The edge router (tools/mesh-router/main.go): it sends each request for  *)
(* a deployment to the worker that runs it, which it looks up in the       *)
(* database and keeps in a cache for TTL ticks.                            *)
(*                                                                         *)
(* The deployments move meanwhile. What the router can see of them is the  *)
(* abstract Lifecycle that the control plane implements: the row says      *)
(* "running" when the phase is "up", and its owner is the host.            *)
(***************************************************************************)
EXTENDS Lifecycle, Integers

CONSTANTS
    Requests,    \* the requests the router handles at the same time
    TTL,         \* ticks an entry of the cache is valid
    LookupTicks  \* bound: ticks between a request's query and its cache.Set

VARIABLES
    cache,   \* RouterCache.items: the worker, and the ticks since Set
    request, \* where each request is and what it has found
    since    \* history: ticks since each worker hosted each deployment

vars == <<phase, host, cache, request, since>>

RouterAssumption ==
    /\ TTL \in Nat
    /\ LookupTicks \in Nat \ {0}
    /\ NoWorker \notin Workers

ASSUME RouterAssumed == RouterAssumption

WorkerOrNone == Workers \cup {NoWorker}

\* Ages beyond this one need not be told apart.
Old == TTL + LookupTicks + 1

CacheEntry == [worker : WorkerOrNone, age : 0..Old]

RequestRecord ==
    [pc : {"idle", "query", "found"},
     dep : Deployments, worker : WorkerOrNone, age : 0..Old]

Older(age) == IF age < Old THEN age + 1 ELSE Old

RouterInit ==
    /\ cache = [d \in Deployments |-> [worker |-> NoWorker, age |-> Old]]
    /\ request \in [Requests -> {[pc |-> "idle", dep |-> d, worker |-> NoWorker, age |-> 0] :
                                    d \in Deployments}]
    /\ since = [d \in Deployments |-> [w \in Workers |-> Old]]

Init == LifeInit /\ RouterInit

-----------------------------------------------------------------------------
\* Mutant: an entry never expires.
UsableForEver(d) == cache[d].worker # NoWorker

\* RouterCache.Get: an entry that has not expired.
Usable(d) == cache[d].worker # NoWorker /\ cache[d].age <= TTL

Set(d, w) == cache' = [cache EXCEPT ![d] = [worker |-> w, age |-> 0]]

Goes(r, pc, d, w) ==
    request' = [request EXCEPT ![r] = [pc |-> pc, dep |-> d, worker |-> w, age |-> 0]]

\* Mutant: a hit renews the entry.
ReceiveRenewing(r, d) ==
    /\ request[r].pc = "idle"
    /\ IF Usable(d) THEN Set(d, cache[d].worker) /\ UNCHANGED request
       ELSE Goes(r, "query", d, NoWorker) /\ UNCHANGED cache

\* A request arrives; one whose entry is usable is sent on at once.
Receive(r, d) ==
    /\ request[r].pc = "idle"
    /\ ~Usable(d)
    /\ Goes(r, "query", d, NoWorker)
    /\ UNCHANGED cache

\* Mutant: the owner of a row in any status.
QueryAnyStatus(r) ==
    /\ request[r].pc = "query"
    /\ Goes(r, "found", request[r].dep, host[request[r].dep])
    /\ UNCHANGED cache

\* The query: a running deployment's owner, or 404. A failed one is not kept.
\* A worker stands for the address it is reached at: its tailscale_ip, or
\* 127.0.0.1 for the embedded one. Agents without an IP are not modelled.
Query(r) ==
    /\ request[r].pc = "query"
    /\ LET d == request[r].dep
       IN IF phase[d] = "up" THEN Goes(r, "found", d, host[d])
          ELSE Goes(r, "idle", d, NoWorker)
    /\ UNCHANGED cache

\* cache.Set, with what the query returned a while ago; the request is sent.
Store(r) ==
    /\ request[r].pc = "found"
    /\ Set(request[r].dep, request[r].worker)
    /\ Goes(r, "idle", request[r].dep, NoWorker)

Lookup(r) == Query(r) \/ Store(r)

-----------------------------------------------------------------------------
\* Time passes, and not more than LookupTicks of it for a lookup.
Tick ==
    /\ \A r \in Requests : request[r].pc = "found" => request[r].age < LookupTicks
    /\ cache' = [d \in Deployments |-> [cache[d] EXCEPT !.age = Older(@)]]
    /\ request' = [r \in Requests |->
           IF request[r].pc = "found" THEN [request[r] EXCEPT !.age = Older(@)]
           ELSE request[r]]
    /\ since' = [d \in Deployments |-> [w \in Workers |->
           IF phase[d] = "up" /\ host[d] = w THEN 0 ELSE Older(since[d][w])]]
    /\ UNCHANGED lifeVars

\* A deployment that moves: its host was the host until now.
LifeStep ==
    /\ LifeNext
    /\ since' = [d \in Deployments |-> [w \in Workers |->
           IF phase[d] = "up" /\ host[d] = w THEN 0 ELSE since[d][w]]]
    /\ UNCHANGED <<cache, request>>

RouterStep(r) ==
    /\ Lookup(r) \/ \E d \in Deployments : Receive(r, d)
    /\ UNCHANGED <<lifeVars, since>>

Next ==
    \/ LifeStep
    \/ Tick
    \/ \E r \in Requests : RouterStep(r)

Spec == Init /\ [][Next]_vars

\* The clock runs and queries return. Nobody has to send a request.
Fairness ==
    /\ WF_vars(Tick)
    /\ \A r \in Requests : WF_vars(Lookup(r) /\ UNCHANGED <<lifeVars, since>>)

FairSpec == Spec /\ Fairness

-----------------------------------------------------------------------------
(***************************************************************************)
(* The shape of the router's state; a lookup that has found a row has      *)
(* found a worker, since getWorkerIP selects running rows only.            *)
(***************************************************************************)
RouterShape ==
    /\ cache \in [Deployments -> CacheEntry]
    /\ request \in [Requests -> RequestRecord]
    /\ since \in [Deployments -> [Workers -> 0..Old]]

RouterTypeOK ==
    /\ RouterShape
    /\ \A r \in Requests : request[r].pc = "found" => request[r].worker \in Workers

\* Ticks since w hosted d, 0 while it does.
Absence(d, w) == IF phase[d] = "up" /\ host[d] = w THEN 0 ELSE since[d][w]

\* Where a request for d can be sent now.
Destinations(d) ==
    (IF Usable(d) THEN {cache[d].worker} ELSE {})
    \cup {request[r].worker : r \in {q \in Requests :
              request[q].pc = "found" /\ request[q].dep = d}}

(***************************************************************************)
(* main wants a cache that reacts quickly to failovers, within its TTL. A  *)
(* lookup stores what it read before the deployment moved, so the bound is *)
(* the TTL and the duration of a lookup: whomever a request is sent to has *)
(* hosted its deployment within that time.                                 *)
(***************************************************************************)
RoutesRecent ==
    \A d \in Deployments : \A w \in Destinations(d) :
        Absence(d, w) <= TTL + LookupTicks

(***************************************************************************)
(* Once a deployment stays where it is, requests for it go nowhere else,   *)
(* whatever late lookups have put over newer entries.                      *)
(***************************************************************************)
RoutesConverge ==
    \A d \in Deployments : \A w \in Workers :
        <>[](phase[d] = "up" /\ host[d] = w) => <>[](Destinations(d) \subseteq {w})

=============================================================================
