----------------------------- MODULE ResolveCache -----------------------------
(***************************************************************************)
(* Telemetry comes in under a subdomain (or an id): the handlers           *)
(* (httpapi/handlers_telemetry.go) resolve it to a deployment with the     *)
(* lookups of service/deployments.go, and keep the answer in a cache that  *)
(* all requests share: CacheTTL ticks for a deployment, NegativeTTL ticks  *)
(* for "there is none".                                                    *)
(*                                                                         *)
(* RecordDeploymentRequest is a batch of one; the repository resolves the  *)
(* id again there, which finds the same row or fails like its insert.      *)
(* Payloads without an identifier or with a status code out of range are   *)
(* dropped before all this.                                                *)
(***************************************************************************)
EXTENDS Integers, FiniteSets, Sequences

CONSTANTS
    Deployments,
    Names,        \* subdomains
    NameOf,       \* of each deployment; a name is used again after a failure
    Unknown,      \* the answer that no deployment is meant
    Posts,        \* the posts handled at the same time
    Batches,      \* bound: what a post may ask for, sequences of identifiers
    CacheTTL,     \* telemetryResolveCacheTTL
    NegativeTTL,  \* telemetryResolveNegativeTTL
    CacheEntries, \* telemetryResolveMaxCacheEntries
    PostTicks     \* bound: ticks a post is handled

VARIABLES
    database, \* is there a database, or are the rows in memory
    stored,   \* the deployments with a row, in the order they came
    cache,    \* resolveCache: answer and ticks until it expires, or expired
    post,     \* per post: the handler's place and what it has found
    ago       \* history: ticks since an answer was right for an identifier

resolveVars == <<database, stored, cache, post, ago>>

Identifiers == Names \cup Deployments

ResolveAssumption ==
    /\ Deployments # {}
    /\ NameOf \in [Deployments -> Names]
    /\ Names \cap Deployments = {}
    /\ Unknown \notin Identifiers
    /\ Batches \subseteq Seq(Identifiers)
    /\ CacheTTL \in Nat /\ NegativeTTL \in Nat /\ PostTicks \in Nat
    /\ CacheEntries \in Nat \ {0}

ASSUME ResolveAssumed == ResolveAssumption

Results == Deployments \cup {Unknown}

Rows == {stored[k] : k \in DOMAIN stored}

\* Of an answer, in the handlers' calls of setCachedDeploymentID.
TTL(a) == IF a = Unknown THEN NegativeTTL ELSE CacheTTL

\* Ages beyond this one need not be told apart.
Old == (IF CacheTTL > NegativeTTL THEN CacheTTL ELSE NegativeTTL) + 2 * PostTicks + 1

Older(age) == IF age < Old THEN age + 1 ELSE Old

Entry == [answer : Results, left : -1..(CacheTTL + NegativeTTL)]

PostRecord ==
    [pc : {"idle", "next", "evict", "get", "list", "confirm", "store", "storeId"},
     todo : Seq(Identifiers), local : [Identifiers -> Results \cup {"none"}],
     out : Seq(Deployments), got : Results \cup Identifiers, age : 0..PostTicks]

NoPost == [pc |-> "idle", todo |-> <<>>, local |-> [i \in Identifiers |-> "none"],
           out |-> <<>>, got |-> Unknown, age |-> 0]

\* Some deployments may be stored, and known to the cache by their ids.
ResolveInit(before) ==
    /\ database \in BOOLEAN
    /\ stored = before
    /\ cache = [d \in {before[k] : k \in DOMAIN before} |-> [answer |-> d, left |-> CacheTTL]]
    /\ post = [p \in Posts |-> NoPost]
    /\ ago = [i \in Identifiers |-> [a \in Results |-> Old]]

-----------------------------------------------------------------------------
(* The lookups *)

\* ResolveDeploymentID takes the first row of List with that subdomain,
\* whatever its status. Postgres lists the newest first, the repository in
\* memory ranges over a map.
Listed(i) ==
    LET named == {k \in DOMAIN stored : NameOf[stored[k]] = i}
    IN {stored[k] : k \in {k \in named : database => \A j \in named : j <= k}}

\* What would be right now.
Answers(i) ==
    IF i \in Rows THEN {i}
    ELSE IF Listed(i) = {} THEN {Unknown} ELSE Listed(i)

Since(i, a) == IF a \in Answers(i) THEN 0 ELSE ago[i][a]

\* Until now these were right.
Remember == ago' = [i \in Identifiers |-> [a \in Results |-> Since(i, a)]]

\* A statement that fails looks like a row that is not there.
Unanswered(i) == ago' = [ago EXCEPT ![i][Unknown] = 0]

-----------------------------------------------------------------------------
(* The cache *)

Put(i, a) == [k \in DOMAIN cache \cup {i} |->
                 IF k = i THEN [answer |-> a, left |-> TTL(a)] ELSE cache[k]]

\* Mutant: the cache has no limit.
SetCachedUnlimited(i, a) == cache' = Put(i, a)

\* setCachedDeploymentID: a full cache is dropped, even for a key it has.
SetCached(i, a) ==
    cache' = IF Cardinality(DOMAIN cache) >= CacheEntries
             THEN [k \in {i} |-> [answer |-> a, left |-> TTL(a)]]
             ELSE Put(i, a)

\* Mutant: what is unknown is kept until the cache is full.
ExpiredKnown(i) == cache[i].answer # Unknown /\ cache[i].left < 0

\* getCachedDeploymentID: now is after expiresAt
Expired(i) == cache[i].left < 0

Identifier(p) == Head(post[p].todo)

Goes(p, pc, got) == post' = [post EXCEPT ![p].pc = pc, ![p].got = got]

\* The payload is counted, or dropped.
Resolved(p, a) ==
    post' = [post EXCEPT ![p].pc = "next",
                         ![p].todo = Tail(@),
                         ![p].local[Identifier(p)] = a,
                         ![p].out = IF a = Unknown THEN @ ELSE Append(@, a)]

-----------------------------------------------------------------------------
(* The handlers *)

\* A post arrives.
Receive(p, batch) ==
    /\ post[p].pc = "idle"
    /\ post' = [post EXCEPT ![p] = [NoPost EXCEPT !.pc = "next", !.todo = batch]]
    /\ UNCHANGED <<database, stored, cache, ago>>

\* The next payload: the batch's own maps, then the cache (its read lock).
Look(p) ==
    /\ post[p].pc = "next" /\ post[p].todo # <<>>
    /\ LET i == Identifier(p)
       IN IF post[p].local[i] # "none" THEN Resolved(p, post[p].local[i])
          ELSE IF i \notin DOMAIN cache THEN Goes(p, "get", Unknown)
          ELSE IF Expired(i) THEN Goes(p, "evict", Unknown)
          ELSE Resolved(p, cache[i].answer)
    /\ UNCHANGED <<database, stored, cache, ago>>

\* The write lock: the entry is deleted, also one that is new by now.
Evict(p) ==
    /\ post[p].pc = "evict"
    /\ cache' = [k \in DOMAIN cache \ {Identifier(p)} |-> cache[k]]
    /\ Goes(p, "get", Unknown)
    /\ UNCHANGED <<database, stored, ago>>

\* ResolveDeploymentID: Get, then List; without a match the identifier itself.
Get(p, ok) ==
    /\ post[p].pc = "get"
    /\ LET i == Identifier(p)
       IN /\ IF ok /\ i \in Rows THEN Goes(p, "confirm", i) ELSE Goes(p, "list", Unknown)
          /\ IF ok THEN UNCHANGED ago ELSE Unanswered(i)
    /\ UNCHANGED <<database, stored, cache>>

List(p, ok) ==
    /\ post[p].pc = "list"
    /\ LET i == Identifier(p)
       IN /\ IF ok /\ Listed(i) # {} THEN \E d \in Listed(i) : Goes(p, "confirm", d)
             ELSE Goes(p, "confirm", i)
          /\ IF ok THEN UNCHANGED ago ELSE Unanswered(i)
    /\ UNCHANGED <<database, stored, cache>>

\* GetDeployment of what was found.
Confirm(p, ok) ==
    /\ post[p].pc = "confirm"
    /\ Goes(p, "store", IF ok /\ post[p].got \in Rows THEN post[p].got ELSE Unknown)
    /\ IF ok THEN UNCHANGED ago ELSE Unanswered(Identifier(p))
    /\ UNCHANGED <<database, stored, cache>>

\* The answer is kept for the identifier, and then under the id itself.
StoreAnswer(p) ==
    /\ post[p].pc = "store"
    /\ SetCached(Identifier(p), post[p].got)
    /\ IF post[p].got = Unknown THEN Resolved(p, Unknown) ELSE Goes(p, "storeId", post[p].got)
    /\ UNCHANGED <<database, stored, ago>>

StoreId(p) ==
    /\ post[p].pc = "storeId"
    /\ SetCached(post[p].got, post[p].got)
    /\ Resolved(p, post[p].got)
    /\ UNCHANGED <<database, stored, ago>>

\* Lookups that may fail.
Lookup(p, ok) == Get(p, ok) \/ List(p, ok) \/ Confirm(p, ok)

CacheStep(p) == Look(p) \/ Evict(p) \/ StoreAnswer(p) \/ StoreId(p)

\* The batch is recorded and the post answered.
Recorded(p) ==
    /\ post[p].pc = "next" /\ post[p].todo = <<>>
    /\ post' = [post EXCEPT ![p] = NoPost]
    /\ UNCHANGED <<database, stored, cache, ago>>

-----------------------------------------------------------------------------
\* A deployment is stored; no row is ever deleted.
Store(d) ==
    /\ d \notin Rows
    /\ stored' = Append(stored, d)
    /\ Remember
    /\ UNCHANGED <<database, cache, post>>

\* The process starts again.
Forget ==
    /\ cache' = <<>>
    /\ post' = [p \in Posts |-> NoPost]
    /\ stored' = IF database THEN stored ELSE <<>>
    /\ Remember
    /\ UNCHANGED database

\* Time passes, and not more than PostTicks of it for a post.
Tick ==
    /\ \A p \in Posts : post[p].pc # "idle" => post[p].age < PostTicks
    /\ cache' = [i \in DOMAIN cache |->
                    [cache[i] EXCEPT !.left = IF @ < 0 THEN @ ELSE @ - 1]]
    /\ post' = [p \in Posts |-> IF post[p].pc = "idle" THEN post[p]
                                ELSE [post[p] EXCEPT !.age = @ + 1]]
    /\ ago' = [i \in Identifiers |-> [a \in Results |->
                  IF a \in Answers(i) THEN 0 ELSE Older(ago[i][a])]]
    /\ UNCHANGED <<database, stored>>

=============================================================================
