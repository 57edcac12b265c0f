------------------------------ MODULE Analytics ------------------------------
(***************************************************************************)
(* The telemetry handlers with their cache, the tables they insert into    *)
(* and the collector that counts from them, in one control plane           *)
(* (cmd/control-plane/main.go). Without a database only the handlers and   *)
(* their cache are left.                                                   *)
(***************************************************************************)
EXTENDS Collector

CONSTANT Limits \* bounds: each behaviour is within one of these

VARIABLES
    limits, \* the bounds of this behaviour
    used    \* what was used of them

collectorVars == <<placeVars, requests, metrics, round>>

vars == <<resolveVars, collectorVars, limits, used>>

\* Posts, ticks, deployments that start or stop running, requests that are or
\* get older than an hour and so on, failures of the environment.
Bounded == {"posts", "ticks", "changes", "agings", "faults"}

AnalyticsAssumption ==
    \A l \in Limits :
        /\ l.database \in BOOLEAN /\ l.posts \subseteq Posts /\ l.batches \subseteq Batches
        /\ l.before \in Seq(Deployments) /\ Cardinality({l.before[k] : k \in DOMAIN l.before}) <= CacheEntries
        /\ l.most \in [Bounded -> Nat]

ASSUME AnalyticsAssumed == AnalyticsAssumption

Init ==
    /\ limits \in Limits
    /\ ResolveInit(limits.before) /\ CollectorInit
    /\ database = limits.database
    /\ used = [k \in Bounded |-> 0]

Use(k) ==
    /\ used[k] < limits.most[k]
    /\ used' = [used EXCEPT ![k] = @ + 1]
    /\ UNCHANGED limits

UseNothing == UNCHANGED <<limits, used>>

\* In memory no statement fails.
Outcome(ok) == IF ok THEN UseNothing ELSE database /\ Use("faults")

-----------------------------------------------------------------------------
(* The handlers *)

Arrives(p) ==
    /\ p \in limits.posts
    /\ \E batch \in limits.batches : Receive(p, batch)
    /\ Use("posts")
    /\ UNCHANGED collectorVars

Resolves(p) ==
    /\ \/ CacheStep(p) /\ UseNothing
       \/ \E ok \in BOOLEAN : Lookup(p, ok) /\ Outcome(ok)
    /\ UNCHANGED collectorVars

\* RecordRequestBatch, when there is a repository: the rows are of the last
\* hour unless the payloads have an older timestamp.
Records(p) ==
    /\ Recorded(p)
    /\ \/ database /\ \E age \in Ages :
             /\ IF age = "hour" THEN UseNothing ELSE Use("agings")
             /\ requests' = Inserted(post[p].out, age)
       \/ requests' = requests /\ Outcome(~database)
    /\ UNCHANGED <<placeVars, metrics, round>>

-----------------------------------------------------------------------------
Collects ==
    /\ \/ \E ok \in BOOLEAN : CollectorStatement(ok) /\ Outcome(ok)
       \/ \E ok, answered \in BOOLEAN :
             UpdateMetrics(PodCounts(round.dep, answered), ok) /\ Outcome(ok /\ answered)
    /\ UNCHANGED resolveVars

-----------------------------------------------------------------------------
(* The deployments, the clock, the process *)

Stores(d) == Store(d) /\ UseNothing /\ UNCHANGED collectorVars

Changes(d) == database /\ Change(d) /\ Use("changes") /\ UNCHANGED resolveVars

Ticks == Tick /\ Use("ticks") /\ UNCHANGED collectorVars

GrowsOld(d) == (\E age \in Ages : GrowOld(d, age)) /\ Use("agings") /\ UNCHANGED resolveVars

Restart == Forget /\ round' = Resting /\ Use("faults") /\ UNCHANGED tableVars

Next ==
    \/ \E p \in Posts : Arrives(p) \/ Resolves(p) \/ Records(p)
    \/ Collects
    \/ \E d \in Deployments : Stores(d) \/ Changes(d) \/ GrowsOld(d)
    \/ Ticks
    \/ Restart

Spec == Init /\ [][Next]_vars

\* The collector's ticker. Nothing else has to happen, failures neither.
FairSpec == Spec /\ WF_vars(Collects /\ UNCHANGED used)

=============================================================================
