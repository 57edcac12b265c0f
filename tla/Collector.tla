------------------------------ MODULE Collector ------------------------------
(***************************************************************************)
(* The requests that telemetry recorded, and the metrics that the          *)
(* collector (analytics/collector.go) counts from them in rounds, with the *)
(* statements of store/postgres_analytics.go. Each statement is one step:  *)
(* handlers insert rows while the collector counts. Both tables and the    *)
(* collector exist only when there is a database.                          *)
(*                                                                         *)
(* Of a request, only the deployment and its age matter; it stands for a   *)
(* byte of bandwidth too. The collector's gauges for Prometheus are left   *)
(* out, and so is the CPU and memory usage, which fails like the pods do.  *)
(***************************************************************************)
EXTENDS ResolveCache

VARIABLES
    running,  \* the deployments whose row says running
    here,     \* those whose workload the control plane's own cluster has
    requests, \* deployment_requests: per deployment and age, how many rows
    metrics,  \* deployment_metrics
    round     \* the collector's place in a round and what it has read

placeVars == <<running, here>>

tableVars == <<placeVars, requests, metrics>>

\* Of the last hour, of the last 24, of the last seven days, older.
Ages == {"hour", "day", "week", "old"}

Aged(age) == [hour |-> "day", day |-> "week", week |-> "old"][age]

Metrics == [total : Nat, hour : Nat, day : Nat, bytes : Nat, latency : BOOLEAN, pods : 0..1]

\* GetMetrics of a deployment without a row.
NoMetrics == [total |-> 0, hour |-> 0, day |-> 0, bytes |-> 0, latency |-> FALSE, pods |-> 0]

Round == [pc : {"rest", "total", "first", "second", "bytes", "latency", "write", "cleanup"},
          todo : SUBSET Deployments, dep : Deployments, got : Metrics]

Resting == [pc |-> "rest", todo |-> {}, dep |-> CHOOSE d \in Deployments : TRUE,
            got |-> NoMetrics]

CollectorInit ==
    /\ running \in SUBSET Rows /\ here \in SUBSET Rows
    /\ requests = [d \in Deployments |-> [a \in Ages |-> 0]]
    /\ metrics = [d \in Deployments |-> NoMetrics]
    /\ round = Resting

-----------------------------------------------------------------------------
(* What the queries count: the rows there are *)

LastHour(d) == requests[d]["hour"]

LastDay(d) == LastHour(d) + requests[d]["day"]

Total(d) == LastDay(d) + requests[d]["week"] + requests[d]["old"]

\* RecordRequestBatch: one statement for the rows of a batch.
Inserted(out, age) ==
    [d \in Deployments |->
        [requests[d] EXCEPT ![age] = @ + Cardinality({k \in DOMAIN out : out[k] = d})]]

\* A row gets older; GetRequestCounts has one "now" for its windows.
GrowOld(d, age) ==
    /\ age # "old" /\ requests[d][age] > 0
    /\ round.pc \notin {"first", "second"}
    /\ requests' = [requests EXCEPT ![d][age] = @ - 1, ![d][Aged(age)] = @ + 1]
    /\ UNCHANGED <<placeVars, metrics, round>>

\* The deployment stops running, or starts, on the control plane's cluster or
\* elsewhere: by docker, on an agent's cluster. No workload is ever removed.
Change(d) ==
    /\ d \in Rows
    /\ \/ d \in running /\ running' = running \ {d} /\ UNCHANGED here
       \/ d \notin running /\ running' = running \cup {d} /\ here' \in {here, here \cup {d}}
    /\ UNCHANGED <<requests, metrics, round>>

-----------------------------------------------------------------------------
(* A round *)

\* The ids are random, so their order is any order.
Takes(todo) ==
    \E d \in todo :
        round' = [pc |-> "total", todo |-> todo \ {d}, dep |-> d, got |-> NoMetrics]

Reads(pc, got) == round' = [round EXCEPT !.pc = pc, !.got = got]

\* GetAllActiveDeploymentIDs; on an error, or when nothing runs, the round is
\* over, and with it the clean-up.
BeginRound(ok) ==
    /\ database /\ round.pc = "rest"
    /\ IF ok /\ running # {}
       THEN Takes(running)
       ELSE UNCHANGED round
    /\ UNCHANGED tableVars

\* GetRequestCounts: an error makes all three zero.
NoCounts == Reads("bytes", [round.got EXCEPT !.total = 0, !.hour = 0, !.day = 0])

CountTotal(ok) ==
    /\ round.pc = "total"
    /\ IF ok THEN Reads("first", [round.got EXCEPT !.total = Total(round.dep)]) ELSE NoCounts
    /\ UNCHANGED tableVars

\* Mutant: the other order.
DayFirst == <<"day", "hour">>

WindowOrder == <<"hour", "day">>

CountWindow(k, ok) ==
    /\ round.pc = <<"first", "second">>[k]
    /\ LET w == WindowOrder[k]
           counted == [round.got EXCEPT ![w] = IF w = "hour" THEN LastHour(round.dep)
                                               ELSE LastDay(round.dep)]
       IN IF ok THEN Reads(<<"second", "bytes">>[k], counted) ELSE NoCounts
    /\ UNCHANGED tableVars

\* GetBandwidthStats, CalculatePercentiles: zeros on an error.
SumBytes(ok) ==
    /\ round.pc = "bytes"
    /\ Reads("latency", [round.got EXCEPT !.bytes = IF ok THEN Total(round.dep) ELSE 0])
    /\ UNCHANGED tableVars

Percentiles(ok) ==
    /\ round.pc = "latency"
    /\ Reads("write", [round.got EXCEPT !.latency = ok /\ LastHour(round.dep) > 0])
    /\ UNCHANGED tableVars

NextDeployment ==
    IF round.todo = {} THEN round' = [Resting EXCEPT !.pc = "cleanup"] ELSE Takes(round.todo)

\* Mutant: a deployment's row is written once.
UpdateMetricsOnce(pods, ok) ==
    /\ round.pc = "write"
    /\ metrics' = IF ok /\ metrics[round.dep] = NoMetrics
                  THEN [metrics EXCEPT ![round.dep] = [round.got EXCEPT !.pods = pods]]
                  ELSE metrics
    /\ NextDeployment
    /\ UNCHANGED <<placeVars, requests>>

\* getPodCounts: kubectl asks the cluster of the control plane, whose error
\* about a workload it does not have makes zeros.
PodCounts(d, answered) == IF answered /\ d \in here THEN 1 ELSE 0

\* UpdateMetrics, with the pods that kubectl knows.
UpdateMetrics(pods, ok) ==
    /\ round.pc = "write"
    /\ metrics' = IF ok THEN [metrics EXCEPT ![round.dep] = [round.got EXCEPT !.pods = pods]]
                  ELSE metrics
    /\ NextDeployment
    /\ UNCHANGED <<placeVars, requests>>

\* Mutant: only the rows of running deployments are removed.
CleanupOfRunning(ok) ==
    /\ round.pc = "cleanup"
    /\ requests' = IF ok THEN [d \in Deployments |->
                                 IF d \in running THEN [requests[d] EXCEPT !["old"] = 0]
                                 ELSE requests[d]]
                   ELSE requests
    /\ round' = Resting
    /\ UNCHANGED <<placeVars, metrics>>

\* DELETE of all that is older than seven days.
CleanupOldRequests(ok) ==
    /\ round.pc = "cleanup"
    /\ requests' = IF ok THEN [d \in Deployments |-> [requests[d] EXCEPT !["old"] = 0]]
                   ELSE requests
    /\ round' = Resting
    /\ UNCHANGED <<placeVars, metrics>>

CollectorStatement(ok) ==
    \/ BeginRound(ok)
    \/ CountTotal(ok) \/ CountWindow(1, ok) \/ CountWindow(2, ok)
    \/ SumBytes(ok) \/ Percentiles(ok)
    \/ CleanupOldRequests(ok)

=============================================================================
