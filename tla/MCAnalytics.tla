----------------------------- MODULE MCAnalytics -----------------------------
(* A small instance of Analytics for TLC: two deployments of one name, the *)
(* second stored after the first has failed.                               *)
EXTENDS AnalyticsProperties

CONSTANTS app, d1, d2, p1, p2

MCNameOf == [d \in {d1, d2} |-> app]
MCBatches == {<<app>>, <<d1>>, <<d2>>}

Most(posts, ticks, changes, agings, faults) ==
    [posts |-> posts, ticks |-> ticks, changes |-> changes, agings |-> agings, faults |-> faults]

\* The cache in memory, the cache with a database, the collector over two
\* deployments, the collector with a failure and a change of what runs.
MCLimits ==
    {[database |-> FALSE, posts |-> {p1, p2}, batches |-> {<<app>>}, before |-> <<>>,
      most |-> Most(2, 2, 0, 0, 1)],
     [database |-> TRUE, posts |-> {p1, p2}, batches |-> {<<app>>}, before |-> <<>>,
      most |-> Most(2, 2, 0, 0, 1)],
     [database |-> TRUE, posts |-> {p1}, batches |-> {<<d1>>, <<d2>>}, before |-> <<d1, d2>>,
      most |-> Most(2, 0, 0, 2, 0)],
     [database |-> TRUE, posts |-> {p1}, batches |-> {<<d1>>}, before |-> <<d1>>,
      most |-> Most(1, 0, 1, 2, 1)]}

=============================================================================
