------------------------- MODULE AnalyticsProperties -------------------------
(***************************************************************************)
(* What a dashboard may rely on: which deployment a request is counted     *)
(* for, how the numbers of a row fit together, and that they follow the    *)
(* table.                                                                  *)
(***************************************************************************)
EXTENDS Analytics

(***************************************************************************)
(* The shape of the state; the cache never outgrows its capacity, although *)
(* handlers insert after they have looked.                                 *)
(***************************************************************************)
TypeOK ==
    /\ database \in BOOLEAN
    /\ stored \in Seq(Deployments)
    /\ \A i \in DOMAIN cache : i \in Identifiers /\ cache[i] \in Entry
    /\ Cardinality(DOMAIN cache) <= CacheEntries
    /\ post \in [Posts -> PostRecord]
    /\ ago \in [Identifiers -> [Results -> 0..Old]]
    /\ running \subseteq Deployments /\ here \subseteq Deployments
    /\ requests \in [Deployments -> [Ages -> Nat]]
    /\ metrics \in [Deployments -> Metrics]
    /\ round \in Round
    /\ limits \in Limits /\ used \in [Bounded -> Nat]

(***************************************************************************)
(* A request is counted for the deployment its identifier meant, or        *)
(* dropped because it meant none, within the TTL of such an answer and the *)
(* time that two handlers may take: the one that asked and stored the      *)
(* answer, and the one that uses it.  This holds with any interleaving of  *)
(* handlers on the cache, evictions, and answers that are stored late.  A  *)
(* failed statement counts as the answer "none".                           *)
(***************************************************************************)
AnswersRecent ==
    /\ \A i \in DOMAIN cache :
          cache[i].left >= 0 =>
              Since(i, cache[i].answer) <= TTL(cache[i].answer) - cache[i].left + PostTicks
    /\ \A p \in Posts, i \in Identifiers :
          LET a == post[p].local[i]
          IN a # "none" => Since(i, a) <= TTL(a) + PostTicks + post[p].age

(***************************************************************************)
(* A metrics row is counted by several statements while rows are inserted. *)
(* The windows are nested all the same: what is in the last hour is in the *)
(* last day, and unless something failed every request of the total or of  *)
(* the last day has its bytes in the sums.  (The last hour may exceed the  *)
(* total: the total is counted first.)                                     *)
(***************************************************************************)
WindowsNested ==
    \A d \in Deployments :
        /\ metrics[d].hour <= metrics[d].day
        /\ used["faults"] = 0 => metrics[d].total <= metrics[d].bytes /\ metrics[d].day <= metrics[d].bytes

\* What a round that nothing disturbs writes. The total is of the rows that the
\* clean-up has left, where the documents promise one of all time.
Counted(d) ==
    [total |-> Total(d), hour |-> LastHour(d), day |-> LastDay(d), bytes |-> Total(d),
     latency |-> LastHour(d) > 0, pods |-> IF d \in here THEN 1 ELSE 0]

(***************************************************************************)
(* The metrics of a deployment that keeps running come to agree with what  *)
(* the table still has and with what the control plane's cluster runs,     *)
(* whatever failed before: zeros written because a query or kubectl failed *)
(* do not stay. Only the pods of a deployment that runs by docker or on an *)
(* agent's cluster are zero in every round.                                *)
(***************************************************************************)
MetricsConverge ==
    \A d \in Deployments : <>[](d \in running) => <>[](metrics[d] = Counted(d))

(***************************************************************************)
(* Requests older than seven days are removed, of every deployment, as     *)
(* long as at least one deployment is running: without one the round ends  *)
(* before the clean-up.                                                    *)
(***************************************************************************)
OldRequestsGo ==
    <>[](running # {}) => <>[](\A d \in Deployments : requests[d]["old"] = 0)

=============================================================================
