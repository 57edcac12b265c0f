----------------------------- MODULE PodMetrics -----------------------------
(***************************************************************************)
(* The details of a deployment (service/deployment_details.go): record,    *)
(* metrics and pods are fetched by three goroutines, the pods through the  *)
(* cache of analytics/kubernetes_client.go, which all requests share.      *)
(*                                                                         *)
(* The third goroutine reads the status that the first one assigns, with   *)
(* nothing between them: it sees it or not.  Of pods and resources only    *)
(* their ages count: ticks since kubectl said so.                          *)
(***************************************************************************)
EXTENDS Integers

CONSTANTS
    Requests,    \* requests for the details, at the same time
    PodTTL,      \* cacheTTL
    RequestTicks \* bound: ticks a request takes

VARIABLES
    hosted, \* is the deployment's row running
    kept,   \* the cache entry: its age and those of its halves, or none
    detail  \* per request: its goroutines' places and what they have

podVars == <<hosted, kept, detail>>

\* Not valid any more, and as good as deleted (setCache drops what is older
\* than a minute).
Stale == PodTTL + 1

\* No request takes longer than an entry lives (twelve seconds).
PodAssumption ==
    /\ PodTTL \in Nat /\ RequestTicks \in Nat
    /\ RequestTicks <= PodTTL

ASSUME PodAssumed == PodAssumption

\* No half can be older while it is of use.
Oldest == PodTTL + 4 * RequestTicks + 1

DataAge == 0..Oldest

\* -1 stands for what kubectl did not tell.
Kept == [age : 0..Stale, pods : DataAge, resources : DataAge \cup {-1}]

Detail ==
    [pc : {"idle", "look", "pods", "resources", "store", "done"},
     record : {"unread", "running", "other", "missing"},
     pods : DataAge \cup {-1}, resources : DataAge \cup {-1}, age : 0..RequestTicks]

NoDetail == [pc |-> "idle", record |-> "unread", pods |-> -1, resources |-> -1, age |-> 0]

PodInit ==
    /\ hosted = TRUE
    /\ kept = {}
    /\ detail = [r \in Requests |-> NoDetail]

-----------------------------------------------------------------------------
\* Mutant: an entry is good as long as it is there.
FreshWhileKept == kept

\* getFromCache: the entry, if it is not older than the TTL.
Fresh == {k \in kept : k.age <= PodTTL}

Sets(r, f) == detail' = [detail EXCEPT ![r] = f]

AskDetails(r) ==
    /\ detail[r].pc = "idle"
    /\ Sets(r, [NoDetail EXCEPT !.pc = "look"])
    /\ UNCHANGED <<hosted, kept>>

\* The first goroutine: Get.
ReadRecord(r, found) ==
    /\ detail[r].pc # "idle" /\ detail[r].record = "unread"
    /\ Sets(r, [detail[r] EXCEPT !.record = IF ~found THEN "missing"
                                            ELSE IF hosted THEN "running" ELSE "other"])
    /\ UNCHANGED <<hosted, kept>>

\* The third one: what it reads of the record, and the first look into the cache.
LookForPods(r) ==
    /\ detail[r].pc = "look"
    /\ IF detail[r].record # "running" THEN Sets(r, [detail[r] EXCEPT !.pc = "done"])
       ELSE IF Fresh = {} THEN Sets(r, [detail[r] EXCEPT !.pc = "pods"])
       ELSE \E k \in Fresh : Sets(r, [detail[r] EXCEPT !.pc = "done", !.pods = k.pods,
                                                      !.resources = k.resources])
    /\ UNCHANGED <<hosted, kept>>

\* GetPodMetrics looks again, then asks kubectl.
GetPods(r, ok) ==
    /\ detail[r].pc = "pods"
    /\ IF Fresh # {} THEN \E k \in Fresh : Sets(r, [detail[r] EXCEPT !.pc = "resources", !.pods = k.pods])
       ELSE Sets(r, [detail[r] EXCEPT !.pc = IF ok THEN "resources" ELSE "done",
                                      !.pods = IF ok THEN 0 ELSE -1])
    /\ UNCHANGED <<hosted, kept>>

\* GetResourceAllocation looks once more; without an answer they are empty.
GetResources(r, ok) ==
    /\ detail[r].pc = "resources"
    /\ IF Fresh # {} THEN \E k \in Fresh : Sets(r, [detail[r] EXCEPT !.pc = "store", !.resources = k.resources])
       ELSE Sets(r, [detail[r] EXCEPT !.pc = "store", !.resources = IF ok THEN 0 ELSE -1])
    /\ UNCHANGED <<hosted, kept>>

\* setCache, with a new timestamp also for a half that came from the cache.
StorePods(r) ==
    /\ detail[r].pc = "store"
    /\ kept' = {[age |-> 0, pods |-> detail[r].pods,
                 resources |-> detail[r].resources]}
    /\ Sets(r, [detail[r] EXCEPT !.pc = "done"])
    /\ UNCHANGED hosted

\* wg.Wait is over.
AnswerDetails(r) ==
    /\ detail[r].pc = "done" /\ detail[r].record # "unread"
    /\ Sets(r, NoDetail)
    /\ UNCHANGED <<hosted, kept>>

Turns == hosted' = ~hosted /\ UNCHANGED <<kept, detail>>

Grown(age) == IF age = -1 \/ age = Oldest THEN age ELSE age + 1

PodTick ==
    /\ \A r \in Requests : detail[r].pc # "idle" => detail[r].age < RequestTicks
    /\ detail' = [r \in Requests |->
                     IF detail[r].pc = "idle" THEN detail[r]
                     ELSE [detail[r] EXCEPT !.age = @ + 1, !.pods = Grown(@),
                                            !.resources = Grown(@)]]
    /\ kept' = {[age |-> IF k.age < Stale THEN k.age + 1 ELSE Stale,
                 pods |-> Grown(k.pods), resources |-> Grown(k.resources)] : k \in kept}
    /\ UNCHANGED hosted

=============================================================================
