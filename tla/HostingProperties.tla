-------------------------- MODULE HostingProperties --------------------------
(***************************************************************************)
(* What a user may rely on between a deploy request and the subdomain it   *)
(* got, and what not.                                                      *)
(***************************************************************************)
EXTENDS Hosting

(***************************************************************************)
(* The shape of rows, requests, jobs under way and workloads.              *)
(***************************************************************************)
TypeOK ==
    /\ config \in Config
    /\ deployments \in [Deployments -> Row]
    /\ jobs \in [Deployments -> {"none", "queued", "running", "done", "failed"}]
    /\ line \in Seq(Deployments)
    /\ request \in [Deployments -> Request]
    /\ run \in [Hosts -> RunRecord]
    /\ namespace \in [Hosts -> BOOLEAN]
    /\ workload \in [Hosts -> [Deployments -> Workload]]
    /\ owner \in [Deployments -> Hosts \cup {NoHost}]
    /\ moves \in 0..MaxMoves
    /\ faults \in [FaultKinds -> Nat]

-----------------------------------------------------------------------------
Live(d) == deployments[d].status \in {"queued", "deploying", "running"}

\* Each name was checked on a list without the other's row: the requests
\* overlapped, or a List failed.
Overlapped(d, e) == d \notin request[e].listed /\ e \notin request[d].listed

\* The name was cut behind a hyphen, which the runtime takes off later.
Cut(d) == RouteOf(request[d].name) # request[d].name

(***************************************************************************)
(* isSubdomainUnique reads the rows and the row is stored later, without a *)
(* unique index: two deployments that have not failed share a subdomain    *)
(* only if neither saw the other's row, or if the name was cut.  A name    *)
(* given back by a failed deployment never clashes with it again, since    *)
(* no failed deployment comes back.                                        *)
(***************************************************************************)
NamesShared ==
    \A d, e \in Deployments :
        d # e /\ Live(d) /\ Live(e) /\ deployments[d].name = deployments[e].name =>
            Overlapped(d, e) \/ Cut(d) \/ Cut(e)

(***************************************************************************)
(* On one platform two workloads claim the same host name only for the     *)
(* same reasons, or because a row is failed or lost while its workload is  *)
(* still there: no code removes a workload, not after a failed apply or    *)
(* rollout (runtime/kubernetes_driver.go deployRepo), not when a store in  *)
(* memory is lost.                                                         *)
(***************************************************************************)
RoutesShared ==
    \A h \in Hosts : \A d, e \in Deployments :
        /\ d # e
        /\ workload[h][d].route # NoName
        /\ workload[h][d].route = workload[h][e].route
        => \/ Overlapped(d, e) \/ Cut(d) \/ Cut(e)
           \/ ~Live(d) \/ ~Live(e)

(***************************************************************************)
(* A running row is served: its owner's platform has the workload, up,     *)
(* under the subdomain the row shows, whichever runtime put it there and   *)
(* however often it was moved.                                             *)
(***************************************************************************)
OwnerServes ==
    \A d \in Deployments :
        deployments[d].status = "running" =>
            /\ owner[d] # NoHost
            /\ workload[owner[d]][d].state = "ready"
            /\ workload[owner[d]][d].route = deployments[d].name

(***************************************************************************)
(* Without kubectl failures every deployment that runs in the control      *)
(* plane's cluster is autoscaled where that is switched on: whatever       *)
(* bounds Deploy and Normalize let pass, the autoscaler's guards accept.   *)
(***************************************************************************)
RunningIsScaled ==
    \A d \in Deployments :
        /\ deployments[d].status = "running" /\ owner[d] = ControlPlaneHost
        /\ config.hpa /\ config.backend = "kubernetes" /\ faults["kubectl"] = 0
        => workload[ControlPlaneHost][d].scaled

(***************************************************************************)
(* runKubectlWithRetry: an agent's job does not fail for what its own      *)
(* unanswered tries did. It gives up an API server out of reach only after *)
(* three failures; it is refused something only when the server refuses a  *)
(* command for reasons of its own or the host name is invalid, never       *)
(* because a namespace or an object that an earlier try made is there; and *)
(* it fails for a rollout only when all that it applied is there.          *)
(***************************************************************************)
RetriesSuffice ==
    \A h \in AgentHosts :
        run[h].pc = "ended" =>
            /\ run[h].error = "unreachable" => faults["kubectl"] >= 3
            /\ run[h].error = "refused" => faults["refused"] > 0 \/ ~RouteValid(h)
            /\ run[h].error = "platform" =>
                  /\ namespace[h]
                  /\ Current(h).state # "none"
                  /\ Current(h).route = HostRoute(h)

-----------------------------------------------------------------------------
\* A process died or a statement failed: a deployment may be left behind.
Disturbed == faults["restart"] + faults["sql"] + faults["swallowed"] > 0

(***************************************************************************)
(* Every deployment that is queued or deploying comes to run or to fail,   *)
(* whatever kubectl and the pods do.                                       *)
(***************************************************************************)
EventuallyBuilt ==
    \A d \in Deployments :
        deployments[d].status \in {"queued", "deploying"}
            ~> deployments[d].status \in {"running", "failed"} \/ Disturbed

=============================================================================
