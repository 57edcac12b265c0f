----------------------------- MODULE Distributor -----------------------------
(***************************************************************************)
(* JobDistributor (control-plane/internal/service/distributor.go): one     *)
(* goroutine that at each tick marks silent workers offline, re-queues the *)
(* deployments of offline workers, re-queues the deployments a better      *)
(* worker could run, and assigns one queued job.                           *)
(*                                                                         *)
(* Every statement it sends to the database is a step of its own, so the   *)
(* workers and the HTTP handlers run between any two of them; what the     *)
(* goroutine remembers from one statement to the next is in dist.  A       *)
(* parameter done (stored) is FALSE when the statement fails.              *)
(***************************************************************************)
EXTENDS JobStore, DeploymentStore, Placement

VARIABLES
    dist,    \* the goroutine: where it is and its local variables
    cooling  \* deployments whose lastShiftByDeploy is within the cooldown

distVars == <<dist, cooling>>

DistRecord ==
    [pc : {"boot", "health", "mark", "failover", "requeue", "enqueue", "rebalance",
           "assign", "count", "release", "read", "record"},
     loop : {"failover", "rebalance"},    \* the caller of requeueDeployment
     wset : SUBSET Workers,               \* workers picked from a List
     dset : SUBSET Deployments,           \* deployments of a List still to re-queue
     dep : DeploymentOrNone,              \* the deployment being re-queued
     job : JobOrNone, target : WorkerOrNone,  \* the assignment being made
     seen : DeploymentStatus]             \* the status Get returned

\* Between two ticks nothing is remembered but cooling.
AtRest ==
    [pc |-> "health", loop |-> "failover", wset |-> {}, dset |-> {},
     dep |-> NoDeployment, job |-> NoJob, target |-> NoWorker, seen |-> "absent"]

Boot == IF ControlPlaneAsWorker THEN [AtRest EXCEPT !.pc = "boot"] ELSE AtRest

DistInit == dist = Boot /\ cooling = {}

At(pc) == dist.pc = pc

-----------------------------------------------------------------------------
(* registerControlPlaneAsWorker: also after a restart, when its earlier    *)
(* jobs may still be assigned to it.                                       *)

RegisterControlPlane(done) ==
    /\ At("boot")
    /\ IF done THEN Register(ControlPlaneWorker) ELSE UNCHANGED workers
    /\ dist' = AtRest
    /\ UNCHANGED <<jobs, deployments, cooling>>

-----------------------------------------------------------------------------
(* reconcileWorkerHealth *)

\* Mutant: a busy worker is taken for a live one.
HealthScanIdle ==
    /\ At("health")
    /\ dist' = [dist EXCEPT
           !.pc = "mark",
           !.wset = {w \in RemoteWorkers : workers[w].status = "idle" /\ ~workers[w].fresh}]
    /\ UNCHANGED <<jobs, workers, deployments, cooling>>

HealthScan ==
    /\ At("health")
    /\ dist' = [dist EXCEPT
           !.pc = "mark",
           !.wset = {w \in RemoteWorkers : Online(w) /\ ~workers[w].fresh}]
    /\ UNCHANGED <<jobs, workers, deployments, cooling>>

MarkStaleOffline(w, done) ==
    /\ At("mark")
    /\ w \in dist.wset
    /\ IF done THEN MarkOffline(w) ELSE UNCHANGED workers
    /\ dist' = [dist EXCEPT !.wset = @ \ {w}]
    /\ UNCHANGED <<jobs, deployments, cooling>>

-----------------------------------------------------------------------------
(* reconcileOfflineDeployments and reconcileRebalance: a List of the       *)
(* workers, then a List of the deployments, then requeueDeployment for     *)
(* each one that qualifies.                                                *)

\* Bound: a deployment is moved at most MaxMoves times.
MayMove(d) == Cardinality(JobsOf(d)) <= MaxMoves

ListOffline ==
    /\ At("mark")
    /\ dist.wset = {}
    /\ dist' = [dist EXCEPT
           !.pc = "failover",
           !.wset = {w \in Workers : workers[w].status = "offline"}]
    /\ UNCHANGED <<jobs, workers, deployments, cooling>>

\* Mutant: whatever the status of the deployment.
ListFailoverAnyStatus ==
    /\ At("failover")
    /\ dist' = [dist EXCEPT
           !.pc = "requeue",
           !.loop = "failover",
           !.wset = {},
           !.dset = {d \in Deployments :
                        deployments[d].owner \in dist.wset /\ MayMove(d)}]
    /\ UNCHANGED <<jobs, workers, deployments, cooling>>

ListFailover ==
    /\ At("failover")
    /\ dist' = [dist EXCEPT
           !.pc = "requeue",
           !.loop = "failover",
           !.wset = {},
           !.dset = {d \in Deployments :
                        Running(d) /\ deployments[d].owner \in dist.wset /\ MayMove(d)}]
    /\ UNCHANGED <<jobs, workers, deployments, cooling>>

ListScores ==
    /\ At("requeue")
    /\ dist.loop = "failover"
    /\ dist.dset = {}
    /\ dist' = [dist EXCEPT !.pc = "rebalance", !.wset = Outscored]
    /\ UNCHANGED <<jobs, workers, deployments, cooling>>

ListRebalance ==
    /\ At("rebalance")
    /\ dist' = [dist EXCEPT
           !.pc = "requeue",
           !.loop = "rebalance",
           !.wset = {},
           !.dset = {d \in Deployments \ cooling :
                        Running(d) /\ deployments[d].owner \in dist.wset /\ MayMove(d)}]
    /\ UNCHANGED <<jobs, workers, deployments, cooling>>

\* requeueDeployment, first half: the row goes back to "queued", unowned.
RequeueDeployment(d, stored) ==
    /\ At("requeue")
    /\ d \in dist.dset
    /\ UpdateDeployment(d, "queued", NoWorker, stored)
    /\ dist' = [dist EXCEPT !.pc = "enqueue", !.dset = @ \ {d}, !.dep = d]
    /\ UNCHANGED <<jobs, workers, cooling>>

\* Second half: a job with a fresh id. If it cannot be stored the row stays
\* as it is and the shift is not recorded.
RequeueJob(done) ==
    /\ At("enqueue")
    /\ \/ /\ done
          /\ \E j \in Jobs : Enqueue(j, dist.dep)
          /\ cooling' = cooling \cup {dist.dep}
       \/ ~done /\ UNCHANGED <<jobs, cooling>>
    /\ dist' = [dist EXCEPT !.pc = "requeue", !.dep = NoDeployment]
    /\ UNCHANGED <<workers, deployments>>

CooldownElapses(d) ==
    /\ d \in cooling
    /\ cooling' = cooling \ {d}
    /\ UNCHANGED <<jobs, workers, deployments, dist>>

-----------------------------------------------------------------------------
(* distributeJobs *)

PickWorker ==
    /\ At("requeue")
    /\ dist.loop = "rebalance"
    /\ dist.dset = {}
    /\ \/ \E j \in Jobs :
             /\ GetNextUnassignedJob(j)
             /\ \/ \E w \in Choice(jobs[j].deployment) :
                      dist' = [AtRest EXCEPT !.pc = "assign", !.job = j, !.target = w]
                \/ /\ Choice(jobs[j].deployment) = {}
                   /\ dist' = AtRest
       \/ Unassigned = {} /\ dist' = AtRest
    /\ UNCHANGED <<jobs, workers, deployments, cooling>>

AssignJob(done) ==
    /\ At("assign")
    /\ \/ /\ done
          /\ AssignToWorker(dist.job, dist.target)
          /\ dist' = [dist EXCEPT !.pc = "count"]
       \/ ~done /\ dist' = AtRest /\ UNCHANGED jobs
    /\ UNCHANGED <<workers, deployments, cooling>>

CountJob(done) ==
    /\ At("count")
    /\ \/ /\ done
          /\ IncrementJobCount(dist.target)
          /\ dist' = [dist EXCEPT !.pc = "read"]
       \/ ~done /\ dist' = [dist EXCEPT !.pc = "release"] /\ UNCHANGED workers
    /\ UNCHANGED <<jobs, deployments, cooling>>

ReleaseJob(done) ==
    /\ At("release")
    /\ IF done THEN ReleaseFromWorker(dist.job) ELSE UNCHANGED jobs
    /\ dist' = AtRest
    /\ UNCHANGED <<workers, deployments, cooling>>

ReadDeployment(done) ==
    /\ At("read")
    /\ LET d == jobs[dist.job].deployment
       IN dist' = IF done /\ Stored(d)
                  THEN [dist EXCEPT !.pc = "record", !.seen = deployments[d].status]
                  ELSE AtRest
    /\ UNCHANGED <<jobs, workers, deployments, cooling>>

\* Writes back the row that ReadDeployment saw, with the new owner.
RecordAssignment(stored) ==
    /\ At("record")
    /\ UpdateDeployment(jobs[dist.job].deployment,
                        IF dist.seen = "queued" THEN "deploying" ELSE dist.seen,
                        dist.target, stored)
    /\ dist' = AtRest
    /\ UNCHANGED <<jobs, workers, cooling>>

=============================================================================
