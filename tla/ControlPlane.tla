---------------------------- MODULE ControlPlane ----------------------------
(***************************************************************************)
(* The system in multi-worker mode: the deploy API, the distributor, the   *)
(* embedded worker, the remote agents and the handlers they call, all on   *)
(* one database (control-plane/cmd/control-plane/main.go).                 *)
(*                                                                         *)
(* Failures are drawn from FaultKinds, at most MaxFaults of them:          *)
(*   "crash"     an agent's process dies                                   *)
(*   "restart"   the control plane's process dies and starts again         *)
(*   "partition" a live agent's heartbeats stay away for the timeout       *)
(*   "lost"      a request or a response between agent and API is lost     *)
(*   "sql"       a statement fails and its caller sees the error           *)
(*   "swallowed" a write of a deployments row fails and is only logged     *)
(*   "requeue"   the same for the write in requeueDeployment               *)
(***************************************************************************)
EXTENDS Distributor, WorkerAgents, LocalWorker

CONSTANTS
    FaultKinds, MaxFaults,
    BuildOutlastsPlacement \* timing: no build ends while the distributor is
                           \* still between assigning its job and recording it

VARIABLES
    api,   \* per deployment: how far the deploy request has got
    faults \* failures so far

vars == <<jobs, workers, deployments, dist, cooling, agent, heartbeat, report,
          local, api, faults>>

ControlPlaneAssumption ==
    /\ MaxFaults \in Nat
    /\ BuildOutlastsPlacement \in BOOLEAN

ASSUME ControlPlaneAssumed == ControlPlaneAssumption

Init ==
    /\ JobsInit
    /\ WorkersInit
    /\ DeploymentsInit
    /\ DistInit
    /\ AgentsInit
    /\ LocalInit
    /\ api = [d \in Deployments |-> "new"]
    /\ faults = 0

-----------------------------------------------------------------------------
Fault(kind) ==
    /\ kind \in FaultKinds
    /\ faults < MaxFaults
    /\ faults' = faults + 1

\* A statement succeeds, or its failure counts as a fault of that kind.
Outcome(done, kind) == IF done THEN UNCHANGED faults ELSE Fault(kind)

\* The distributor is between AssignToWorker and the end of the tick for j.
Placing(j) == dist.job = j /\ dist.pc \in {"count", "release", "read", "record"}

MayEnd(j) == BuildOutlastsPlacement => ~Placing(j)

-----------------------------------------------------------------------------
(* DeploymentService.EnqueueDeploy: the row first, then the job. *)

StoreDeployment(d, stored) ==
    /\ api[d] = "new"
    /\ StartDeployment(d, stored)
    /\ api' = [api EXCEPT ![d] = "stored"]
    /\ UNCHANGED <<jobs, workers>>

EnqueueDeployment(d, done) ==
    /\ api[d] = "stored"
    /\ IF done THEN \E j \in Jobs : Enqueue(j, d) ELSE UNCHANGED jobs
    /\ api' = [api EXCEPT ![d] = "answered"]
    /\ UNCHANGED <<workers, deployments>>

ApiStep(d) ==
    \E done \in BOOLEAN :
        \/ StoreDeployment(d, done) /\ Outcome(done, "swallowed")
        \/ EnqueueDeployment(d, done) /\ Outcome(done, "sql")

-----------------------------------------------------------------------------
DistributorStep ==
    \/ /\ \/ HealthScan
          \/ ListOffline
          \/ ListFailover
          \/ ListScores
          \/ ListRebalance
          \/ PickWorker
       /\ UNCHANGED faults
    \/ \E done \in BOOLEAN :
          \/ RegisterControlPlane(done) /\ Outcome(done, "sql")
          \/ \E w \in RemoteWorkers : MarkStaleOffline(w, done) /\ Outcome(done, "sql")
          \/ ReadDeployment(done) /\ Outcome(done, "sql")
          \/ AssignJob(done) /\ Outcome(done, "sql")
          \/ CountJob(done) /\ Outcome(done, "sql")
          \/ ReleaseJob(done) /\ Outcome(done, "sql")
          \/ RecordAssignment(done) /\ Outcome(done, "swallowed")
          \/ RequeueJob(done) /\ Outcome(done, "sql")
          \/ \E d \in Deployments : RequeueDeployment(d, done) /\ Outcome(done, "requeue")

AgentStep(w) ==
    \/ /\ \/ AgentStart(w)
          \/ ReceiveResponse(w)
       /\ UNCHANGED faults
    \/ \E delivered \in BOOLEAN :
          \/ Claim(w, delivered) /\ Outcome(delivered, "lost")
          \/ \E ok \in BOOLEAN :
                /\ MayEnd(agent[w].job)
                /\ FinishJob(w, ok, delivered)
                /\ Outcome(delivered, "lost")

HeartbeatStep(w) ==
    \/ SendHeartbeat(w) /\ UNCHANGED faults
    \/ \E done \in BOOLEAN :
          /\ ApplyHeartbeat(w, done)
          /\ IF agent[w].pc = "down" THEN UNCHANGED faults ELSE Outcome(done, "sql")

ReportStep(j) ==
    \E done \in BOOLEAN :
        \/ /\ MarkReported(j, done) \/ DecrementReported(j, done)
           /\ IF Abandoned(j) THEN UNCHANGED faults ELSE Outcome(done, "sql")
        \/ SettleReported(j, done) /\ Outcome(done, "swallowed")

LocalStep ==
    \/ LocalClaim /\ UNCHANGED faults
    \/ \E done \in BOOLEAN :
          \/ LocalFetch(done) /\ Outcome(done, "sql")
          \/ LocalBegin(done) /\ Outcome(done, "swallowed")
          \/ /\ MayEnd(local.job)
             /\ \E ok \in BOOLEAN : LocalBuilt(ok, done)
             /\ Outcome(done, "swallowed")
          \/ LocalSettle(done) /\ Outcome(done, "swallowed")
          \/ LocalMark(done) /\ Outcome(done, "sql")
          \/ LocalRelease(done) /\ Outcome(done, "sql")

LocalLogs == \E done \in BOOLEAN : LocalProgress(done) /\ Outcome(done, "swallowed")

\* Silence is certain once the agent is down; a live one is silent only
\* while the network keeps its heartbeats away.
Silence(w) ==
    /\ HeartbeatExpires(w)
    /\ Outcome(agent[w].pc = "down", "partition")

Crash(w) == AgentCrash(w) /\ Fault("crash")

Timeout(w) == ResponseTimeout(w) /\ Fault("lost")

\* Everything the process kept in memory is gone: the distributor starts
\* over, the embedded worker forgets its job, the requests being handled end.
Restart ==
    /\ Fault("restart")
    /\ dist' = Boot
    /\ cooling' = {}
    /\ local' = LocalIdle
    /\ api' = [d \in Deployments |-> IF api[d] = "stored" THEN "answered" ELSE api[d]]
    /\ heartbeat' = [w \in RemoteWorkers |-> "none"]
    /\ report' = [j \in Jobs |-> IF ReportPending(j) THEN [report[j] EXCEPT !.pc = "over"]
                                 ELSE report[j]]
    /\ UNCHANGED <<jobs, workers, deployments, agent>>

-----------------------------------------------------------------------------
(* Each process, with what it leaves alone. *)

ApiNext(d) == ApiStep(d) /\ UNCHANGED <<distVars, agentVars, local>>

DistributorNext == DistributorStep /\ UNCHANGED <<agentVars, local, api>>

CooldownNext == /\ \E d \in Deployments : CooldownElapses(d)
                /\ UNCHANGED <<agentVars, local, api, faults>>

AgentNext(w) == AgentStep(w) /\ UNCHANGED <<distVars, local, api>>

HeartbeatNext(w) == HeartbeatStep(w) /\ UNCHANGED <<distVars, local, api>>

ReportNext(j) == ReportStep(j) /\ UNCHANGED <<distVars, local, api>>

LocalNext == LocalStep /\ UNCHANGED <<distVars, agentVars, api>>

LocalLogsNext == LocalLogs /\ UNCHANGED <<distVars, agentVars, api>>

SilenceNext(w) == Silence(w) /\ UNCHANGED <<distVars, local, api>>

CrashNext(w) == Crash(w) /\ UNCHANGED <<distVars, local, api>>

TimeoutNext(w) == Timeout(w) /\ UNCHANGED <<distVars, local, api>>

Next ==
    \/ \E d \in Deployments : ApiNext(d)
    \/ DistributorNext
    \/ CooldownNext
    \/ \E w \in RemoteWorkers :
          AgentNext(w) \/ HeartbeatNext(w) \/ SilenceNext(w) \/ CrashNext(w) \/ TimeoutNext(w)
    \/ \E j \in Jobs : ReportNext(j)
    \/ LocalNext
    \/ LocalLogsNext
    \/ Restart

Spec == Init /\ [][Next]_vars

-----------------------------------------------------------------------------
(* Goroutines keep running, handlers answer, builds end, each agent is     *)
(* started once, a dead agent's last heartbeat grows too old. Nothing      *)
(* brings a crashed agent back, and nobody has to send a deploy request.   *)

Fairness ==
    /\ \A d \in Deployments : WF_vars(api[d] = "stored" /\ ApiNext(d))
    /\ WF_vars(DistributorNext)
    /\ \A w \in RemoteWorkers :
          /\ WF_vars((agent[w].pc = "down" => workers[w].status = "absent") /\ AgentNext(w))
          /\ WF_vars(HeartbeatNext(w))
          /\ WF_vars(agent[w].pc = "down" /\ SilenceNext(w))
    /\ \A j \in Jobs : WF_vars(ReportNext(j))
    /\ WF_vars(LocalNext)

FairSpec == Spec /\ Fairness

=============================================================================
