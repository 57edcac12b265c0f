------------------------------- MODULE Hosting -------------------------------
(***************************************************************************)
(* From a deploy request to a workload that serves its subdomain: the      *)
(* deploy API, the queue, the worker that takes a job                      *)
(* (service/worker.go processNext) and the platform it deploys to.         *)
(*                                                                         *)
(* In single-worker mode the process has one worker, which takes the jobs  *)
(* in turn. In multi-worker mode any host takes any job and a running      *)
(* deployment may be queued again; how the control plane arrives at that   *)
(* is the matter of ControlPlane, so a claim and a re-queue are one step.  *)
(*                                                                         *)
(* Failures: "kubectl" a command of an otherwise sound job fails, on an    *)
(* agent for want of an answer, "refused" an agent's API server refuses a  *)
(* command, "sql" a statement fails, "swallowed" a write of a row fails    *)
(* and is only logged, "restart" a process dies; the control plane's       *)
(* starts again.                                                           *)
(***************************************************************************)
EXTENDS Runtime

CONSTANTS
    MultiDeployments, \* bound: those asked for in multi-worker mode
    MaxMoves,  \* bound: how often deployments are queued again
    MaxFaults  \* bound: failures of the environment, in either mode

VARIABLES
    owner,  \* owner_worker_id of the rows
    moves,  \* re-queues so far
    faults  \* failures so far, of each kind

vars == <<config, deployments, jobs, line, request, run, namespace, workload,
          owner, moves, faults>>

FaultKinds == {"kubectl", "refused", "sql", "swallowed", "restart"}

NoHost == NoName

HostingAssumption ==
    /\ MaxMoves \in Nat
    /\ MaxFaults \in [{"single", "multi"} -> Nat]
    /\ NoHost \notin Hosts

ASSUME HostingAssumed == HostingAssumption

Init ==
    /\ config \in Config
    /\ ApiInit
    /\ RuntimeInit
    /\ owner = [d \in Deployments |-> NoHost]
    /\ moves = 0
    /\ faults = [k \in FaultKinds |-> 0]

-----------------------------------------------------------------------------
AllFaults ==
    faults["kubectl"] + faults["refused"] + faults["sql"] + faults["swallowed"] + faults["restart"]

Fault(kind) ==
    /\ AllFaults < MaxFaults[config.mode]
    /\ faults' = [faults EXCEPT ![kind] = @ + 1]

Outcome(done, kind) == IF done THEN UNCHANGED faults ELSE Fault(kind)

Answered(answer) ==
    \/ answer = "taken" /\ UNCHANGED faults
    \/ answer = "none" /\ Fault("kubectl")
    \/ answer = "refused" /\ Fault("refused")

\* In memory no statement fails.
DatabaseOutcome(done, kind) == (done \/ ~InMemory) /\ Outcome(done, kind)

-----------------------------------------------------------------------------
(* The deploy API *)

ApiStep(d) ==
    /\ config.mode = "multi" => d \in MultiDeployments
    /\ \E ok \in BOOLEAN :
          \/ /\ \E package \in Packages, payload \in Payloads, given, envValid \in BOOLEAN,
                   raw \in Raw :
                   Check(d, package, payload, given, raw, envValid, ok)
             /\ DatabaseOutcome(ok, "sql")
          \/ StoreRow(d, ok) /\ DatabaseOutcome(ok, "swallowed")
          \/ StoreJob(d, ok) /\ DatabaseOutcome(ok, "sql")
    /\ UNCHANGED <<config, runtimeVars, owner, moves>>

-----------------------------------------------------------------------------
(* processNext, and what an agent's job does to the same rows. *)

Claim(h, d) ==
    /\ config.mode = "single" => h = ControlPlaneHost
    /\ Idle(h)
    /\ ClaimNext(d)
    /\ run' = [run EXCEPT ![h] = [pc |-> "claimed", dep |-> d, try |-> 1, error |-> "none"]]
    /\ UNCHANGED <<config, deployments, line, request, namespace, workload, owner, moves, faults>>

\* repo.Get fails, or there is no row: the job is over.
LookupFails(h, found) ==
    /\ run[h].pc = "claimed"
    /\ ~found \/ ~Stored(run[h].dep)
    /\ run' = [run EXCEPT ![h].pc = "settled", ![h].error = "lookup"]
    /\ IF Stored(run[h].dep) THEN DatabaseOutcome(found, "sql") ELSE UNCHANGED faults
    /\ UNCHANGED <<config, apiVars, namespace, workload, owner, moves>>

Begin(h, stored) ==
    /\ run[h].pc = "claimed"
    /\ Stored(run[h].dep)
    /\ UpdateRow(run[h].dep, "deploying", NameOf(h), stored)
    /\ DatabaseOutcome(stored, "swallowed")
    /\ Go(h, "prepare")
    /\ UNCHANGED <<config, jobs, line, request, namespace, workload, owner, moves>>

\* The command fails, by itself or because its platform does.
Command(h) ==
    \/ UNCHANGED faults /\ (\E ok \in BOOLEAN : Prepare(h, ok) \/ DockerRun(h, ok) \/ Rollout(h, ok))
    \/ \E ok \in BOOLEAN :
          /\ EnsureNamespace(h, ok) \/ Apply(h, ok) \/ Autoscale(h, ok)
          /\ Outcome(ok, "kubectl")
    \/ \E answer \in Answers :
          /\ GetNamespace(h, answer) \/ CreateNamespace(h, answer) \/ AgentApply(h, answer)
          /\ Answered(answer)
    \/ \E reached, ok \in BOOLEAN :
          AgentRollout(h, reached, ok) /\ Outcome(reached, "kubectl")

Execute(h) == Command(h) /\ UNCHANGED <<config, apiVars, owner, moves>>

\* The outcome, with the name the driver returned.
Settle(h, stored) ==
    /\ run[h].pc = "ended"
    /\ LET d == run[h].dep
           ok == run[h].error = "none"
       IN /\ UpdateRow(d, IF ok THEN "running" ELSE "failed",
                       IF ok /\ h = ControlPlaneHost THEN RouteOf(NameOf(h)) ELSE NameOf(h), stored)
          /\ owner' = IF stored THEN [owner EXCEPT ![d] = h] ELSE owner
    /\ DatabaseOutcome(stored, "swallowed")
    /\ run' = [run EXCEPT ![h].pc = "settled"]
    /\ UNCHANGED <<config, jobs, line, request, namespace, workload, moves>>

\* MarkDone or MarkFailed, whose error is ignored.
Mark(h, done) ==
    /\ run[h].pc = "settled"
    /\ jobs' = IF ~done THEN jobs
               ELSE [jobs EXCEPT ![run[h].dep] =
                        IF run[h].error = "none" THEN "done" ELSE "failed"]
    /\ DatabaseOutcome(done, "sql")
    /\ run' = [run EXCEPT ![h].pc = "idle", ![h].error = "none"]
    /\ UNCHANGED <<config, deployments, line, request, namespace, workload, owner, moves>>

HostStep(h) ==
    \/ \E d \in Deployments : Claim(h, d)
    \/ \E done \in BOOLEAN : LookupFails(h, done) \/ Begin(h, done) \/ Settle(h, done) \/ Mark(h, done)
    \/ Execute(h)

-----------------------------------------------------------------------------
\* Failover and rebalance. Nothing removes the workload of the old owner.
Requeue(d) ==
    /\ config.mode = "multi"
    /\ moves < MaxMoves
    /\ deployments[d].status = "running"
    /\ \A h \in Hosts : run[h].dep = d => Idle(h)
    /\ UpdateRow(d, "queued", deployments[d].name, TRUE)
    /\ jobs' = [jobs EXCEPT ![d] = "queued"]
    /\ owner' = [owner EXCEPT ![d] = NoHost]
    /\ moves' = moves + 1
    /\ UNCHANGED <<config, line, request, runtimeVars, faults>>

Forgotten(h) == run' = [run EXCEPT ![h].pc = "idle", ![h].error = "none"]

\* Requests being handled end, a store in memory is empty again; what the
\* platforms run goes on.
RestartControlPlane ==
    /\ Fault("restart")
    /\ Forgotten(ControlPlaneHost)
    /\ request' = [d \in Deployments |->
                      IF request[d].pc \in {"checked", "stored"}
                      THEN [request[d] EXCEPT !.pc = "refused"] ELSE request[d]]
    /\ IF InMemory
       THEN /\ deployments' = [d \in Deployments |-> NoDeploymentRow]
            /\ jobs' = [d \in Deployments |-> "none"]
            /\ line' = <<>>
            /\ owner' = [d \in Deployments |-> NoHost]
       ELSE UNCHANGED <<deployments, jobs, line, owner>>
    /\ UNCHANGED <<config, namespace, workload, moves>>

AgentDies(h) ==
    /\ Fault("restart")
    /\ ~Idle(h)
    /\ Forgotten(h)
    /\ UNCHANGED <<config, apiVars, namespace, workload, owner, moves>>

ComeUp(h, d) == PodsReady(h, d) /\ UNCHANGED <<config, apiVars, owner, moves, faults>>

Next ==
    \/ \E d \in Deployments : ApiStep(d) \/ Requeue(d)
    \/ \E h \in Hosts : HostStep(h)
    \/ \E h \in Hosts, d \in Deployments : ComeUp(h, d)
    \/ RestartControlPlane
    \/ \E h \in AgentHosts : AgentDies(h)

Spec == Init /\ [][Next]_vars

-----------------------------------------------------------------------------
(* A request being handled goes on, every worker polls, every command ends *)
(* (rollouts by their own timeout). Nobody has to send a request, no pod   *)
(* has to come up.                                                         *)

Fairness ==
    /\ \A d \in Deployments : WF_vars(request[d].pc # "new" /\ ApiStep(d))
    /\ \A h \in Hosts : WF_vars(HostStep(h))

FairSpec == Spec /\ Fairness

=============================================================================
