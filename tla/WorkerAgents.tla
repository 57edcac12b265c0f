---------------------------- MODULE WorkerAgents ----------------------------
(***************************************************************************)
(* The agents on the remote workers                                        *)
(* (worker-agent/internal/agent/agent.go) and the HTTP handlers they call  *)
(* (control-plane/internal/httpapi/workers.go).                            *)
(*                                                                         *)
(* An agent polls, executes one job at a time and reports its outcome      *)
(* once; its heartbeat loop runs beside that.  A handler is several        *)
(* database statements, each one a step here, and it outlives the agent    *)
(* that called it.                                                         *)
(***************************************************************************)
EXTENDS JobStore, DeploymentStore, WorkerStore

VARIABLES
    agent,     \* the polling loop of each agent
    heartbeat, \* the payload of a heartbeat being handled, "none" without one
    report     \* the job-complete or job-failed request for each job

agentVars == <<agent, heartbeat, report>>

AgentRecord == [pc : {"down", "idle", "executing", "reporting"}, job : JobOrNone]

ReportRecord ==
    [pc : {"none", "mark", "decrement", "settle", "over"},
     worker : WorkerOrNone, ok : BOOLEAN]

Polling == [pc |-> "idle", job |-> NoJob]

Down == [pc |-> "down", job |-> NoJob]

NoReport == [pc |-> "none", worker |-> NoWorker, ok |-> FALSE]

AgentsInit ==
    /\ agent = [w \in RemoteWorkers |-> Down]
    /\ heartbeat = [w \in RemoteWorkers |-> "none"]
    /\ report = [j \in Jobs |-> NoReport]

Executing(w, j) == agent[w].pc = "executing" /\ agent[w].job = j

ReportPending(j) == report[j].pc \in {"mark", "decrement", "settle"}

\* No agent waits for the handler of this report: its context may be
\* cancelled, which fails its next statement.
Abandoned(j) == agent[report[j].worker] # [pc |-> "reporting", job |-> j]

-----------------------------------------------------------------------------
(* Starting, heartbeats, crashing *)

AgentStart(w) ==
    /\ agent[w].pc = "down"
    /\ Register(w)
    /\ agent' = [agent EXCEPT ![w] = Polling]
    /\ UNCHANGED <<jobs, deployments, heartbeat, report>>

\* sendHeartbeat and the first statement of its handler.
SendHeartbeat(w) ==
    /\ agent[w].pc # "down"
    /\ heartbeat[w] = "none"
    /\ UpdateHeartbeat(w)
    /\ heartbeat' = [heartbeat EXCEPT
           ![w] = IF agent[w].pc = "executing" THEN "busy" ELSE "idle"]
    /\ UNCHANGED <<jobs, deployments, agent, report>>

\* The rest of the handler: the agent's own view of its load wins.
ApplyHeartbeat(w, done) ==
    /\ heartbeat[w] # "none"
    /\ IF done
       THEN UpdateWorker(w, heartbeat[w], IF heartbeat[w] = "busy" THEN 1 ELSE 0)
       ELSE UNCHANGED workers
    /\ heartbeat' = [heartbeat EXCEPT ![w] = "none"]
    /\ UNCHANGED <<jobs, deployments, agent, report>>

\* No heartbeat for longer than the timeout.
HeartbeatExpires(w) ==
    /\ workers[w].fresh
    /\ workers' = [workers EXCEPT ![w].fresh = FALSE]
    /\ UNCHANGED <<jobs, deployments, agentVars>>

\* The process dies; the job it had stays "running" in the table.
AgentCrash(w) ==
    /\ agent[w].pc # "down"
    /\ agent' = [agent EXCEPT ![w] = Down]
    /\ UNCHANGED <<jobs, workers, deployments, heartbeat, report>>

-----------------------------------------------------------------------------
(* claimAndExecuteJob *)

\* delivered = FALSE: the job was claimed but the agent never learns it.
Claim(w, delivered) ==
    /\ agent[w].pc = "idle"
    /\ \E j \in Jobs :
          /\ ClaimForWorker(j, w)
          /\ agent' = IF delivered
                      THEN [agent EXCEPT ![w] = [pc |-> "executing", job |-> j]]
                      ELSE agent
    /\ UNCHANGED <<workers, deployments, heartbeat, report>>

\* Execute returned. The report is sent once; delivered = FALSE: it is lost.
FinishJob(w, ok, delivered) ==
    /\ agent[w].pc = "executing"
    /\ \/ /\ delivered
          /\ agent' = [agent EXCEPT ![w].pc = "reporting"]
          /\ report' = [report EXCEPT
                 ![agent[w].job] = [pc |-> "mark", worker |-> w, ok |-> ok]]
       \/ /\ ~delivered
          /\ agent' = [agent EXCEPT ![w] = Polling]
          /\ UNCHANGED report
    /\ UNCHANGED <<jobs, workers, deployments, heartbeat>>

\* The response arrives, or the client's timeout ends the wait for it.
Waiting(w) == agent[w].pc = "reporting"

StopWaiting(w) ==
    /\ agent' = [agent EXCEPT ![w] = Polling]
    /\ UNCHANGED <<jobs, workers, deployments, heartbeat, report>>

ReceiveResponse(w) == Waiting(w) /\ ~ReportPending(agent[w].job) /\ StopWaiting(w)

\* Mutant: a report without an answer is followed by a job-failed report.
TimeoutReportsFailure(w) ==
    /\ Waiting(w) /\ ReportPending(agent[w].job)
    /\ report' = [report EXCEPT
           ![agent[w].job] = [pc |-> "mark", worker |-> w, ok |-> FALSE]]
    /\ agent' = [agent EXCEPT ![w] = Polling]
    /\ UNCHANGED <<jobs, workers, deployments, heartbeat>>

ResponseTimeout(w) == Waiting(w) /\ ReportPending(agent[w].job) /\ StopWaiting(w)

-----------------------------------------------------------------------------
(* The handlers JobComplete (ok) and JobFailed (~ok). A statement that     *)
(* fails ends the handler with status 500.                                 *)

MarkReported(j, done) ==
    /\ report[j].pc = "mark"
    /\ \/ /\ done
          /\ IF report[j].ok THEN MarkDone(j) ELSE MarkFailed(j)
          /\ report' = [report EXCEPT ![j].pc = "decrement"]
       \/ ~done /\ report' = [report EXCEPT ![j].pc = "over"] /\ UNCHANGED jobs
    /\ UNCHANGED <<workers, deployments, agent, heartbeat>>

DecrementReported(j, done) ==
    /\ report[j].pc = "decrement"
    /\ \/ /\ done
          /\ DecrementJobCount(report[j].worker)
          /\ report' = [report EXCEPT ![j].pc = "settle"]
       \/ ~done /\ report' = [report EXCEPT ![j].pc = "over"] /\ UNCHANGED workers
    /\ UNCHANGED <<jobs, deployments, agent, heartbeat>>

\* Mutant: the owner stays what the distributor recorded.
SettleKeepingOwner(j, stored) ==
    /\ report[j].pc = "settle"
    /\ LET d == jobs[j].deployment
       IN UpdateDeployment(d, IF report[j].ok THEN "running" ELSE "failed",
                           deployments[d].owner, stored /\ Stored(d))
    /\ report' = [report EXCEPT ![j].pc = "over"]
    /\ UNCHANGED <<jobs, workers, agent, heartbeat>>

\* Mutant: only JobComplete touches the deployment.
SettleOnlySuccess(j, stored) ==
    /\ report[j].pc = "settle"
    /\ LET d == jobs[j].deployment
       IN UpdateDeployment(d, "running", report[j].worker,
                           report[j].ok /\ stored /\ Stored(d))
    /\ report' = [report EXCEPT ![j].pc = "over"]
    /\ UNCHANGED <<jobs, workers, agent, heartbeat>>

\* Get and Update of the deployment: status and owner are both overwritten.
SettleReported(j, stored) ==
    /\ report[j].pc = "settle"
    /\ LET d == jobs[j].deployment
       IN UpdateDeployment(d, IF report[j].ok THEN "running" ELSE "failed",
                           report[j].worker, stored /\ Stored(d))
    /\ report' = [report EXCEPT ![j].pc = "over"]
    /\ UNCHANGED <<jobs, workers, agent, heartbeat>>

=============================================================================
