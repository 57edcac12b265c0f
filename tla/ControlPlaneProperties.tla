------------------------ MODULE ControlPlaneProperties ------------------------
(***************************************************************************)
(* What the control plane has to guarantee in multi-worker mode.           *)
(***************************************************************************)
EXTENDS ControlPlane

(***************************************************************************)
(* The shape of the tables and of what each process remembers.             *)
(***************************************************************************)
TypeOK ==
    /\ jobs \in [Jobs -> JobRecord]
    /\ workers \in [Workers -> WorkerRecord]
    /\ deployments \in [Deployments -> DeploymentRecord]
    /\ dist \in DistRecord
    /\ cooling \in SUBSET Deployments
    /\ agent \in [RemoteWorkers -> AgentRecord]
    /\ heartbeat \in [RemoteWorkers -> {"none", "idle", "busy"}]
    /\ report \in [Jobs -> ReportRecord]
    /\ local \in LocalRecord
    /\ api \in [Deployments -> {"new", "stored", "answered"}]
    /\ faults \in 0..MaxFaults

-----------------------------------------------------------------------------
\* Whoever may still deploy d or settle the row of d, and for which job: the
\* queue, an agent, the handler of its report, the embedded worker.
Custodians(d) ==
    {<<"queue", NoWorker, j>> : j \in {k \in JobsOf(d) : jobs[k].status = "queued"}}
    \cup {<<"agent", c[1], c[2]>> :
             c \in {x \in RemoteWorkers \X JobsOf(d) : Executing(x[1], x[2])}}
    \cup {<<"handler", report[j].worker, j>> : j \in {k \in JobsOf(d) : ReportPending(k)}}
    \cup {<<"local", ControlPlaneWorker, j>> : j \in {k \in JobsOf(d) : LocalBusyWith(k)}}

\* A job for d is about to be stored.
Promised(d) == api[d] = "stored" \/ (At("enqueue") /\ dist.dep = d)

(***************************************************************************)
(* At most one party may still deploy a deployment or settle its row       *)
(* (docs/DYNAMIC-PLACEMENT-FAILOVER-ARCHITECTURE.md:433).                  *)
(***************************************************************************)
NoDuplicateOwnership ==
    \A d \in Deployments : \A c1, c2 \in Custodians(d) : c1 = c2

(***************************************************************************)
(* That, and nobody has it when a job for it is about to be stored or      *)
(* while it is running.  Nothing in the code checks this when a job is     *)
(* claimed, reported or re-queued (store/jobs.go ClaimForWorker,           *)
(* httpapi/workers.go JobComplete, service/distributor.go                  *)
(* requeueDeployment); two parties would deploy over each other and settle *)
(* the row twice.                                                          *)
(***************************************************************************)
SingleCustody ==
    /\ NoDuplicateOwnership
    /\ \A d \in Deployments :
          /\ Promised(d) \/ Running(d) => Custodians(d) = {}
          /\ ~(Promised(d) /\ Running(d))

(***************************************************************************)
(* requeueDeployment works through a list of deployments read earlier,     *)
(* while agents and handlers go on: what it is about to re-queue is still  *)
(* running and still has the owner it was listed with.                     *)
(***************************************************************************)
ListsStayTrue ==
    \A d \in dist.dset : Running(d) /\ deployments[d].owner # NoWorker /\ ~Promised(d)

(***************************************************************************)
(* MarkDone and MarkFailed have no condition on the status of the job: the *)
(* callers must see to it that a job that is over stays as it is and that  *)
(* a claimed job never returns to the queue.                               *)
(***************************************************************************)
SettledJobsStay ==
    [][\A j \in Jobs :
          /\ jobs[j].status \in {"done", "failed"} => jobs'[j].status = jobs[j].status
          /\ jobs[j].status = "running" => jobs'[j].status \notin {"absent", "queued"}]_vars

-----------------------------------------------------------------------------
(* The abstract specification *)

Executor(d) == (CHOOSE c \in Custodians(d) : TRUE)[2]

PhaseOf(d) ==
    CASE api[d] = "new" -> "new"
      [] Promised(d) -> "promised"
      [] \E j \in JobsOf(d) : jobs[j].status = "queued" -> "waiting"
      [] OTHER ->
         CASE Custodians(d) # {} -> "executing"
           [] OTHER -> CASE Running(d) -> "up"
                         [] deployments[d].status = "failed" -> "down"
                         [] OTHER -> "stranded"

HostOf(d) ==
    CASE PhaseOf(d) = "executing" -> Executor(d)
      [] PhaseOf(d) = "up" -> deployments[d].owner
      [] OTHER -> NoWorker

Life == INSTANCE Lifecycle WITH
    phase <- [d \in Deployments |-> PhaseOf(d)],
    host <- [d \in Deployments |-> HostOf(d)]

(***************************************************************************)
(* The control plane implements Lifecycle: each step moves a deployment    *)
(* along it or not at all. An up deployment is the one that its executor   *)
(* reported, its owner is that executor, and only a re-queue takes it down.*)
(***************************************************************************)
LifecycleHolds == Life!LifeSpec

-----------------------------------------------------------------------------
\* The jobs assigned to the embedded worker whose slot it has not given back.
LocalJobs ==
    {j \in Jobs : jobs[j].worker = ControlPlaneWorker /\ jobs[j].status = "queued"}
    \cup ({local.job} \ {NoJob})

\* AssignToWorker and IncrementJobCount are two statements.
BeingCounted == IF At("count") /\ dist.target = ControlPlaneWorker THEN 1 ELSE 0

\* The failures that can make the embedded worker's count wrong.
SlotFaults == {"restart", "sql", "swallowed"}

\* No such failure so far.
SlotsUndisturbed == faults = 0 \/ FaultKinds \cap SlotFaults = {}

(***************************************************************************)
(* The slots of the embedded worker, which no heartbeat corrects. Its      *)
(* current_jobs counts the jobs assigned to it and not yet given back: it  *)
(* is exact, and the worker never has more jobs than slots, until a        *)
(* statement fails or the process starts again (and sets it to 0 while     *)
(* earlier jobs are still assigned, service/distributor.go                 *)
(* registerControlPlaneAsWorker); each failure takes at most one slot away.*)
(***************************************************************************)
LocalSlotsAccounted ==
    LET counted == workers[ControlPlaneWorker].current + BeingCounted
        held == Cardinality(LocalJobs)
    IN /\ counted <= held + faults
       /\ SlotsUndisturbed => /\ counted = held
                              /\ held <= MaxConcurrentJobs[ControlPlaneWorker]

-----------------------------------------------------------------------------
(***************************************************************************)
(* Without failures every deployment that is accepted or re-queued comes   *)
(* to run or to fail: no lost wake-up, no slot that stays taken.           *)
(***************************************************************************)
EventuallySettled ==
    \A d \in Deployments :
        deployments[d].status \in {"queued", "deploying"}
            ~> deployments[d].status \in {"running", "failed"}

(***************************************************************************)
(* A deployment does not stay on a worker that stays dead: the heartbeat   *)
(* timeout, the offline mark and the failover list work together.          *)
(***************************************************************************)
FailsOver ==
    \A d \in Deployments : \A w \in RemoteWorkers :
        ~<>[](/\ agent[w].pc = "down"
              /\ Running(d) /\ deployments[d].owner = w
              /\ MayMove(d))

-----------------------------------------------------------------------------
(* What docs/MULTI-WORKER-ARCHITECTURE.md says of the program and the      *)
(* program does not do.                                                    *)

(***************************************************************************)
(* Line 52: a deployment is "queued" while its job waits to be assigned.   *)
(* EnqueueDeploy and requeueDeployment store the row before the job.       *)
(***************************************************************************)
QueuedHasJob ==
    \A d \in Deployments :
        deployments[d].status = "queued" =>
            \/ Promised(d)
            \/ \E j \in JobsOf(d) : jobs[j].status \in {"queued", "running"}

(***************************************************************************)
(* Line 53: a deployment is "deploying" while its deployment is in         *)
(* progress, so not for ever. Failover only looks at "running" rows.       *)
(***************************************************************************)
DeployingEnds ==
    \A d \in Deployments :
        deployments[d].status = "deploying" ~> deployments[d].status # "deploying"

(***************************************************************************)
(* Lines 57-63: a deployment leaves "running" only when it is re-queued.   *)
(* distributeJobs writes back a row it read before the job was over.       *)
(***************************************************************************)
RunningLeavesByRequeue ==
    [][\A d \in Deployments :
          Running(d) => deployments'[d].status \in {"running", "queued"}]_vars

=============================================================================
