----------------------------- MODULE LocalWorker -----------------------------
(***************************************************************************)
(* The DeploymentWorker embedded in the control plane in multi-worker      *)
(* mode (control-plane/internal/service/worker.go): one goroutine that     *)
(* claims the jobs assigned to the control plane and deploys them itself.  *)
(* It settles the deployment before it marks the job, and gives the slot   *)
(* back last.                                                              *)
(***************************************************************************)
EXTENDS JobStore, DeploymentStore, WorkerStore

VARIABLE local

LocalRecord ==
    [pc : {"idle", "claimed", "fetched", "building", "built", "settled", "release"},
     job : JobOrNone, owner : WorkerOrNone, ok : BOOLEAN]

LocalIdle == [pc |-> "idle", job |-> NoJob, owner |-> NoWorker, ok |-> FALSE]

LocalInit == local = LocalIdle

\* The job that may still change the deployment's row.
LocalBusyWith(j) ==
    local.job = j /\ local.pc \in {"claimed", "fetched", "building", "built"}

LocalDeployment == jobs[local.job].deployment

LocalClaim ==
    /\ ControlPlaneAsWorker
    /\ local.pc = "idle"
    /\ \E j \in Jobs :
          /\ ClaimForWorker(j, ControlPlaneWorker)
          /\ local' = [LocalIdle EXCEPT !.pc = "claimed", !.job = j]
    /\ UNCHANGED <<workers, deployments>>

\* repo.Get, which keeps a copy of the row; without a row the job has failed.
LocalFetch(done) ==
    /\ local.pc = "claimed"
    /\ local' = IF done /\ Stored(LocalDeployment)
                THEN [local EXCEPT !.pc = "fetched",
                                   !.owner = deployments[LocalDeployment].owner]
                ELSE [local EXCEPT !.pc = "settled"]
    /\ UNCHANGED <<jobs, workers, deployments>>

LocalBegin(stored) ==
    /\ local.pc = "fetched"
    /\ UpdateDeployment(LocalDeployment, "deploying", local.owner, stored)
    /\ local' = [local EXCEPT !.pc = "building", !.owner = NoWorker]
    /\ UNCHANGED <<jobs, workers>>

\* Mutant: output that arrives late is still flushed.
PersistLate(stored) ==
    /\ local.pc \in {"building", "settled"}
    /\ UpdateDeployment(LocalDeployment, "deploying", ControlPlaneWorker, stored)
    /\ UNCHANGED <<jobs, workers>>

PersistLiveLogs(stored) ==
    /\ local.pc = "building"
    /\ UpdateDeployment(LocalDeployment, "deploying", ControlPlaneWorker, stored)
    /\ UNCHANGED <<jobs, workers>>

\* persistLiveLogs(false), called by the build for each piece of its output.
LocalProgress(stored) == PersistLiveLogs(stored) /\ UNCHANGED local

\* persistLiveLogs(true), once the build has returned.
LocalBuilt(ok, stored) ==
    /\ PersistLiveLogs(stored)
    /\ local' = [local EXCEPT !.pc = "built", !.ok = ok]

LocalSettle(stored) ==
    /\ local.pc = "built"
    /\ UpdateDeployment(LocalDeployment, IF local.ok THEN "running" ELSE "failed",
                        ControlPlaneWorker, stored)
    /\ local' = [local EXCEPT !.pc = "settled"]
    /\ UNCHANGED <<jobs, workers>>

\* MarkDone or MarkFailed; its error is ignored.
LocalMark(done) ==
    /\ local.pc = "settled"
    /\ IF ~done THEN UNCHANGED jobs
       ELSE IF local.ok THEN MarkDone(local.job) ELSE MarkFailed(local.job)
    /\ local' = [local EXCEPT !.pc = "release"]
    /\ UNCHANGED <<workers, deployments>>

\* Mutant: not deferred, so the return after a failed build leaves it out.
ReleaseOnSuccess(done) ==
    /\ local.pc = "release"
    /\ IF done /\ local.ok THEN DecrementJobCount(ControlPlaneWorker) ELSE UNCHANGED workers
    /\ local' = LocalIdle
    /\ UNCHANGED <<jobs, deployments>>

\* The deferred DecrementJobCount.
LocalRelease(done) ==
    /\ local.pc = "release"
    /\ IF done THEN DecrementJobCount(ControlPlaneWorker) ELSE UNCHANGED workers
    /\ local' = LocalIdle
    /\ UNCHANGED <<jobs, deployments>>

=============================================================================
