------------------------------ MODULE JobStore ------------------------------
(***************************************************************************)
(* The deployment_jobs table and the statements of                         *)
(* PostgresJobRepository (control-plane/internal/store/jobs.go). Each      *)
(* operator is one SQL statement or transaction, so one atomic step.       *)
(***************************************************************************)
EXTENDS Domain

VARIABLE jobs

JobStatus == {"absent", "queued", "running", "done", "failed"}

JobRecord ==
    [status : JobStatus, deployment : DeploymentOrNone,
     worker : WorkerOrNone, attempts : Nat]

NoRow == [status |-> "absent", deployment |-> NoDeployment,
          worker |-> NoWorker, attempts |-> 0]

JobsInit == jobs = [j \in Jobs |-> NoRow]

JobsOf(d) == {j \in Jobs : jobs[j].deployment = d}

\* A new job takes the first unused id: ids follow the order of queued_at.
NewJob(j) ==
    /\ jobs[j].status = "absent"
    /\ \A k \in Jobs : k < j => jobs[k].status # "absent"

Enqueue(j, d) ==
    /\ NewJob(j)
    /\ jobs' = [jobs EXCEPT ![j] = [status |-> "queued", deployment |-> d,
                                    worker |-> NoWorker, attempts |-> 0]]

\* ORDER BY queued_at ASC LIMIT 1
Oldest(j, S) == j \in S /\ \A k \in S : j <= k

Unassigned == {j \in Jobs : jobs[j].status = "queued" /\ jobs[j].worker = NoWorker}

GetNextUnassignedJob(j) == Oldest(j, Unassigned)

AssignedQueued(w) == {j \in Jobs : jobs[j].status = "queued" /\ jobs[j].worker = w}

AssignToWorker(j, w) ==
    /\ jobs[j].status = "queued"
    /\ jobs' = [jobs EXCEPT ![j].worker = w]

ReleaseFromWorker(j) == jobs' = [jobs EXCEPT ![j].worker = NoWorker]

ClaimForWorker(j, w) ==
    /\ Oldest(j, AssignedQueued(w))
    /\ jobs' = [jobs EXCEPT ![j].status = "running", ![j].attempts = @ + 1]

\* MarkDone and MarkFailed: whatever the job's status was.
MarkDone(j) == jobs' = [jobs EXCEPT ![j].status = "done"]

MarkFailed(j) == jobs' = [jobs EXCEPT ![j].status = "failed"]

=============================================================================
