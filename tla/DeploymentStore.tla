--------------------------- MODULE DeploymentStore ---------------------------
(***************************************************************************)
(* The deployments table (control-plane/internal/store/                    *)
(* postgres_deployments.go). Start and Update write the whole row and      *)
(* have no result: an error of the database is logged and forgotten, so    *)
(* the caller goes on as if the row had been stored.                       *)
(***************************************************************************)
EXTENDS Domain

VARIABLE deployments

DeploymentStatus == {"absent", "queued", "deploying", "running", "failed"}

DeploymentRecord == [status : DeploymentStatus, owner : WorkerOrNone]

DeploymentsInit ==
    deployments = [d \in Deployments |-> [status |-> "absent", owner |-> NoWorker]]

Stored(d) == deployments[d].status # "absent"

Running(d) == deployments[d].status = "running"

\* stored = FALSE: the statement failed and the error was swallowed.
UpdateDeployment(d, status, owner, stored) ==
    deployments' = IF stored
                   THEN [deployments EXCEPT ![d] = [status |-> status, owner |-> owner]]
                   ELSE deployments

StartDeployment(d, stored) == UpdateDeployment(d, "queued", NoWorker, stored)

=============================================================================
