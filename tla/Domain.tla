------------------------------- MODULE Domain -------------------------------
(***************************************************************************)
(* What every part of the control plane talks about: deployments, the     *)
(* queue's jobs and the workers that execute them                          *)
(* (control-plane/internal/domain), with the configuration that            *)
(* JobDistributor is built from (control-plane/internal/config).           *)
(***************************************************************************)
EXTENDS Integers, FiniteSets

CONSTANTS
    Jobs,                 \* job ids, numbered in queued_at order
    Deployments,          \* deployment ids
    RemoteWorkers,        \* ids of the worker agents on other machines
    ControlPlaneWorker,   \* id of the worker embedded in the control plane
    ControlPlaneAsWorker, \* CONTROL_PLANE_AS_WORKER
    NoWorker,             \* the empty worker id (SQL NULL)
    NoDeployment,
    MaxConcurrentJobs,    \* per worker, as registered
    CPUCores, MemoryGB,   \* per worker, as registered
    SmallDeployments,     \* those whose package has at most half a CPU core
    Strategy,             \* JOB_PLACEMENT_STRATEGY
    MaxMoves              \* bound: how often one deployment is re-queued

\* "" in the code: no job at hand.
NoJob == 0

\* The workers that may have a row in the workers table.
Workers ==
    RemoteWorkers \cup (IF ControlPlaneAsWorker THEN {ControlPlaneWorker} ELSE {})

WorkerOrNone == Workers \cup {NoWorker}

DeploymentOrNone == Deployments \cup {NoDeployment}

JobOrNone == Jobs \cup {NoJob}

DomainAssumption ==
    /\ Jobs \subseteq Nat \ {0}
    /\ ControlPlaneAsWorker \in BOOLEAN
    /\ ControlPlaneWorker \notin RemoteWorkers
    /\ NoWorker \notin RemoteWorkers \cup {ControlPlaneWorker}
    /\ NoDeployment \notin Deployments
    /\ MaxConcurrentJobs \in [Workers -> Nat]
    /\ CPUCores \in [Workers -> Nat]
    /\ MemoryGB \in [Workers -> Nat]
    /\ SmallDeployments \subseteq Deployments
    /\ MaxMoves \in Nat

ASSUME DomainAssumed == DomainAssumption

=============================================================================
