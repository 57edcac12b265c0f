SPECIFICATION Spec
CONSTANTS
    MaxJobs = 3
    Slots = 1
    Jobs <- MCJobs
    Deployments = {d1}
    RemoteWorkers = {w1, w2}
    ControlPlaneWorker = cp
    ControlPlaneAsWorker = FALSE
    NoWorker = NoWorker
    NoDeployment = NoDeployment
    FastWorker = w2
    MaxConcurrentJobs <- MCSlots
    CPUCores <- MCCPUCores
    MemoryGB <- MCMemoryGB
    SmallDeployments = {}
    Strategy = "remote-only"
    MaxMoves = 2
    FaultKinds = {"crash", "requeue"}
    MaxFaults = 2
    BuildOutlastsPlacement = TRUE
INVARIANTS
    NoDuplicateOwnership
