SPECIFICATION Spec
CONSTANTS
    MaxJobs = 2
    Slots = 1
    Jobs <- MCJobs
    Deployments = {d1}
    RemoteWorkers = {w1, w2}
    ControlPlaneWorker = cp
    ControlPlaneAsWorker = FALSE
    NoWorker = NoWorker
    NoDeployment = NoDeployment
    FastWorker = w2
    MaxConcurrentJobs <- MCSlots
    CPUCores <- MCCPUCores
    MemoryGB <- MCMemoryGB
    SmallDeployments = {}
    Strategy = "remote-only"
    MaxMoves = 1
    FaultKinds = {"sql"}
    MaxFaults = 1
    BuildOutlastsPlacement = TRUE
INVARIANTS
    QueuedHasJob
