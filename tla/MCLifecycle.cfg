SPECIFICATION FairSpec
CONSTANTS
    MaxJobs = 3
    Slots = 1
    Jobs <- MCJobs
    Deployments = {d1}
    RemoteWorkers = {w1}
    ControlPlaneWorker = cp
    ControlPlaneAsWorker = TRUE
    NoWorker = NoWorker
    NoDeployment = NoDeployment
    FastWorker = w1
    MaxConcurrentJobs <- MCSlots
    CPUCores <- MCCPUCores
    MemoryGB <- MCMemoryGB
    SmallDeployments = {}
    Strategy = "smart"
    MaxMoves = 2
    FaultKinds = {"crash", "restart", "partition", "lost", "sql", "swallowed"}
    MaxFaults = 1
    BuildOutlastsPlacement = TRUE
INVARIANTS
    LocalSlotsAccounted
PROPERTIES
    LifecycleHolds
    FailsOver
