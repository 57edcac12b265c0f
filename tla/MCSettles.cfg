SPECIFICATION FairSpec
CONSTANTS
    MaxJobs = 2
    Slots = 1
    Jobs <- MCJobs
    Deployments = {d1, d2}
    RemoteWorkers = {w1}
    ControlPlaneWorker = cp
    ControlPlaneAsWorker = TRUE
    NoWorker = NoWorker
    NoDeployment = NoDeployment
    FastWorker = w1
    MaxConcurrentJobs <- MCSlots
    CPUCores <- MCCPUCores
    MemoryGB <- MCMemoryGB
    SmallDeployments = {d1}
    Strategy = "smart"
    MaxMoves = 0
    FaultKinds = {}
    MaxFaults = 0
    BuildOutlastsPlacement = TRUE
INVARIANTS
    LocalSlotsAccounted
PROPERTIES
    EventuallySettled
