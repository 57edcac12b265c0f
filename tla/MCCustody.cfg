SPECIFICATION Spec
CONSTANTS
    MaxJobs = 2
    Slots = 1
    Jobs <- MCJobs
    Deployments = {d1}
    RemoteWorkers = {w1}
    ControlPlaneWorker = cp
    ControlPlaneAsWorker = TRUE
    NoWorker = NoWorker
    NoDeployment = NoDeployment
    FastWorker = w1
    MaxConcurrentJobs <- MCSlots
    CPUCores <- MCCPUCores
    MemoryGB <- MCMemoryGB
    SmallDeployments = {}
    Strategy = "smart"
    MaxMoves = 1
    FaultKinds = {"crash", "restart", "partition", "lost", "sql", "swallowed"}
    MaxFaults = 2
    BuildOutlastsPlacement = FALSE
INVARIANTS
    TypeOK
    SingleCustody
    ListsStayTrue
PROPERTIES
    SettledJobsStay
