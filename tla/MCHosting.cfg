SPECIFICATION FairSpec
CONSTANTS
    Deployments = {d1, d2}
    ControlPlaneHost = cp
    AgentHosts = {w1}
    NoName = NoName
    Raw <- MCRaw
    Names <- MCNames
    Sanitized <- MCSanitized
    Routed <- MCRouted
    Packages = {"small", "tiny"}
    Payloads <- MCPayloads
    MultiDeployments = {d1}
    MaxMoves = 1
    MaxFaults <- MCFaults
INVARIANTS
    TypeOK
    NamesShared
    RoutesShared
    OwnerServes
    RunningIsScaled
    RetriesSuffice
PROPERTIES
    EventuallyBuilt
\* Every deployment may have settled for good.
CHECK_DEADLOCK FALSE
