SPECIFICATION FairSpec
CONSTANTS
    app = app
    d1 = d1
    d2 = d2
    p1 = p1
    p2 = p2
    Deployments = {d1, d2}
    Names = {app}
    NameOf <- MCNameOf
    Unknown = Unknown
    Posts = {p1, p2}
    Batches <- MCBatches
    CacheTTL = 1
    NegativeTTL = 0
    CacheEntries = 2
    PostTicks = 1
    Limits <- MCLimits
INVARIANTS
    TypeOK
    AnswersRecent
    WindowsNested
PROPERTIES
    MetricsConverge
    OldRequestsGo
\* Without a database everything may be over.
CHECK_DEADLOCK FALSE
