SPECIFICATION FairSpec
CONSTANTS
    Deployments = {d1}
    Workers = {w1, w2}
    NoWorker = NoWorker
    Requests = {r1, r2}
    TTL = 2
    LookupTicks = 1
INVARIANTS
    RouterTypeOK
    RoutesRecent
PROPERTIES
    RoutesConverge
