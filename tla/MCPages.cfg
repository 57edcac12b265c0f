SPECIFICATION FairSpec
CONSTANTS
    Viewers = {v1, v2}
    MaxChunks = 5
    TailLines = 3
    Widths <- MCWidths
    MaxLines = 4
    Requests = {r1, r2}
    PodTTL = 2
    RequestTicks = 1
    MaxFaults = 1
INVARIANTS
    TypeOK
    BuildLogSpliced
    AppLogFollows
    PodsRecent
PROPERTIES
    StreamsEnd
    AppLogArrives
\* Builds end, and nobody has to look at a page.
CHECK_DEADLOCK FALSE
