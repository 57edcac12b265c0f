\* Three lines through a queue and batches of two, any two faults.
SPECIFICATION FairSpec
CONSTANTS
    QueueSize = 2
    BatchSize = 2
    TailLines = 1
    MaxLines = 3
    MaxFaults = 2
INVARIANTS
    TypeOK
    Accounted
    AtMostTwice
    SentIsInserted
PROPERTIES
    Drains
\* The log may end.
CHECK_DEADLOCK FALSE
