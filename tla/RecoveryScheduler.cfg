SPECIFICATION FairSpec
CONSTANTS
    MaxId = 3
    WorkerCount = 2
    QueueCap = 2
    BatchSize = 2
    MaxFaults = 1
INVARIANTS TypeOK NoRowMissedTwice
PROPERTY DispatchedAgain
