SPECIFICATION FairSpec
CONSTANTS
    PoolCount = 3
    MaxData = 4
    TransferTimeout = 1
    StopTimeout = 1
    Faults = {"late"}
INVARIANTS
    NothingLost
    CloseMeansStopped
    QueuesOutliveThreads
PROPERTIES
    CloseReturns
\* A closed session does nothing more.
CHECK_DEADLOCK FALSE
