SPECIFICATION FairSpec
CONSTANTS
    PoolCount = 3
    MaxData = 2
    TransferTimeout = 1
    StopTimeout = 1
    Faults = {"device"}
INVARIANTS
    CloseMeansStopped
\* A closed session does nothing more.
CHECK_DEADLOCK FALSE
