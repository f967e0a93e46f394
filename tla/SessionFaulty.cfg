SPECIFICATION FairSpec
CONSTANTS
    PoolCount = 2
    MaxData = 2
    TransferTimeout = 1
    StopTimeout = 1
    Faults = {"create", "write", "submit", "device", "partial", "empty", "events", "late", "slow", "echo"}
INVARIANTS
    TypeOK
    BufferAccounting
PROPERTIES
    FinishSticks
\* A closed session does nothing more.
CHECK_DEADLOCK FALSE
