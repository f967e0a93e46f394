SPECIFICATION FairSpec
CONSTANTS
    Devices <- MCDevices
    MaxDevices = 2
    MaxLeftover = 1
    Serials = {"A"}
    Regs = 3
INVARIANTS
    HandlesClosed
    OnlyWantedTouched
    ReadyOnSuccess
PROPERTIES
    OpenReturns
\* open returns once.
CHECK_DEADLOCK FALSE
