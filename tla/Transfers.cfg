SPECIFICATION Spec
CONSTANTS
    Lengths = {0, 2, 5}
    UrbLen = 2
    Faults <- AllFaults
INVARIANTS
    TypeOK
    FreedLast
    DataKept
    CauseReported
PROPERTY
    CancelEnds
