SPECIFICATION FairSpec
CONSTANTS
    COUNT = 3
    MaxChunks = 8
INVARIANTS
    TypeOK
    NoOverwrite
    PutInOrder
    PopNonEmpty
PROPERTIES
    ImplementsStream
    AllParsed
CHECK_DEADLOCK FALSE
