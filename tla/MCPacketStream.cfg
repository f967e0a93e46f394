SPECIFICATION SSpec
CONSTANTS
    Words <- MCWords
    MaxLen = 7
    BufWords = 3
INVARIANTS
    TypeOK
    BufferBound
    ExactWords
PROPERTIES
    FrameDelivered
    OnlyFrames
    StopEndsParser
CHECK_DEADLOCK FALSE
