SPECIFICATION Spec
CONSTANTS
    Wrap = 8
    Freq = 27
    Second = 450
    Idle = 134
    Word = 2048
    Long = 4194304
    Clock <- MCClock
    MaxTime = 5
PROPERTIES
    CountsTicks
\* The run ends at MaxTime.
CHECK_DEADLOCK FALSE
