SPECIFICATION Spec
CONSTANTS
    Wrap = 8
    Freq = 27
    Second = 450
    Idle = 134
    Word = 2048
    Long = 2048
    Clock <- MCClock
    MaxTime = 5
INVARIANTS
    NanosBelowSecond
PROPERTIES
    CountsTicks
\* The run ends at MaxTime.
CHECK_DEADLOCK FALSE
