SPECIFICATION FairSpec
CONSTANTS
    Transfers = {t1, t2}
    Delays = {1, 2, 3}
    MaxWait = 2
    Timerfd = {TRUE, FALSE}
INVARIANTS TimerArmed
PROPERTY TimeoutsFire
CHECK_DEADLOCK FALSE
