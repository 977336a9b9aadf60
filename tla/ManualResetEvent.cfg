CONSTANTS
    Threads = {t1, t2, t3}
    Timeouts = {1, 2}
    Jumps = {1}
    Joined = TRUE
SPECIFICATION FairSpec
INVARIANT NoMissedSignal
PROPERTY NotEarly
PROPERTY WaitersReturn
PROPERTY TimedWaitReturns
