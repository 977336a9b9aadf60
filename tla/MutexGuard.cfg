CONSTANTS
    Threads = {t1, t2, t3}
    NoThread = NoThread
    Repeat = 2
    MaxDepth = 2
SPECIFICATION FairSpec
CHECK_DEADLOCK FALSE
INVARIANT IInv
INVARIANT BodyRunsOnce
PROPERTY ImplementsMutex
PROPERTY AllFinish
