CONSTANTS
    Handles = {h1, h2, h3, m1}
    Members = {m1}
SPECIFICATION LockedFairSpec
CHECK_DEADLOCK FALSE
INVARIANT LockedIInv
INVARIANT LockOutlivesItsUsers
PROPERTY ImplementsControlBlock
PROPERTY ImplementsMutex
