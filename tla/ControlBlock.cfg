CONSTANTS
    Handles = {h1, h2, h3, h4, h5, m1}
    Members = {m1}
SPECIFICATION Spec
CHECK_DEADLOCK FALSE
INVARIANT IInv
INVARIANT FreedOnceAndLast
INVARIANT NothingLeaks
PROPERTY ImplementsSharedObject
