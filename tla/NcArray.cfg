CONSTANTS
    Objs = {o1, o2}
    SpVars = {x}
    WpVars = {w}
    Uses = {}
    MaxWeak = 3
    MaxLen = 3
SPECIFICATION ArraySpec
CHECK_DEADLOCK FALSE
INVARIANT NoFault
INVARIANT Settled
INVARIANT DestructorOnLiveMemory
INVARIANT ListKept
PROPERTY CascadeEnds
