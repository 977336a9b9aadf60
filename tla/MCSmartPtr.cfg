CONSTANTS
    Objs = {o1, o2, o3}
    SpVars = {x, y}
    WpVars = {w}
    Uses = {}
    MaxWeak = 3
    MaxLen = 0
SPECIFICATION FairSpec
CHECK_DEADLOCK FALSE
INVARIANT IInv
INVARIANT NoFault
INVARIANT Settled
INVARIANT DestructorOnLiveMemory
PROPERTY CascadeEnds
