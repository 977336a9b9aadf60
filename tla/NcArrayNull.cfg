CONSTANTS
    Objs = {o1}
    SpVars = {x}
    WpVars = {w}
    Uses = {"nullElement"}
    MaxWeak = 3
    MaxLen = 2
SPECIFICATION ArraySpec
CHECK_DEADLOCK FALSE
INVARIANT NoFault
