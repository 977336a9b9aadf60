CONSTANTS
    Objs = {o1, o2}
    SpVars = {x, y}
    WpVars = {w, v}
    Uses = {"alias", "weakCopyAssign"}
    MaxWeak = 3
    MaxLen = 0
SPECIFICATION Spec
CHECK_DEADLOCK FALSE
INVARIANT Settled
INVARIANT NoFault
