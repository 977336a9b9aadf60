CONSTANTS
    Objs = {o1, o2}
    SpVars = {x, y}
    WpVars = {w}
    Uses = {"weakField"}
    MaxWeak = 3
    MaxLen = 0
SPECIFICATION Spec
CHECK_DEADLOCK FALSE
INVARIANT OwnerOutlivesOwned
