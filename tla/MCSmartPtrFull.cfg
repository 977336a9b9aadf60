CONSTANTS
    Objs = {o1, o2}
    SpVars = {x, y}
    WpVars = {w}
    Uses = {"alias", "weakCopyAssign", "weakField", "nullWeak", "uninitWeak"}
    MaxWeak = 2
    MaxLen = 0
SPECIFICATION Spec
SYMMETRY Symmetry
CHECK_DEADLOCK FALSE
INVARIANT NoDangling
