CONSTANTS
    Strings = {o1, o2}
    SliceVars = {v, w}
    PtrVars = {p, q}
    IterVars = {i, j}
    MaxOrphans = 1
    MallocFails = FALSE
    Gone = Gone
    NULL = NULL
    Static = Static
SPECIFICATION Spec
SYMMETRY Symmetry
CHECK_DEADLOCK FALSE
INVARIANT CountsHolders
INVARIANT NeverDangles
