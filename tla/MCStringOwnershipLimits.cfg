CONSTANTS
    Strings = {o1, o2}
    SliceVars = {v, w, x}
    PtrVars = {p, q}
    IterVars = {i}
    MaxOrphans = 2
    MallocFails = TRUE
    Gone = Gone
    NULL = NULL
    Static = Static
SPECIFICATION Spec
SYMMETRY Symmetry
CHECK_DEADLOCK FALSE
INVARIANT BufferFreedWithString
INVARIANT SeparatorOutlives
INVARIANT TextIsThere
INVARIANT NoOrphans
