CONSTANTS
    Files = {f1, f2}
    MaxSize = 5
    Ints = 8
SPECIFICATION Spec
SYMMETRY Symmetry
INVARIANT ClosedOnce
INVARIANT LoadedWhole
PROPERTY LengthKeepsPlace
