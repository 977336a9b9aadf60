CONSTANTS
    Files = {f1, f2}
    MaxSize = 5
    Ints = 8
SPECIFICATION Spec
INVARIANT BytesFreedWithData
PROPERTY LengthKeepsPlaceAnywhere
