CONSTANTS
    StackSize = 4
    Slots = 2
    Requests <- AnyRequest
    Modulus = 16
    MaxAllocs = 2
    STR_MAX_LEN = 2
    Lengths <- SmallLengths
    PrintfFails = FALSE
    Callbacks = {c1, c2}
SPECIFICATION FormatSpec
CHECK_DEADLOCK FALSE
INVARIANT StackPiecesApart
