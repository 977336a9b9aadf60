CONSTANTS
    StackSize = 4
    Slots = 2
    Requests <- SmallRequests
    Modulus = 16
    MaxAllocs = 5
    STR_MAX_LEN = 2
    Lengths <- SmallLengths
    PrintfFails = FALSE
    Callbacks = {c1, c2}
SPECIFICATION FormatSpec
CHECK_DEADLOCK FALSE
INVARIANT StackPiecesApart
INVARIANT UsesStackIfPossible
INVARIANT FreedExactlyOnce
INVARIANT DeliveredWhole
