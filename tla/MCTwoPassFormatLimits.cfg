CONSTANTS
    StackSize = 4
    Slots = 2
    Requests <- SmallRequests
    Modulus = 16
    MaxAllocs = 5
    STR_MAX_LEN = 2
    Lengths <- SmallLengths
    PrintfFails = TRUE
    Callbacks = {c1, c2}
SPECIFICATION FormatSpec
CHECK_DEADLOCK FALSE
INVARIANT DeliveredWithItsUserdata
INVARIANT DeliveredWhole
