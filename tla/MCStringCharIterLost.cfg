CONSTANTS
    Slices <- SomeSlices
    CodePoints <- SomeCodePoints
SPECIFICATION CharSpec
CHECK_DEADLOCK FALSE
INVARIANT NeverLost
