CONSTANTS
    Slices <- SomeSlices
    CodePoints <- SomeCodePoints
SPECIFICATION CharSpec
CHECK_DEADLOCK FALSE
INVARIANT CodePointsAreText
INVARIANT LostOnlyIfMalformed
INVARIANT FindsAgree
