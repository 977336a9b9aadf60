CONSTANTS
    Alphabet = {1, 2}
    MaxMemory = 2
    MaxNeedle = 2
    Limits = {2, 9}
SPECIFICATION Spec
CHECK_DEADLOCK FALSE
INVARIANT EqualIgnoringCaseAnywhere
INVARIANT FindStaysInside
INVARIANT NoSeparatorOnePiece
