CONSTANTS
    Alphabet = {1, 2}
    MaxMemory = 4
    MaxNeedle = 3
    Limits = {2, 9}
SPECIFICATION Spec
CHECK_DEADLOCK FALSE
INVARIANT FindsFirst
INVARIANT SearchesAgree
INVARIANT ReplaceUndone
INVARIANT JoinUndoesSplit
INVARIANT TokensAreRuns
INVARIANT PiecesRunOut
