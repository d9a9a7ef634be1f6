CONSTANTS
    Month = 24
    WordBits = 8
    Span = 6
    Ranges <- MCRangesToTop
    StoredT0s <- MCStoredT0s

SPECIFICATION Spec
CHECK_DEADLOCK FALSE
INVARIANT RowKeysInRange
