CONSTANTS
    Month = 24
    WordBits = 8
    Span = 6
    Ranges <- MCRangesEmptyAtZero
    StoredT0s <- MCStoredT0s
    BadT0s <- MCBadT0s
    MayFail = FALSE
SPECIFICATION Spec
INVARIANT RowsQueriedOnce
CHECK_DEADLOCK FALSE
