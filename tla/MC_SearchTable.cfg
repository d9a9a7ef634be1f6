CONSTANTS
    Month = 24
    WordBits = 8
    Span = 6
    Ranges <- MCRanges
    StoredT0s <- MCStoredT0s

SPECIFICATION Spec
INVARIANT TypeOK
INVARIANT SearchSuperset
CHECK_DEADLOCK FALSE
