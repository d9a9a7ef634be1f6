CONSTANTS
    Month = 24
    WordBits = 8
    Span = 6
    Ranges <- MCRanges
    StoredT0s <- MCStoredT0s
    BadT0s <- MCBadT0s
    MayFail = TRUE
SPECIFICATION Spec
INVARIANT LegacySearchSound
CHECK_DEADLOCK FALSE
