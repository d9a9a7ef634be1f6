CONSTANTS
    TTLs <- MCTTLs
    WindowFactor = 20
    Requests <- MCRequests

SPECIFICATION Spec
INVARIANT TypeOK
INVARIANT SSTablesBounded
CHECK_DEADLOCK FALSE
