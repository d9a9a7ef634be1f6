CONSTANTS
    Nil = Nil
    Unknown = "X"
    Types <- MCTypes
    Values <- MCValues
    Priors <- MCPriors
    Trail <- MCTrail
SPECIFICATION Spec
INVARIANT DecodeInverts MsgsizeBound
CHECK_DEADLOCK FALSE
