SPECIFICATION FairSpec
CONSTANTS
    c1 = c1
    c2 = c2
    c3 = c3
    Conn = {c1, c2, c3}
    Limit = 2
    MaxMoves = 1
INVARIANTS
    IInv
    NothingLeft
    FreshRequest
PROPERTIES
    OneMoreRequest
    Emptied
    CloseEnds
    Promised
CHECK_DEADLOCK FALSE
