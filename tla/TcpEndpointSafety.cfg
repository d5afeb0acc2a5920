SPECIFICATION Spec
CONSTANTS
    c1 = c1
    c2 = c2
    Conn = {c1, c2}
    Limit = 0
    MaxData = 1
    MaxMoves = 1
INVARIANTS
    Owned
    FreshBackend
    IInv
    HalfClosePropagated
PROPERTY Promised
SYMMETRY Conns
CHECK_DEADLOCK FALSE
