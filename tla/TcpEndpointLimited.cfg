SPECIFICATION Spec
CONSTANTS
    c1 = c1
    c2 = c2
    Conn = {c1}
    Limit = 1
    MaxData = 1
    MaxMoves = 0
INVARIANT HalfClosePropagated
CHECK_DEADLOCK FALSE
