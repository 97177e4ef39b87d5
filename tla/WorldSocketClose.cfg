SPECIFICATION Spec
CONSTANTS
    k1 = k1
    k2 = k2
    w1 = w1
    w2 = w2
    None = None
    Sock = {k1, k2}
    Sess = {w1, w2}
INVARIANTS
    RoutesToOwner
PROPERTIES
    ClosedSessionDeleted
CHECK_DEADLOCK FALSE
