SPECIFICATION Spec
CONSTANTS
    p1 = p1
    p2 = p2
    gm = gm
    s1 = s1
    s2 = s2
    s3 = s3
    None = None
    Account = {p1, p2, gm}
    Security <- PlayersAndGM
    Sess = {s1, s2, s3}
    InitLimit = 1
    PLimits <- AllLimits
    MayStop = FALSE
INVARIANTS
    TableSound
    QueueSound
    PositionsTold
    LoginsReachTheirSession
PROPERTIES
    LimitExact
    QueueFIFO
SYMMETRY SessSymmetry
