SPECIFICATION Spec
CONSTANTS
    p1 = p1
    p2 = p2
    gm = gm
    s1 = s1
    s2 = s2
    s3 = s3
    None = None
    Account = {p1, p2}
    Security <- TwoPlayers
    Sess = {s1, s2}
    InitLimit = 1
    PLimits <- NoLimits
    MayStop = TRUE
INVARIANTS
    StoppedWithoutPlayers
PROPERTIES
    SessionsSettle
CHECK_DEADLOCK FALSE
