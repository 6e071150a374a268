SPECIFICATION Spec
CONSTANTS
    p1 = p1
    p2 = p2
    p3 = p3
    s1 = s1
    s2 = s2
    s3 = s3
    c1 = c1
    c2 = c2
    Players <- TwoPlayers
    Tables <- TwoTables
    Calls <- TwoCalls
    MinPlayers = 2
    MaxPlayers = 2
    MaxBans = 1
    MayFail = FALSE
SYMMETRY Alike
INVARIANTS
    BannedLeavesTables
CHECK_DEADLOCK FALSE
