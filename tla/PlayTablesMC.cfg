SPECIFICATION Spec
CONSTANTS
    p1 = p1
    p2 = p2
    p3 = p3
    s1 = s1
    s2 = s2
    s3 = s3
    c1 = c1
    c2 = c2
    Players <- ThreePlayers
    Tables <- TwoTables
    Calls <- TwoCalls
    MinPlayers = 2
    MaxPlayers = 2
    MaxBans = 1
    MayFail = TRUE
SYMMETRY Alike
CONSTRAINT SmallScope
INVARIANTS
    TypeOK
    HostSeated
    QuietOneTable
    SeatsWithinLimit
PROPERTIES
    KickedStayOut
CHECK_DEADLOCK FALSE
