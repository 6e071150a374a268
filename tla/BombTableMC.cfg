SPECIFICATION FairSpec
CONSTANTS
    c1 = c1
    c2 = c2
    Calls <- McCalls
    SeatCount = 3
    StartLives = 2
    MaxLives = 2
    MinTurn = 1
    FuseMin = 2
    FuseMax = 2
    Countdown = 1
    MaxWords = 1
INVARIANTS
    TypeOK
    HolderAlive
    DraftIsHolders
PROPERTIES
    FairFuse
    ScoresRank
    TableCloses
CHECK_DEADLOCK FALSE
