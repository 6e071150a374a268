SPECIFICATION FairSpec
CONSTANTS
    p1 = p1
    p2 = p2
    c1 = c1
    c2 = c2
    Players <- McPlayers
    Calls <- McCalls
    MinPlayers = 2
    MaxFaults = 2
    MaxStarts = 2
    MaxActs = 1
INVARIANTS
    TypeOK
    WakeUpPending
    IdleTimerKept
    OpenHoldsPlayers
PROPERTIES
    LivesOnce
    SilentGameStops
    SweepEndsGames
CHECK_DEADLOCK FALSE
