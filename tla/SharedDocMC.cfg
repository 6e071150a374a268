SPECIFICATION FairSpec
CONSTANTS
    c1 = c1
    c2 = c2
    Conns <- McConns
    MaxEdits = 3
    MaxRooms = 2
    MaxFaults = 1
INVARIANTS
    TypeOK
    DirtyHasReader
    SeatedInOpenRoom
    FollowedIsSeated
    EditsKept
PROPERTIES
    EditStored
CHECK_DEADLOCK FALSE
