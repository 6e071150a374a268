SPECIFICATION Spec
CONSTANTS
    c1 = c1
    c2 = c2
    Conns <- McConns
    MaxEdits = 3
    MaxRooms = 2
    MaxFaults = 0
CHECK_DEADLOCK FALSE
INVARIANTS
    OneWriteAtATime
