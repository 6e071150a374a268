SPECIFICATION RoomsSpec
CONSTANTS
  Sockets = {1, 2, 3}
  Accounts = {"a", "b"}
  Owner <- Tabs
  MaxMoves = 7
  TableScope <- OneTable
  AgainScope <- SameTab
  PageSockets = {1}
  PageMoves = 4
  PageFollows = 2
  PageFaults = 1
INVARIANTS
  RoomSound
  SeatSound
  ListsSound
CHECK_DEADLOCK FALSE
