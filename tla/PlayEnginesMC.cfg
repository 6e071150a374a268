SPECIFICATION EnginesSpec
CONSTANTS
  Corners = 2
  Quarter = 2
  Lane = 1
  StarOffset = 0
  Seats = {0, 1}
  First = 0
  PawnCount = 2
  Six = 3
  MaxSixes = 3
  ExitFaces = {3}
  PlaceWeight = 1000
  SixReplay = TRUE
  ThreeSixes = TRUE
  CaptureReplay = TRUE
  HomeReplay = TRUE
  ForcedCapture = FALSE
  SafeSquares = TRUE
  ExactFinish = TRUE
  FirstHomeWins = FALSE
  LateCalls = 1
  Players = {"a", "b"}
  Nobody = "nobody"
  Categories = {"city"}
  Letters = {"L", "M"}
  Marks = {1}
  NoWord <- Blank
  RoundCount = 2
  Jokers = 1
  Stop = TRUE
  AutoStop = TRUE
  Solo = 4
  Unique = 2
  Shared = 1
  StopBonus = 3
  RejectPercent = 50
  Kinds = {"count", "next", "close", "score", "write", "stop", "vote", "reroll", "leave"}
  HostAtOnce = 1
  MayClear = FALSE
  CallsAtOnce = 2
  MaxCalls = 2
INVARIANTS
  BoardSound
  RoundsSound
PROPERTIES
  RoundsPaidOnce
CHECK_DEADLOCK FALSE
