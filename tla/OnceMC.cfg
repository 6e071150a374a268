SPECIFICATION OnceSpec
CONSTANTS
  Calls = {"a", "b", "c"}
  Instances = {"i", "j"}
  MaxThrows = 2
  MaxRefused = 1
  MaxFlips = 1
  MaxExpired = 1
  TourPlayers = {"p", "q"}
  TourCalls = {"c", "d"}
  MaxGames = 3
  MaxCrashes = 1
  MaxIdle = 1
  SentScope <- TwoDevices
  KeptScope <- LostDevice
  SlotsScope <- InTurn
  RacesScope <- AtOnce
INVARIANTS
  TournamentSound
  DeliverySound
  WriteSound
  SlotsSound
PROPERTIES
  Reaches
CHECK_DEADLOCK FALSE
