SPECIFICATION LivesSpec
CONSTANTS
  MaxSockets = 8
  MaxLosses = 2
  MaxAsked = 2
  MaxNotes = 3
  SeenLimit = 2
  Window = 1
  EarlySilence = FALSE
  WatchScope <- OneInstance
  WatchesScope <- TwoInstances
  ViewScope <- OneMember
  ViewsScope <- TwoMembers
INVARIANTS
  WatchSound
  SessionSound
  PresencesSound
PROPERTIES
  WatchSettles
  SessionHears
CHECK_DEADLOCK FALSE
