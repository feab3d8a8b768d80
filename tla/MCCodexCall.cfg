SPECIFICATION FairSpec
CONSTANT MaxRetries = 2
INVARIANTS
  SettledIsClean
  NoProcessLeftBehind
  KilledIsNoSuccess
  OnlyTimeoutsRetry
PROPERTIES
  NoSpawnAfterAbort
  CallEnds
CHECK_DEADLOCK FALSE
