\* One view; two run ids, four writes, two clicks or failures.
SPECIFICATION Spec
CONSTANTS
  All = All
  Off = Off
  KeepEvents = 1
  ReplayEvents = 1
  MaxRuns = 2
  MaxWrites = 4
  MaxMoves = 2
INVARIANTS
  StreamIsFaithful
  NoRefreshLost
PROPERTY
  ScreenCatchesUp
CHECK_DEADLOCK FALSE
