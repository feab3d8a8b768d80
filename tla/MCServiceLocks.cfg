SPECIFICATION FairSpec
CONSTANTS
  c1 = c1
  c2 = c2
  c3 = c3
  c4 = c4
  report = report
  r1 = r1
  r2 = r2
  repo = repo
  Nobody = Nobody
  NoLock = NoLock
  Claims <- FourClaims
  Reports <- OneReport
  RunOf <- TwoRuns
  RepoOf <- OneRepo
  MaxExecutorProcesses = 2
INVARIANTS
  SlotsBounded
  NoLostWakeup
  LocksExclude
PROPERTIES
  EverybodyServed
CHECK_DEADLOCK FALSE
