SPECIFICATION Spec
CONSTANTS
  a = a
  b = b
  c = c
  NoIssue = NoIssue
  Issues <- ThreeIssues
  Deps <- ChainAndOne
  AutoReview = TRUE
  RequirePermission = TRUE
  MaxConcurrent = 2
  MaxExecutorProcesses = 1
  MaxReviewCycles = 2
  UserCommands <- Attended
  ClientChecks = TRUE
  Faults = {"executor", "reviewer", "removal", "crash"}
INVARIANTS
  DependenciesFirst
  RunningHasOwner
  MarkerHasOwner
PROPERTIES
  FulfilsContract
  NeedsRelease
CHECK_DEADLOCK FALSE
