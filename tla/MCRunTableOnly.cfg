SPECIFICATION Spec
CONSTANTS
  a = a
  b = b
  c = c
  NoIssue = NoIssue
  Issues <- TwoIssues
  Deps <- Independent
  AutoReview = FALSE
  RequirePermission = FALSE
  MaxConcurrent = 2
  MaxExecutorProcesses = 1
  MaxReviewCycles = 2
  UserCommands <- Unguarded
  ClientChecks = FALSE
  Faults <- FaultKinds
INVARIANTS
  MergeIsExclusive
  StoppedMeansAborted
  ReviewGate
CHECK_DEADLOCK FALSE
