SPECIFICATION Spec
CONSTANTS
  a = a
  b = b
  c = c
  NoIssue = NoIssue
  Issues <- TwoIssues
  Deps <- Independent
  AutoReview = TRUE
  RequirePermission = FALSE
  MaxConcurrent = 2
  MaxExecutorProcesses = 1
  MaxReviewCycles = 2
  UserCommands = {}
  ClientChecks = TRUE
  Faults = {"merge"}
INVARIANTS
  MarkerHasOwner
CHECK_DEADLOCK FALSE
