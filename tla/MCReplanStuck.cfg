SPECIFICATION FairSpec
CONSTANTS
  a = a
  b = b
  c = c
  NoIssue = NoIssue
  Issues <- TwoIssues
  Deps <- Independent
  AutoReview = TRUE
  RequirePermission = FALSE
  MaxConcurrent = 2
  MaxExecutorProcesses = 1
  MaxReviewCycles = 1
  UserCommands = {"resume"}
  ClientChecks = TRUE
  Faults = {}
PROPERTIES
  ComesToRest
CHECK_DEADLOCK FALSE
