SPECIFICATION FairSpec
CONSTANTS
  a = a
  b = b
  c = c
  NoIssue = NoIssue
  Issues <- TwoIssues
  Deps <- Independent
  AutoReview = TRUE
  RequirePermission = FALSE
  MaxConcurrent = 1
  MaxExecutorProcesses = 1
  MaxReviewCycles = 2
  UserCommands <- Unattended
  ClientChecks = TRUE
  Faults = {"planner", "executor", "reviewer", "worktree", "removal",
            "crash"}
PROPERTIES
  ComesToRest
CHECK_DEADLOCK FALSE
