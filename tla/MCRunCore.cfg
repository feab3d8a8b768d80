SPECIFICATION Spec
CONSTANTS
  a = a
  b = b
  c = c
  NoIssue = NoIssue
  Issues <- TwoIssues
  Deps <- Independent
  AutoReview = TRUE
  RequirePermission = FALSE
  MaxConcurrent = 2
  MaxExecutorProcesses = 1
  MaxReviewCycles = 2
  UserCommands <- NoPlanRequest
  ClientChecks = TRUE
  Faults = {"planner", "executor", "reviewer", "base"}
INVARIANTS
  NoUnreviewedMerge
  DoneIsMerged
  PlannerIsAlone
  HumanSeesFinalPass
  BaselineIsClean
PROPERTIES
  RevisionsAreBounded
  StatusMoves
  NoLateExecutor
CHECK_DEADLOCK FALSE
