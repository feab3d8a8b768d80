\* Two issues, a dependency between them; users, failures, reloads and restarts.
SPECIFICATION Spec
CONSTANTS
  k1 = k1
  k2 = k2
  Issues <- MCIssues
  Deps <- MCDeps
  Overlap = FALSE
  MaxWrites = 2
  MaxStarts = 2
  MaxTasks = 5
  MaxEdits = 1
  MaxFaults = 1
INVARIANTS
  NoTaskTwice
PROPERTY
  MirrorConverges
CHECK_DEADLOCK FALSE
