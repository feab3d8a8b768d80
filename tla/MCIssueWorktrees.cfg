SPECIFICATION Spec
CONSTANTS
  r1 = r1
  r2 = r2
  r3 = r3
  r4 = r4
  a = a
  b = b
  c = c
  d = d
  e = e
  f = f
  g = g
  Runs = {r1, r2, r3, r4}
  Plans <- ThePlans
  Together <- Worlds
  Deps <- TheDeps
  MaxConcurrent = 2
  Shared = Shared
  NoIssue = NoIssue
  MaxRounds <- TheRounds
  MaxCuts = 1
  MaxRestarts = 1
INVARIANTS
  WorkIsKept
  ReviewSeesOwnWork
  BuildsOnDependencies
  OnlyConflictsFail
CHECK_DEADLOCK FALSE
