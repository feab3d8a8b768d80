SPECIFICATION Spec
CONSTANTS
  k = k
  r1 = r1
  r2 = r2
  a = a
  bad = bad
  NoKey = NoKey
  IdempotencyKeys = {k}
  Requests = {r1, r2}
  UnsafeNames = {bad}
  Answers <- MCAnswers
  Moves <- MCMoves
  MaxSubmits = 2
  MaxAsked = 2
  MaxWrites = 2
  MaxStops = 1
SYMMETRY MCSymmetry
INVARIANTS
  OneRunPerKey
  PlansAreRight
  PlanAnswersItsRun
PROPERTIES
  RunsKeepTheirIdentity
CHECK_DEADLOCK FALSE
