SPECIFICATION Spec
CONSTANTS
  e1 = e1  e2 = e2  w1 = w1  w2 = w2  r1 = r1  r2 = r2
  good = good  better = better  wrong = wrong  partial = partial
  NoValue = NoValue
  Runs = {r1, r2}
  Employees = {e1}
  Workers = {w1, w2}
  Values = {good, better}
  Complete = {good, better}
  Refusable = {}
  MaxRetries = 1
  MaxThreads = 3
  MaxAnswers = 1
  Env = {"answer", "stale", "fill", "rollback", "stop", "kill", "restart"}
SYMMETRY ValueSymmetry
INVARIANT TypeOK
INVARIANT BeliefMatchesTarget
CHECK_DEADLOCK FALSE
