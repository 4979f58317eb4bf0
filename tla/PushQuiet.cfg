SPECIFICATION SerialSpec
CONSTANTS
  e1 = e1  e2 = e2  w1 = w1  w2 = w2  r1 = r1  r2 = r2
  good = good  better = better  wrong = wrong  partial = partial
  NoValue = NoValue
  Runs = {r1}
  Employees = {e1}
  Workers = {w1, w2}
  Values = {good, better, wrong, partial}
  Complete = {good, better, wrong}
  Refusable = {better, wrong}
  MaxRetries = 0
  MaxThreads = 3
  MaxAnswers = 2
  Env = {"answer", "fill", "rollback", "stop", "kill", "restart"}
SYMMETRY RefusedSymmetry
INVARIANT OnlyStagedReachesTarget
INVARIANT NothingGoesQuiet
INVARIANT NoSecondCopy
INVARIANT AnsweredIsClosed
CHECK_DEADLOCK FALSE
