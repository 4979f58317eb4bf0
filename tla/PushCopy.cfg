SPECIFICATION Spec
CONSTANTS
  e1 = e1  e2 = e2  w1 = w1  w2 = w2  r1 = r1  r2 = r2
  good = good  better = better  wrong = wrong  partial = partial
  NoValue = NoValue
  Runs = {r1}
  Employees = {e1}
  Workers = {w1}
  Values = {better, wrong}
  Complete = {better, wrong}
  Refusable = {better, wrong}
  MaxRetries = 0
  MaxThreads = 3
  MaxAnswers = 2
  Env = {"fill"}
INVARIANT OneCopy

CHECK_DEADLOCK FALSE
