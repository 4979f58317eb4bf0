SPECIFICATION FairSpec
CONSTANTS
  e1 = e1  e2 = e2  w1 = w1  w2 = w2  r1 = r1  r2 = r2
  good = good  better = better  wrong = wrong  partial = partial
  NoValue = NoValue
  Runs = {r1}
  Employees = {e1, e2}
  Workers = {w1, w2}
  Values = {good, wrong}
  Complete = {good, wrong}
  Refusable = {wrong}
  MaxRetries = 1
  MaxThreads = 3
  MaxAnswers = 0
  Env = {"rollback", "stop"}
INVARIANT PushingIsHeld
PROPERTY ThreadEnds
PROPERTY StageReleased
PROPERTY DeliverySpec
CHECK_DEADLOCK FALSE
