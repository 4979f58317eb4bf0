SPECIFICATION Spec
CONSTANTS
  qwen = qwen  oss = oss  c1 = c1  c2 = c2  column = column  pair = pair
  Hosted = {qwen, oss}
  Place <- MCPlace
  Local = Local
  NoModel = NoModel
  Callers = {c1, c2}
  Questions = {column, pair}
  Mappings = {column}
  MaxRetries = 1
  MaxCalls = 2
INVARIANT UnreachableEndsTheChain
CHECK_DEADLOCK FALSE
