SPECIFICATION Spec
CONSTANTS
  hris = hris  payroll = payroll  crm = crm
  a = a  b = b  c = c  d = d  ann = ann  bob = bob  w1 = w1  w2 = w2
  typo = typo  dispute = dispute  rule = rule  NoQuestion = NoQuestion
  Files = {hris, payroll}
  Rows = {a, b}
  People = {ann}
  Keyed = {a, b}
  Values = {typo}
  Conflicts = {dispute}
  Rules = {rule}
  Decided = {}
  FileOf <- MCFileOf
  PersonOf <- MCPersonOf
  Rank <- MCRank
  RowAsks <- MCRowAsks
  MergeAsks <- MCMergeAsks
  Threads = {w1}
  MaxMoves = 0
  Env = {}
INVARIANT BlockedIsLeftOut
CHECK_DEADLOCK FALSE
