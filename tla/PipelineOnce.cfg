SPECIFICATION Spec
CONSTANTS
  hris = hris  payroll = payroll  crm = crm
  a = a  b = b  c = c  d = d  ann = ann  bob = bob  w1 = w1  w2 = w2
  typo = typo  dispute = dispute  rule = rule  NoQuestion = NoQuestion
  Files = {hris, crm}
  Rows = {a, d}
  People = {ann}
  Keyed = {a}
  Values = {typo}
  Conflicts = {dispute}
  Rules = {rule}
  Decided = {}
  FileOf <- MCFileOf
  PersonOf <- MCPersonOf
  Rank <- MCRank
  RowAsks <- MCRowAsks
  MergeAsks <- MCMergeAsks
  Threads = {w1, w2}
  MaxMoves = 2
  Env = {"die", "restart", "stale", "override"}
SYMMETRY Symmetry
INVARIANT TypeOK
INVARIANT GateRespected
INVARIANT OnePerPerson
INVARIANT NoRowLost
INVARIANT QuestionsAreLive
INVARIANT NeverStalls
PROPERTY StageNeverGoesBack
CHECK_DEADLOCK FALSE
