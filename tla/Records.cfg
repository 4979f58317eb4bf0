SPECIFICATION Spec
CONSTANTS
  a = a  b = b  hris = hris  payroll = payroll  good = good  bad = bad
  active = active  other = other  Terminated = Terminated  Self = Self
  Blank = Blank  Undecided = Undecided  ByRank = ByRank
  Rows = {a, b}
  FileOf <- MCFileOf
  Rank <- MCRank
  Candidates <- MCCandidates
  Malformed = {bad}
  Required = {"hire_date", "employment_status", "work_email"}
  Material = {"hire_date"}
  Sixteen = 16
  Typed <- MCTyped
  MaxMoves = 3
INVARIANT TypeOK
INVARIANT BrokenRulesAreAsked
INVARIANT AskedOnce
PROPERTY SurvivorIsRequestioned
CHECK_DEADLOCK FALSE
