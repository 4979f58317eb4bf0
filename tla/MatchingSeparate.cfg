SPECIFICATION Spec
CONSTANTS
  c1 = c1  c2 = c2
  Callers = {c1}
  e1 = e1  e1d = e1d  e2 = e2  ann = ann  amm = amm  anna = anna  annah = annah
  p1 = p1  p2 = p2  d1 = d1
  Blank = Blank
  Rows = {1, 2}
  Candidates <- MCCandidates
  Derived <- MCDerived
  Typos <- MCTypos
  NearNames <- MCNearNames
  Stem <- MCStem
  Cap = 1
  MaxImports = 2
  MaxAnswers = 1
  MaxCalls = 2
PROPERTY KeptSeparate
CHECK_DEADLOCK FALSE
