SPECIFICATION Spec
CONSTANTS
  c1 = c1
  c2 = c2
  conflict = conflict
  growth = growth
  Clients = {c1, c2}
  Runs = {r1, r2}
  Contents = {x1, x2}
  Pairs = {conflict, growth}
  Classification <- MCClassification
  Criteria = {k1, k2}
  MaxRows = 2
  MaxTruths = 2
  MaxEvaluations = 2
  None = None
SYMMETRY Symmetry
INVARIANTS
  ShowableHasBody
  ReplayIsSafe
PROPERTIES
  MemoRestsOnFinal
  NoFindingIsMissed
CHECK_DEADLOCK FALSE
