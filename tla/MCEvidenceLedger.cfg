SPECIFICATION Spec
CONSTANTS
  Workers = {w1, w2}
  Leads = {l1}
  Facts = {f1, f2, f3}
  Claims = {c1}
  s1 = s1
  s2 = s2
  s3 = s3
  page1 = page1
  page2 = page2
  Sources = {s1, s2, s3}
  Approvals = {a1}
  None = None
  ContentOf <- MCContentOf
  Official = {}
  Excluded = {s3}
  MinIndependent = 2
SYMMETRY Symmetry
CHECK_DEADLOCK FALSE
INVARIANTS
  SupersededOnce
  OneLiveRowPerClaim
  PromotedIsCorroborated
PROPERTIES
  SnapshotSeesErasure
