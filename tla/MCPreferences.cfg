SPECIFICATION Spec
CONSTANTS
  Clients = {c1, c2}
  Principals = {p1}
  Keys = {k1, k2}
  Values = {v1, v2}
  None = None
  Now = 100
  p1 = p1
  k1 = k1
  k2 = k2
  v1 = v1
  v2 = v2
  Requests <- MCRequests
INVARIANTS
  InferredHasEvidence
  OneOperationPerCapability
PROPERTIES
  RepeatAddsNothing
