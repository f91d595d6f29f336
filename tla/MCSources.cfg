SPECIFICATION Spec
CONSTANTS
  Clients = {c1, c2}
  Scheduler = c1
  Keys = {s1}
  Uris = {u1, u2}
  Limit = 1
  None = None
  s1 = s1
  u1 = u1
  u2 = u2
  Adds <- MCAdds
  Cites <- MCCites
  Watches <- MCWatches
INVARIANTS
  ClaimsStayValid
PROPERTIES
  LooseningIsDeliberate
  DueIsClaimed
CHECK_DEADLOCK FALSE
