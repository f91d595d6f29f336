SPECIFICATION Spec
CONSTANTS
  Clients = {c1, c2}
  Names = {n1, n2}
  None = None
  d1 = d1
  d2 = d2
  k1 = k1
  k2 = k2
  n1 = n1
  n2 = n2
  e1 = e1
  Asks <- MCAsks
  Similar <- MCSimilar
  Databases <- MCDatabases
  Identities <- MCIdentities
  Texts <- MCTexts
SYMMETRY Symmetry
INVARIANTS
  StartNeverRefuses
  RecordsFollowDecisions
  ResolverIsAdmissible
PROPERTIES
  OnlyUpsertCollides
