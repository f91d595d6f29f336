SPECIFICATION Spec
CONSTANTS
  Clients = {c1, c2}
  Digests = {d1, d2}
  NoDigest = NoDigest
  MaxVersion = 6
SYMMETRY Symmetry
INVARIANTS
  RetriesStartClean
  NoLostUpdate
  PayloadBound
PROPERTIES
  CancelIsSticky
  ImplementsLifecycle
