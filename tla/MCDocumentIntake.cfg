SPECIFICATION DocumentSpec
CONSTANTS
  Clients = {c1, c2}
  Paths = {inbox, media}
  Bytes = {good, bad}
  good = good
  bad = bad
  Documents <- MCDocuments
  Contents <- MCContents
  Limit <- MCLimit
  LeadIds = {lead1, lead2}
  None = None
  inbox = inbox
  media = media
  lead1 = lead1
  lead2 = lead2
  Tokens <- MCTokens
  Requests <- MCRequests
  Bindings <- MCBindings
SYMMETRY Symmetry
INVARIANTS
  ExtractionsAreGrounded
  ChannelBytesNeedCapability
  NothingLostSilently
