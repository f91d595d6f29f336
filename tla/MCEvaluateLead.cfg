SPECIFICATION FairSpec
CONSTANTS
  Digests = {d1}
  NoDigest = NoDigest
  Jobs = {j1, j2}
  MaxVersion = 6
  MaxEvidence = 2
CHECK_DEADLOCK FALSE
INVARIANTS
  SuccessWasApproved
  EvaluationMatchesSnapshot
  RejectionCancelsFirst
  NoSilentStranding
PROPERTIES
  ProcessesSettle
