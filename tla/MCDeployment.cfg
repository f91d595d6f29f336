SPECIFICATION Spec
CONSTANTS
  Releases = {1, 2, 3}
  Level <- MCLevel
  Artifacts = {a1}
  MaxPoints = 2
  None = None
INVARIANTS
  RecoveryPointsRestore
  RunningIsCoherent
PROPERTIES
  BackupKeepsService
