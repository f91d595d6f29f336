CONSTANTS
  None = None
  Samples <- MCSamples
  Facts <- MCFacts
  Severities = {"high", "blocking"}
  MaxFindings = 2
  Evaluations <- MCEvaluations
  Rubric <- ReviewedRubric
SPECIFICATION VerdictSpec
INVARIANTS
  EveryVerdictIsStored
  PeriodsDecide
PROPERTIES
  HighPriorityIsEarned
