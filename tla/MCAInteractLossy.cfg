SPECIFICATION Spec
CONSTANTS
  Budget0 = 20
  MaxTurns = 5
  Batch = 2
  Fallback = TRUE
  Outages = TRUE
  MaxLost = 2
  Null = Null
INVARIANTS
  PhasesEarned
  OutageNotCounted
  SubmissionsPaid
