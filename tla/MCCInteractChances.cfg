SPECIFICATION Spec
CONSTANTS
  Protocol = "official"
  MaxAttempts = 1
  Outages = FALSE
  MaxTurns = 7
  Batch = 2
  MaxTurn = 1
  MaxLost = 0
  Error = Error
  Null = Null
INVARIANTS
  OneVerdictPerRun
