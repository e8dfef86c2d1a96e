SPECIFICATION Spec
CONSTANTS
  Budget0 = 16
  MaxTurns = 4
  Batch = 1
  Fallback = FALSE
  Outages = FALSE
  MaxLost = 1
  Null = Null
INVARIANTS
  RewardMatchesPhases
