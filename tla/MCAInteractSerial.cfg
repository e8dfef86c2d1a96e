SPECIFICATION FairSpec
CONSTANTS
  Budget0 = 16
  MaxTurns = 5
  Batch = 1
  Fallback = FALSE
  Outages = TRUE
  MaxLost = 0
  Null = Null
INVARIANTS
  TypeOK
PROPERTIES
  ImplementsScore
  Concludes
