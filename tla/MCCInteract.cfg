SPECIFICATION FairSpec
CONSTANTS
  Protocol = "strict_retry"
  MaxAttempts = 2
  Outages = TRUE
  MaxTurns = 7
  Batch = 2
  MaxTurn = 1
  MaxLost = 1
  Error = Error
  Null = Null
INVARIANTS
  TypeOK
  ResultHonest
  FollowUpInStep
  AnswersOnePhase
PROPERTIES
  ModelGetsItsChance
  Concludes
