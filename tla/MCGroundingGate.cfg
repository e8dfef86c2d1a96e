SPECIFICATION FairSpec
CONSTANTS
  t1 = t1
  c1 = c1
  Tables = {t1}
  Columns = {c1}
  TableOf <- OneTable
  Phrases = {p1}
  Rules = {}
  Tools = {"meaning", "ask"}
  Budget0 = 34
  MaxCalls = 13
  MaxOfficial = 1
  Batch = 1
  FinalGate = TRUE
  Leaderboard = TRUE
  Null = Null
INVARIANTS
  SucceededMeansComplete
  StoredDraftResumable
  DraftAnswersCount
PROPERTIES
  ImplementsLedger
  GroundingConcludes
