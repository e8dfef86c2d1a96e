SPECIFICATION Spec
CONSTANTS
  t1 = t1
  c1 = c1
  Tables = {t1}
  Columns = {c1}
  TableOf <- OneTable
  Phrases = {p1}
  Rules = {}
  Tools = {"meaning"}
  Budget0 = 34
  MaxCalls = 14
  MaxOfficial = 1
  Batch = 1
  FinalGate = TRUE
  Leaderboard = FALSE
  Null = Null
PROPERTIES
  DraftFailureKeepsFormal
