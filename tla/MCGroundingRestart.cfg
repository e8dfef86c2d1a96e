SPECIFICATION Spec
CONSTANTS
  t1 = t1
  c1 = c1
  Tables = {t1}
  Columns = {c1}
  TableOf <- OneTable
  Phrases = {p1}
  Rules = {k1}
  Tools = {"ask", "definition"}
  Budget0 = 34
  MaxCalls = 13
  MaxOfficial = 1
  Batch = 2
  FinalGate = FALSE
  Leaderboard = FALSE
  Null = Null
INVARIANTS
  TypeOK
  FrozenStateAvailable
  OmissionsNotMapped
PROPERTIES
  ImplementsLedger
