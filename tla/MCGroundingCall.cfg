\* Two tasks in one process, three calls each, one failing write.
CONSTANTS
  a = a
  b = b
  Tasks = {a, b}
  Stages = {"mapping", "stage", "gate"}
  MaxCalls = 3
  MaxFaults = 1
  Null = Null
SPECIFICATION FairSpec
INVARIANTS
  TypeOK
  CountInStep
  AuditAgrees
PROPERTIES
  ImplementsStages
  StageEnds
\* A chain that has its verdict does nothing more.
CHECK_DEADLOCK FALSE
