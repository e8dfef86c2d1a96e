SPECIFICATION FairSpec
CONSTANTS
  N = 3
  Configs = {"A", "B"}
  MaxStarts = 3
  GateCount = 1
  GateFloor = 1
  Null = Null
INVARIANTS
  TypeOK
  OneConfiguration
  CompleteIsReadable
  PublishedIsCleaned
PROPERTIES
  NeverRerun
  GateHolds
  ImplementsLedger
  ProcessEnds
