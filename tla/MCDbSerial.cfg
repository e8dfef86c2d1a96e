\* One request at a time: the client never abandons a request.
CONSTANTS
    r1 = r1
    r2 = r2
    Req = {r1}
    Sqls = {"query", "analyze"}
    Analyzes = {"analyze"}
    MaxGen = 2
    Overlap = FALSE
    Tasks <- AllTasks
SPECIFICATION Spec
INVARIANTS
    TypeOK
    VerdictFromResetPoint
    SnapshotCanonical
    InitRecovers
PROPERTIES
    AttemptsNeverForgotten
\* The bound on initialisations lets a run end.
CHECK_DEADLOCK FALSE
