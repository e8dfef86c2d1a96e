\* Two requests at once: a client gave up on the first and sent another.
CONSTANTS
    r1 = r1
    r2 = r2
    Req = {r1, r2}
    Sqls = {"insert"}
    Analyzes = {}
    MaxGen = 1
    Overlap = TRUE
    Tasks <- FollowUpTask
SPECIFICATION Spec
SYMMETRY Symmetry
INVARIANT EvaluatedWhereItRan
CHECK_DEADLOCK FALSE
