SPECIFICATION FairSpec
CONSTANTS
    p1 = p1
    p2 = p2
    Pushes = {p1, p2}
    Commands <- BranchAndTag
    NoOps = {}
    Nobody = Nobody
CHECK_DEADLOCK FALSE
INVARIANTS
    NothingOutlives
    OkIsCompleted
PROPERTIES
    EveryPushEnds
