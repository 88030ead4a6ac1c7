SPECIFICATION FairSpec
CONSTANTS
    s1 = s1
    Creators = {c1, c2}
    Processes = {p1, p2}
    Slugs = {s1}
    NoPlugin = NoPlugin
    Nobody = Nobody
    Wanted <- OneSlug
    CommitAckMayBeLost = FALSE
    CreateMayBeSlow = FALSE
INVARIANTS
    RowHasRepository
    AnswersAreTrue
PROPERTIES
    EveryCreateEnds
CHECK_DEADLOCK FALSE
