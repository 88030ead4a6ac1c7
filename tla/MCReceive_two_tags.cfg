SPECIFICATION Spec
CONSTANTS
    t1 = t1
    t2 = t2
    o1 = o1
    o2 = o2
    c1 = c1
    c2 = c2
    p1 = p1
    p2 = p2
    Tags = {t1, t2}
    Objects = {o1, o2}
    NoObject = NoObject
    Commits = {c1, c2}
    NoCommit = NoCommit
    CommitOf <- MCCommitOf
    NoTag = NoTag
    Pointers = {p1, p2}
    TagOf <- OneOfEach
    Live = {p2}
    Published = {t1, t2}
    Sessions = {s1, s2}
    Reconcilers = {r1}
    Nobody = Nobody
    Seed = Seed
    NoArtifact = NoArtifact
    RefReadMayFail = FALSE
    CommitAckMayBeLost = FALSE
SYMMETRY SessionSymmetry
INVARIANTS
    RefVersionAgreement
    PointerFailClosed
    PreparedCanResolve
    ClosedForAReason
    LiveItemsAvailable
PROPERTIES
    OutcomeMatchesRefs
    ImplementsServing
