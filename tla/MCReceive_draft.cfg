SPECIFICATION FairSpec
CONSTANTS
    t1 = t1
    t2 = t2
    o1 = o1
    o2 = o2
    c1 = c1
    c2 = c2
    p1 = p1
    p2 = p2
    Tags = {t1}
    Objects = {o1, o2}
    NoObject = NoObject
    Commits = {c1, c2}
    NoCommit = NoCommit
    CommitOf <- MCCommitOf
    NoTag = NoTag
    Pointers = {}
    TagOf <- NoItems
    Live = {}
    Published = {}
    Sessions = {s1, s2}
    Reconcilers = {r1}
    Nobody = Nobody
    Seed = Seed
    NoArtifact = NoArtifact
    RefReadMayFail = TRUE
    CommitAckMayBeLost = TRUE
INVARIANTS
    DefaultIsAvailable
PROPERTIES
    HistoryIsAChain
    ArchivedRefsFrozen
    LockComesFree
