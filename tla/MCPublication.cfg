SPECIFICATION Spec
CONSTANTS
    Artifacts <- BuiltProjections
    Commits = {c1, c2}
    NoCommit = NoCommit
    NoArtifact = NoArtifact
    PointerIds <- Items
    Runners = {run}
    Sweepers = {sweep}
    BatchSize = 1
    Tags = {t1, t2}
    Publications = {p1, p2}
    Pushes = {s1, s2}
    NoRevision = NoRevision
    NoTag = NoTag
    CommitAckMayBeLost = FALSE
SYMMETRY Interchangeable
INVARIANTS
    ResolvedHasBytes
    PublishedIsServed
    FailedLeavesNothing
    CollectedIsUnreferenced
CHECK_DEADLOCK FALSE
