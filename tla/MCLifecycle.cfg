SPECIFICATION FairSpec
CONSTANTS
    s1 = s1
    s2 = s2
    r1 = r1
    Servers = {s1, s2}
    Requests = {r1}
    MaxStarts = 1
    Nobody = Nobody
CHECK_DEADLOCK FALSE
INVARIANTS
    StartsFailForAReason
    HandlersHaveDatabase
PROPERTIES
    EveryStopEnds
