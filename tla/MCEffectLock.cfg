SPECIFICATION LockerFairSpec
CONSTANTS
    c1 = c1
    Callers = {c1, c2, c3}
    Plugins = {k1, k2}
    Entries = {e1, e2, e3}
    NoEntry = NoEntry
    Nobody = Nobody
    Connections = {x1, x2}
    NoConnection = NoConnection
    Patient = {c1}
    Abandoned = Abandoned
INVARIANTS
    SessionLocksHeld
PROPERTIES
    ImplementsPluginLock
    EveryCallEnds
