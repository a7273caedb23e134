SPECIFICATION Spec
CONSTANTS
    NoEntry = NoEntry
    t1 = t1
    t2 = t2
    t3 = t3
    c1 = c1
    c2 = c2
    Task = {t1, t2, t3}
    CommandOf <- MixedCommands
    Proc = {p1, p2}
    RetryLimit = 1
    TTL = 1
    TicksPerSecond = 2
    Faults = {"spawn_error", "plugin_load", "clear"}
    BreakerMayDeny = TRUE
    MaxRuns = 3
    MaxTime = 3
CHECK_DEADLOCK FALSE
SYMMETRY Symmetry
INVARIANTS
    TypeOK
    ZeroIsEarned
    CacheIsSound
PROPERTY
    ReplaysAreFresh
