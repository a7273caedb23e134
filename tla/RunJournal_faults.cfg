SPECIFICATION FairSpec
CONSTANTS
    Proc = {p1}
    Hooks <- ThreePlugins
    RetryLimit = 2
    BreakerMayDeny = TRUE
    MayReplay = TRUE
    Faults = {"plugin_load", "legacy_log", "disk_full", "spawn_error", "crash"}
CHECK_DEADLOCK FALSE
INVARIANTS
    EntriesAreTrue
    JournalLeadsExecution
    HooksAreIsolated
PROPERTY
    StartedRunsEnd
