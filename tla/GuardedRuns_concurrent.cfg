SPECIFICATION Spec
CONSTANTS
    NoFile = NoFile
    Proc = {p1, p2}
    Modes = {"single", "batch"}
    RetryLimit = 1
    Faults = {"plugin_load", "spawn_error", "crash"}
    MayClear = TRUE
    MaxRuns = 4
    MaxTime = 3
    Threshold = 2
    Cooldown = 1
CHECK_DEADLOCK FALSE
SYMMETRY Symmetry
INVARIANTS
    TypeOK
    CountsAreRealFailures
    RecordsAreSound
