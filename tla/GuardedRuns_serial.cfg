SPECIFICATION Spec
CONSTANTS
    NoFile = NoFile
    Proc = {p1}
    Modes = {"single", "batch"}
    RetryLimit = 1
    Faults = {"plugin_load", "spawn_error", "crash"}
    MayClear = FALSE
    MaxRuns = 6
    MaxTime = 5
    Threshold = 2
    Cooldown = 2
CHECK_DEADLOCK FALSE
INVARIANT
    OpenNeedsConsecutiveFailures
PROPERTY
    SerialRunsKeepThePromise
