SPECIFICATION Spec
CONSTANTS
    NoTask = NoTask
    NoWorker = NoWorker
    Task = {1, 2}
    Missing = {}
    Worker = {w1}
    InitialStatus = {"pending"}
    Faults = {"spawn_error"}
    MaxBatches = 1
CHECK_DEADLOCK FALSE
INVARIANT
    BatchSettlesEverything
