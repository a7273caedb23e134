SPECIFICATION FairSpec
CONSTANTS
    NoTask = NoTask
    NoWorker = NoWorker
    Task = {1, 2, 3}
    Missing = {9}
    Worker = {w1, w2}
    InitialStatus = {"pending"}
    Faults = {"spawn_error", "crash"}
    MaxBatches = 2
CHECK_DEADLOCK FALSE
INVARIANTS
    TypeOK
    OutcomeIsStored
    SpawnedOnce
PROPERTIES
    BatchKeepsThePromise
    BatchEnds
