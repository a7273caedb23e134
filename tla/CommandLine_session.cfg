SPECIFICATION Spec
CONSTANTS
    NoFile = NoFile
    Threshold = 2
    Cooldown = 1
    MaxDepth = 2
    MaxTasks = 3
    MaxTime = 1
    Lossy = {2}
    Faults <- AllFaults
VIEW Readable
INVARIANTS
    TypeOK
    DoneRespectsDependencies
    JournalExplainsStatus
PROPERTIES
    DamageIsReportedAndKept
    FailedRunsStopTheQueue
