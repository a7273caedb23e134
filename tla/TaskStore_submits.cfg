SPECIFICATION FairSpec
CONSTANTS
    NoName = NoName
    Names = {n}
    Submitter = {s1, s2}
    Runner = {}
    Clearer = {}
    MaxDepth = 2
    Faults = {"audit", "crash"}
    MaxSubmits = 3
    MaxOps = 0
CHECK_DEADLOCK FALSE
INVARIANTS
    AppendIsExclusive
    AcceptedIsStored
PROPERTIES
    SubmitsAppendToTheLedger
    EveryCommandReturns
