SPECIFICATION Spec
CONSTANTS
    NoName = NoName
    Names = {}
    Submitter = {s1, s2}
    Runner = {r1}
    Clearer = {}
    MaxDepth = 2
    Faults = {}
    MaxSubmits = 2
    MaxOps = 1
CHECK_DEADLOCK FALSE
INVARIANT
    AcceptedIsStored
