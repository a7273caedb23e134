SPECIFICATION Spec
CONSTANTS
    NoName = NoName
    Names = {}
    Submitter = {s1, s2}
    Runner = {r1}
    Clearer = {c1}
    MaxDepth = 2
    Faults = {"spawn_error", "crash"}
    MaxSubmits = 2
    MaxOps = 2
CHECK_DEADLOCK FALSE
SYMMETRY Symmetry
INVARIANTS
    TypeOK
    DependenciesPrecede
    IdsAreUnique
    DoneIsEarned
