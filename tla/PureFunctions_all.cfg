SPECIFICATION Spec
CONSTANTS
    None = None
    Raises = Raises
    Node = {1, 2, 3}
    Outside = {9}
    MaxDeps = 2
    MaxCommand = 3
    MaxName = 2
    MaxDetail = 2
CHECK_DEADLOCK FALSE
INVARIANTS
    LayersAreOrdered
    CycleIsGenuine
    AncestorsAreClosure
    LengthIsLongestPath
    FormatsAgree
    JournalReadsBack
