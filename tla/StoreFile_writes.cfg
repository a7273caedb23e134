SPECIFICATION Spec
CONSTANTS
    Partial = Partial
    Absent = Absent
    NoInode = NoInode
    Proc = {p1, p2, p3}
    Value = {v1, v2}
    Inode = {i1, i2, i3, i4}
    MayClear = TRUE
    MaxLeft = 1
SYMMETRY Symmetry
INVARIANTS
    FilesAreSound
    LeftoversComeFromKills
PROPERTY
    StoreKeepsTheRegister
