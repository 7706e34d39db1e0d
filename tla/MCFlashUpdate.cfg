SPECIFICATION Spec
CONSTANTS
    Launch = {w1, w2, r1}
    Writer = {w1, w2}
    Inode = {i1, i2, i3, i4, i5}
    None = None
SYMMETRY MCSymmetry
INVARIANTS
    TypeOK
    RunsConsistentImage
    NoStrayFiles
PROPERTIES
    ImplementsFile
    OnlyOldReadsReplace
