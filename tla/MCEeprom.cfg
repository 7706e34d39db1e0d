SPECIFICATION Spec
CONSTANTS
    Step = 8
    Chunk = 2
    InlineFull = 8
    LongMetadata = 3
    IdOffset = 2
    MaxId = 4
    Images <- SmallImages
INVARIANTS
    TypeOK
    BlocksAreReadable
    InlineEndsBelowEntry
