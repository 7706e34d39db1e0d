SPECIFICATION FairSpec
CONSTANTS
    ThreadCount = 3
    BatchSize = 2
    Batches = 8
    CheckInterval = 2
    HasProgress = TRUE
    MaxMatches = 2
    MatchSets <- SmallMatchSets
INVARIANTS
    TypeOK
    NoWorkerOutlivesCall
    ReturnIsExact
    BatchesAreDisjoint
    ProgressRunsUp
PROPERTIES
    ImplementsSearch
    Terminates
