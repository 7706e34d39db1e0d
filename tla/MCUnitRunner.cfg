SPECIFICATION FairSpec
CONSTANTS
    LineLimit = 3
    SignalLimit = 2
INVARIANTS
    TypeOK
    PassIsReal
    NobodyLeftBehind
PROPERTIES
    NeverSignalsReaped
    RunEnds
