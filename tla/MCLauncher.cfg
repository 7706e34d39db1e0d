SPECIFICATION Spec
CONSTANTS
    Blocks <- SampleBlocks
    Required = {52, 5122}
    Scenarios <- MCScenarios
    MaxLaunches = 3
INVARIANTS
    TypeOK
    ChangedIsExact
    CompleteIsExact
    OtpFitsImage
PROPERTY
    StoredIsRecalculated
