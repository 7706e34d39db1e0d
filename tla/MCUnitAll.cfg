SPECIFICATION FairSpec
CONSTANTS
    Jobs = 4
    WorkerCounts = {1, 2}
    BadConfig = {1}
    InterruptLimit = 2
INVARIANTS
    TypeOK
    NoJobOutlivesLock
    ReportIsExact
    BuildFailureIsReported
PROPERTIES
    InterruptStopsQueue
    AllJobsEnd
