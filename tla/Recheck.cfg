SPECIFICATION Spec
CONSTANTS
    Borrowers = 2
    Batch = 1
    Retention = 0
    OraclePeriod = 3
    FullPeriod = 4
    StartupDelay = 1
    DryRun = FALSE
    OtherPools = 1
    RowsAge = FALSE
    Closers = {1}
    MaxLedger = 3
    MaxRestarts = 1
    MayShutDown = TRUE
INVARIANTS TypeOK  OwedStaysFlagged FailedGoBehind
CHECK_DEADLOCK FALSE
