SPECIFICATION FairSpec
CONSTANTS
    Accounts = {a1}
    ChannelCap = 2
    Retention = 0
    UserRefresh = 1
    RefreshBatch = 1
    ScanPeriod = 2
    MaxLedger = 3
    MaxRestarts = 1
    MayShutDown = TRUE
INVARIANTS TypeOK 
PROPERTIES CatchesUp
CHECK_DEADLOCK FALSE
