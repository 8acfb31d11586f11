SPECIFICATION Spec
CONSTANTS
    Accounts = {a1}
    ChannelCap = 2
    Retention = 0
    UserRefresh = 9
    RefreshBatch = 1
    ScanPeriod = 0
    MaxLedger = 5
    MaxRestarts = 0
    MayShutDown = FALSE
INVARIANTS OneReseedPerGap
CHECK_DEADLOCK FALSE
