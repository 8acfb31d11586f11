CONSTANTS
    Width = 4
    Scalar7 = 20
    Scalar12 = 20
    Listed = {1, 2, 3}
    Year = 10
    RampBlocks = 4
    WholePercent = 4
    Bps = 20
    PlanRounds = 3
    ForceFillDelay = 6
    Cases <- MCCases
    UnwindBps = 20
    HealthMargin = 2
    DustFloor = 3
    BackoffRounds = 3
    UnwindCases <- MCUnwindCases
    Priced <- MCPriced
    Prices <- MCPrices
    WatchBps = 20
    DeltaBps = 4
    StaleAfter = 2
    MaxClock = 4
    MaxLost = 1
    Jobs <- MCJobs
    Lapses = {1, 3}
    LastAccrual = 12
    Places = 2
    TargetMin = 103
    TargetMax = 115
    ContractMin = 100
    StroopsMax = 100
    Givens <- MCGivens
    Keys = {k1}
    None = None
    NOTIFY_IN_FLIGHT = 1
    Cooldown = 1
    MaxTime = 0
    MaxSends = 1
    p1 = p1
    w1 = w1
    Pollers <- MCPollers
    Workers <- MCWorkers
    Bystanders <- MCBystanders
    QueueOf <- MCQueueOf
    MaxPanics = 1
    MaxErrors = 1
    LastWords = TRUE
SPECIFICATION MCSpec
CHECK_DEADLOCK FALSE
INVARIANTS NumbersAreExact RoundsForPool PlanIsTakeable ContractTakesFill UnwindIsSound StartIsSound EndsWell
PROPERTIES MoveIsFlagged RunEnds
