CONSTANTS
    Keys = {k1, k2}
    None = None
    Missing = None
    NOTIFY_IN_FLIGHT = 1
    Cooldown = 2
    MaxTime = 4
    MaxSends = 3
    Pools = {pool}
    ThisPool = pool
    MaxCount = 2
    MaxUnits = 3
    MaxNotes = 3
    LIVENESS_INTERVALS = 3
    RPC_FAILING_AFTER = 2
    MaxBackoff = 2
    max_lag_ledgers = 1
    ReplicaLag = 1
    Slack = 1
    MaxTicks = 9
    ENTRY_BATCH = 2
    SNAPSHOT_ATTEMPTS = 3
    NodeLag = 1
    MaxClosed = 3
    Walked = 3
    Healths = {1, 2, 3}
    Threshold = 3
    PageLimit = 2
    MaxRewrites = 2
    NoCode = NoCode
    PoolCode = PoolCode
    CallerCode = CallerCode
    user = user
    filler = filler
    FullPercent = 4
    PlanIterations = 3
    MaxCreations = 2
    MaxMoves = 1
SPECIFICATION MCSpec
CHECK_DEADLOCK FALSE
INVARIANTS CooldownIsEarned TellsTruth SnapshotIsOne ScanMissesNobody NothingMisread AuditedFirst WalkReachesBand
