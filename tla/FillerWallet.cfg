SPECIFICATION Spec
CONSTANTS
    p1 = p1  b1 = b1  xlm = xlm
    Assets = {xlm}
    FeeAsset = xlm
    FeeReserve = 1
    Pools <- OnePool
    Borrowers = {b1}
    NoOne = NoOne
    PoolOf <- BothInOne
    AssetsOf <- Native
    Wallet <- Two
    Spends <- OneOnly
    Whole = 2
    BackoffMax = 1
    AlertAt = 1
    ModesChecked = {"armed"}
    HeldAtFirst = {"none", "debt"}
    MaxLedger = 3
    MaxFaults = 1
PROPERTIES ReadBeforeGivingUp
CHECK_DEADLOCK FALSE
