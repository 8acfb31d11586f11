SPECIFICATION Spec
CONSTANTS
    p1 = p1  b1 = b1  xlm = xlm
    Assets = {xlm}
    FeeAsset = xlm
    FeeReserve = 1
    Pools <- OnePool
    Borrowers = {b1}
    NoOne = NoOne
    PoolOf <- BothInOne
    AssetsOf <- Native
    Wallet <- Two
    Spends <- OneOnly
    Whole = 2
    BackoffMax = 1
    AlertAt = 1
    ModesChecked = {"armed", "dry", "keyless"}
    HeldAtFirst = {"none", "move", "debt", "kept"}
    MaxLedger = 3
    MaxFaults = 1
SYMMETRY Symmetry
CHECK_DEADLOCK FALSE
INVARIANTS TypeOK SpendsWhatItRead ReservedIsClaimed ActsOnFresh StaysPending SaysOnce
