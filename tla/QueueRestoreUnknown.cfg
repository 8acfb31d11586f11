SPECIFICATION Spec
CONSTANTS
    Subs = {s1, s2}
    NoSub = NoSub
    Capacity = 1
    Retries = 0
    PollLedgers = 1
    Retention = 2
    IdleLedgers = 3
    MaxForeign = 1
SYMMETRY Symmetry
INVARIANTS NothingUnknownBehindPrepare
CHECK_DEADLOCK FALSE
