CONSTANTS
    None = None
    HasKey = TRUE
    MaxLedger = 4
    MaxFaults = 2
    Subs = {s1, s2}
    NoSub = NoSub
SPECIFICATION MCSpec
CHECK_DEADLOCK FALSE
INVARIANTS ReplayConverges
PROPERTIES Settles EveryCallAnswered ShutdownReleases
