SPECIFICATION Spec
CONSTANTS
    Subs = {s1, s2}
    NoSub = NoSub
    Capacity = 2
    Retries = 1
    PollLedgers = 1
    Retention = 0
    IdleLedgers = 2
    MaxForeign = 1
SYMMETRY Symmetry
INVARIANTS TypeOK NoOverlap AppliedAtMostOnce AnswersAreTrue AppliedInOrder
PROPERTIES QuietAfterUnknown KeepsPromise
CHECK_DEADLOCK FALSE
