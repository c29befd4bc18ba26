SPECIFICATION Spec
CONSTANTS
    MaxEntries = 2
    Limits = {1, 2}
    DefaultLimit = 2
    BaseDelay = 1
    MaxDelay = 2
    JitterPercent = 0
    MaxTime = 1
    MaxReloads = 1
    MaxRequeues = 1
    MaxFaults = 1
INVARIANTS RunsBounded
PROPERTIES ReloadLosesNothing EveryEntrySettles
CHECK_DEADLOCK FALSE
