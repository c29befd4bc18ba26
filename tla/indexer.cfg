SPECIFICATION IndexerSpec
CONSTANTS
    l1 = l1
    l2 = l2
    Loops <- MCLoops
    LedgerOf <- MCLedgerOf
    overlapWindow = 1
    MaxTip = 3
    MaxFaults = 1
INVARIANTS GapsOnlyAtCuts
PROPERTIES BackfillHeals EventsIndexed
CHECK_DEADLOCK FALSE
