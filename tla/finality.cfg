SPECIFICATION Spec
CONSTANTS
    MIN_CONFIRMATION_DEPTH = 2
    MAX_ATTEMPTS = 3
    PAGE_LIMIT = 1
    PAGE_SCAN_LIMIT = 2
    HasHash = {TRUE, FALSE}
    Balance = 4
    MaxTxs = 4
    MaxLedger = 4
INVARIANTS WithdrawnIsBuried NeverSkipped PendingIsOnLedger
CHECK_DEADLOCK FALSE
