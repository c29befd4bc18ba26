SPECIFICATION Spec
CONSTANTS
    Streams = {1}
    Group <- NoGroup
    Targets = {1}
    Batches = {}
    Keys = {k1, k2}
    Amounts = {1, All}
    All = All
    Duration = 2
    MaxTime = 2
    MaxRequests = 3
INVARIANTS WrappedOnce
CHECK_DEADLOCK FALSE
