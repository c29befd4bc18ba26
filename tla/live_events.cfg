SPECIFICATION LiveSpec
CONSTANTS
    c1 = c1
    c2 = c2
    p1 = p1
    Conns = {c1, c2}
    Routes = {"events", "stream", "indexer"}
    HeartbeatLimits = {0, 2}
    SSE_MAX_EVENTS = 3
    Patches = {p1}
    MaxWrites = 3
INVARIANTS FeedIsCurrent NothingOutlives
PROPERTIES ConnectionsEnd
CHECK_DEADLOCK FALSE
