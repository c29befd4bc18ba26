SPECIFICATION Spec
CONSTANTS
    s1 = s1
    r1 = r1
    r2 = r2
    Accounts = {s1, r1, r2}
    Escrow = Escrow
    None = None
    Payers = {s1}
    Payees = {r1, r2}
    Collectors = {r2}
    Funding = 15000
    Draws = {1500, 3000}
    MaxTime = 3
    I128Max = 20000
    U64Max = 50000
    MaxSplits = 1
    SplitTotals = {5000, 9000}
    SplitEnds = {0, 2, 3}
    Rosters <- MCRosters
    MaxRecurring = 1
    CycleAmounts = {3000}
    CycleDurations = {1, 2}
    CycleCounts = {2}
    CycleStarts = {1}
    CycleFees = {5}
INVARIANTS ProgramsSolvent SplitSharesExact SplitCanBeCancelled PayoutFollowsClock
CHECK_DEADLOCK FALSE
