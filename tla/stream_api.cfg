SPECIFICATION Spec
CONSTANTS
    Streams = {1, 2}
    Group <- InOrder
    Targets = {1}
    Batches <- BothOrders
    Keys = {k1}
    Amounts = {1, All}
    All = All
    Duration = 2
    MaxTime = 2
    MaxRequests = 3
INVARIANTS PayoutsAccounted AppliedOnce
PROPERTIES FollowsTable VestedNeverFalls EveryRequestAnswered
CHECK_DEADLOCK FALSE
