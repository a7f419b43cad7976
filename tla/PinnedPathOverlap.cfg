SPECIFICATION PathSpec
CONSTANTS
    Chains <- TwoServers
    TotalBlocks = 4
INVARIANT NonOverlapping
CHECK_DEADLOCK FALSE
