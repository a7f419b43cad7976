SPECIFICATION Spec
CONSTANTS
    n1 = n1
    n2 = n2
    n3 = n3
    Nodes <- Three
    Movers <- Pair
    FixedStart <- AtZero
    TotalBlocks = 3
    CfgBlocks <- Counts
    ValidCounts = {1, 2}
    MinRedundancy = 1
    MaxAbandoned = 1
INVARIANT ReadyMeansLoaded
