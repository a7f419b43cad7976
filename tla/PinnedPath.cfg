SPECIFICATION PathSpec
CONSTANTS
    Chains <- MCChains
    TotalBlocks = 4
INVARIANTS
    PathTypeOK
    PathCovers
    SingleCandidate
    GreedyIsComplete
PROPERTY PinTerminates
CHECK_DEADLOCK FALSE
