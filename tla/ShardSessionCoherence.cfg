SPECIFICATION Spec
CONSTANTS
    Chains <- SplitChain
    TotalBlocks = 3
    MaxTokens = 2
    MAX_RETRIES = 2
    Self = 0
    NewRanges = {}
    Faults = {"reset"}
    MaxFaults = 1
INVARIANT PinnedCachesCoherent
CHECK_DEADLOCK FALSE
