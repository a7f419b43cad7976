SPECIFICATION Spec
CONSTANTS
    Chains <- AllChains
    TotalBlocks = 3
    MaxTokens = 2
    MAX_RETRIES = 1
    Self = 1
    NewRanges <- Moved
    Faults = {"warming", "unsupported", "block", "reset", "closed", "timeout", "evict", "restart"}
    MaxFaults = 2
INVARIANTS
    TypeOK
    ActivationFollowsPath
    UndisturbedTokensSound
PROPERTY SessionEnds
CHECK_DEADLOCK FALSE
