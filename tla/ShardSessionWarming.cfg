SPECIFICATION Spec
CONSTANTS
    Chains <- SplitChain
    TotalBlocks = 3
    MaxTokens = 2
    MAX_RETRIES = 2
    Self = 0
    NewRanges = {}
    Faults = {"warming"}
    MaxFaults = 0
PROPERTY WarmingIsNotFatal
CHECK_DEADLOCK FALSE
