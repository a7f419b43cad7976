SPECIFICATION Spec
CONSTANTS
    Chains <- SplitOrWhole
    TotalBlocks = 3
    MaxTokens = 2
    MAX_RETRIES = 1
    Self = 0
    NewRanges = {}
    Faults = {"reset", "timeout"}
    MaxFaults = 5
INVARIANT DuplicationBounded
CHECK_DEADLOCK FALSE
