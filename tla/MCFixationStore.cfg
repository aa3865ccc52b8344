CONSTANTS
    Data = {d1}
    MaxBlock = 6
    MaxRefs = 1
    StaleBlocks = 2
    EpochBlocks = 2
    AppendBlocks <- NowOrNextEpoch
    DeleteBlocks <- AtNextEpoch
SPECIFICATION Spec
INVARIANT NoPanic
INVARIANT References
INVARIANT WellFormed
PROPERTY PastIsFixed
CHECK_DEADLOCK FALSE
