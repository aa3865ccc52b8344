CONSTANTS
    EpochBlocksValues = {1, 2, 3}
    EpochsToSaveValues = {0, 1, 2}
    MaxEpochHeight = 12
    MaxChanges = 3
SPECIFICATION EpochSpec
INVARIANT PastIsTruthful
INVARIANT StoredEpochs
PROPERTY NextEpochForeseen
CHECK_DEADLOCK FALSE
