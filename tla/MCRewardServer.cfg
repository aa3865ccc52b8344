CONSTANTS
    Sessions <- TwoEpochs
    alice = alice
    badge = badge
    NoBadge = NoBadge
    EpochsToSave = 2
    EpochCuLimit = 2
    TotalCuLimit = 3
    MonthCu = 3
    CuAllocation = 1
    Word = 16
    Cus = {1, 2}
    Distance = 1
    MaxAttempts = 3
    Runners = {g1, g2}
    Nobody = Nobody
    MaxEpoch = 5
    MaxFaults = 2
SPECIFICATION Spec
INVARIANT PaidOnce
INVARIANT CreditWithinLimits
INVARIANT NothingMislaid
INVARIANT PaidInTime
SYMMETRY RunnerSymmetry
CHECK_DEADLOCK FALSE
