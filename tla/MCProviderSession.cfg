CONSTANTS
    Relays = {r1, r2}
    SessionIds = {s1}
    Kinds = {"relay", "badge", "subscribe"}
    RelayNums = {1, 2}
    CuSums = {1, 3, 7}
    RequestEpochs = {1}
    RestoredCus = {0, 3}
    CuFromSpec = 2
    MaxComputeUnits = 5
    BadgeComputeUnits = 2
    AllowedMissing = 2
    VirtualEpoch = 0
    BlockDistance = 1
    Word = 8
    MaxEpoch = 2
    MaxRequests = 3
SYMMETRY Symmetry
SPECIFICATION Spec
INVARIANT TypeOK
INVARIANT Exclusive
INVARIANT UsedAccounted
INVARIANT WithinLimit
INVARIANT MissingBounded
INVARIANT ProofCovered
PROPERTY ServedOnce
CHECK_DEADLOCK FALSE
