CONSTANTS
    MaxBlock = 12
    StaleBlocks = 2
    EpochBlocks = 2
    MonthBlocks = 5
    Consumers = {c1}
    basic = basic
    PlanIndices = {basic}
    Price <- OnePrice
    Durations = {2}
    MaxDuration = 2
    DiscountMonths = 2
    DiscountPercent = 20
    Scenarios = {{"buy"}}
    MaxTxs = 3
    Providers = {v1, v2}
    CuAmounts = {1, 2}
    TokenLimit = 2
    Lateness = {0, 2}
    MaxClaims = 3
SYMMETRY ProviderSymmetry
SPECIFICATION CuSpec
INVARIANT ClaimsWillBePaid
CHECK_DEADLOCK FALSE
