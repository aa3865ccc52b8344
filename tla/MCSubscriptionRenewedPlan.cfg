CONSTANTS
    MaxBlock = 13
    StaleBlocks = 2
    EpochBlocks = 2
    MonthBlocks = 5
    Consumers = {c1}
    basic = basic
    premium = premium
    PlanIndices = {basic}
    Price <- CheapAndDear
    Durations = {1}
    MaxDuration = 2
    DiscountMonths = 2
    DiscountPercent = 20
    Scenarios = {{"add_plan", "buy", "auto_renewal"}}
    MaxTxs = 4
SPECIFICATION Spec
INVARIANT NoPanic
CHECK_DEADLOCK FALSE
