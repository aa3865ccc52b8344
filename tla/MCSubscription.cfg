CONSTANTS
    MaxBlock = 12
    StaleBlocks = 2
    EpochBlocks = 2
    MonthBlocks = 5
    Consumers = {c1}
    basic = basic
    premium = premium
    PlanIndices = {basic, premium}
    Price <- CheapAndDear
    Durations = {1, 2}
    MaxDuration = 2
    DiscountMonths = 2
    DiscountPercent = 20
    Scenarios <- SalesScenarios
    MaxTxs = 3
SPECIFICATION Spec
INVARIANT PlanHeld
INVARIANT Solvent
INVARIANT OneMonthTimer
INVARIANT AdminWithSubscription
INVARIANT CreditExact
CHECK_DEADLOCK FALSE
