\* Two relays at a time, two epochs: see MCSettings.
SPECIFICATION FairSpec
CONSTANTS
    p1 = p1
    p2 = p2
    SlowProbes <- MCSlowProbes
    Providers = {p1, p2}
    Relays = {r1, r2}
    Keys = {"default", "addon"}
    DefaultKey = "default"
    Supports <- MCSupports
    PairingOf <- MCPairingOf
    LastEpoch = 2
    MaxComputeUnits = 2
    VirtualEpoch = 0
    RelayCu = {1}
    MaxConsecutiveConnectionAttempts = 2
    MaxAllowedBlockListedSessionPerProvider = 1
    MaximumNumberOfFailuresAllowedPerConsumerSession = 1
    MaxSessionsAllowedPerProvider = 1
    Settings <- MCSettings
INVARIANT SessionsBorrowed
INVARIANT UsedAccounted
INVARIANT CachesFresh
PROPERTY GetSessionsReturns
CHECK_DEADLOCK FALSE
