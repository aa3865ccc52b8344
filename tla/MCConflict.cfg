CONSTANTS
    j1 = j1
    j2 = j2
    j3 = j3
    Conflicts = {k1}
    Jury = {j1, j2, j3}
    Managed = {j1}
    Stake <- Stakes
    Answers = {"response1", "other"}
    EpochBlocks = 2
    EpochsToSave = 3
    VoteStartSpan = 1
    VotePeriod = 1
    MajorityPercent = 60
    MaxHeight = 8
    MaxReports = 2
    Prompt = FALSE
    MaxFaults = 1
SPECIFICATION Spec
INVARIANT JudgedOnce
INVARIANT JuryCounted
INVARIANT VerdictByMajority
CHECK_DEADLOCK FALSE
