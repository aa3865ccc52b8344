CONSTANTS
    j1 = j1
    j2 = j2
    j3 = j3
    Conflicts = {k1}
    Jury = {j1, j2, j3}
    Managed = {j1}
    Stake <- Stakes
    Answers = {"response1", "other"}
    EpochBlocks = 2
    EpochsToSave = 3
    VoteStartSpan = 1
    VotePeriod = 1
    MajorityPercent = 60
    MaxHeight = 8
    MaxReports = 1
    Prompt = TRUE
    MaxFaults = 0
SPECIFICATION Spec
INVARIANT CommittersReveal
CHECK_DEADLOCK FALSE
