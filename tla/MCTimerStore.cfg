CONSTANTS
    Keys = {1, 2}
    Data = {d1}
    None = None
    MaxHeight = 3
    MaxTime = 2
SPECIFICATION Spec
INVARIANTS TypeOK NextTimeoutSafe NoOverdueTimer FiresAtFirstBlock
PROPERTIES ImplementsTimerService HeightTimerLeaves
CHECK_DEADLOCK FALSE
