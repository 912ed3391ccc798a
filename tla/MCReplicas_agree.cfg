CONSTANTS
    Nodes = {1, 2, 3}
    EndTime <- MCEndTime
    Changing = {1, 4, 6, 9}
    Lag = 3
    EpochSwitchDelay = 3
    MaxHeight = 10
SPECIFICATION Spec
CHECK_DEADLOCK FALSE
INVARIANTS SameState SameValidators
