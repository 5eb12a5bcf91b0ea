CONSTANTS
    MaxItems = 2
    MaxExpect = 0
    MaxStops = 1
    MaxLeaves = 0
SPECIFICATION Spec
CHECK_DEADLOCK FALSE
INVARIANTS
    TypeOK
    TimersMatchTokens
    NothingLost
    SwitchKnowsItem
