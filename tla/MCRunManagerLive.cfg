CONSTANTS
    MaxItems = 1
    MaxExpect = 1
    MaxStops = 2
    MaxLeaves = 1
SPECIFICATION Spec
CHECK_DEADLOCK FALSE
INVARIANTS
    QuietWhilePaused
    SwitchIsClosedAgain
PROPERTIES
    BeltClears
