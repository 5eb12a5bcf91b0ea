CONSTANTS
    Kinds = {}
    BarriersM = {}
    BarriersS = {}
    MaxErrors = 2
    MaxEvents = 1
SPECIFICATION Spec
CHECK_DEADLOCK FALSE
PROPERTIES
    NoRecoveryWhileStopped
