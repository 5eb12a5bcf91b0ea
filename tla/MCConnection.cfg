CONSTANTS
    FromLine <- PacketsAndHeartbeat
    MaxPosts = 1
    Role = "master"
SPECIFICATION Spec
CHECK_DEADLOCK FALSE
INVARIANTS
    ProcessedInOrder
