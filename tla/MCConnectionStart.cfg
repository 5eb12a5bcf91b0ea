CONSTANTS
    FromLine <- OnePacket
    MaxPosts = 0
    Role = "master"
SPECIFICATION Spec
CHECK_DEADLOCK FALSE
PROPERTIES
    LineIsHeard
