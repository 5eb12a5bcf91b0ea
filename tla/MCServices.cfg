CONSTANTS
    Address = {"a", "b"}
    MaxItems = 2
    FromLine <- HeartbeatAndPacket
    MaxPosts = 1
    Role = "master"
    MaxTimers = 2
    MaxPulses = 2
    IdMod = 2
    HistoryLen = 1
    Damages = {"payload", "type"}
    MaxDamage = 2
    MaxWrites <- TwoByA
    MaxPackets = 2
    MaxWire = 3
    MaxLate = 1
SPECIFICATION ServicesSpec
CHECK_DEADLOCK FALSE
INVARIANTS
    CancelledStaysQuiet
    KnownItemsAreIdentified
PROPERTIES
    DeathIsNoticed
    ShutdownEnds
    CancelledIsReleased
    EverythingArrives
