CONSTANTS
    IdMod = 2
    HistoryLen = 1
    Damages = {"payload","header","type","lost","torn"}
    MaxDamage = 2
    MaxWrites <- Writes
    MaxPackets = 2
    MaxWire = 2
    MaxLate = 1
SPECIFICATION Spec
CHECK_DEADLOCK FALSE
INVARIANTS
    TypeOK
    ResetsBalanced
    NothingDroppedEarly
PROPERTIES
    ReliablyInOrder
