CONSTANTS
    IdMod = 2
    HistoryLen = 1
    Damages = {"header"}
    MaxDamage = 1
    MaxWrites <- OneWay
    MaxPackets = 2
    MaxWire = 2
    MaxLate = 1
SPECIFICATION Spec
CHECK_DEADLOCK FALSE
PROPERTIES
    EverythingArrives
