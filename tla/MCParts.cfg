CONSTANTS
    MaxItems = 3
    Depth = 1
    Pin = {1, 2}
    Estop = 2
    MaxQueue = 2
    Calls = {"turnOn", "turnOff", "flash", "start", "stop", "right", "left"}
    MaxPulses = 2
    BufSize = 3
    FifoDepth = 3
    MaxMeans = 1
    MaxPasses = 2
    MaybeZero = {"heightSensorMin", "switchToEnd"}
    Places <- ItemPlaces
    Gap = 5
    Delay = 3
    UB = 2
    MaxLag = 1
    MaxStops = 2
    MaxClock = 25
    Type = {"HOLLOW", "HOLLOW_METAL", "FLAT"}
    HistoryDepth = 3
    MaxLine = 2
SPECIFICATION PartsSpec
CHECK_DEADLOCK FALSE
INVARIANTS
    TypesOK
    OneItemOnM2
    SegmentsTrackTokens
    Settled
    MotorsFollowNet
    NoEdgeLost
    OutputsFollowCalls
    ReadsOnlySamples
    CalibrationIsSound
    ItemsGetTheirMaps
PROPERTIES
    NoSilentLoss
    KeptInOrder
