CONSTANTS
    MaxItems = 1
    MaxLoop = 2
    Depth = 0
    Asked <- AllRequests
    Reported <- AllEvents
SPECIFICATION Spec
INVARIANTS
    TypeOK
    ModulesFollowMaster
    BeltsAgree
    RampsRespected
PROPERTIES
    RecoveryNeedsBothFixed
    DecisionsTakeEffect
