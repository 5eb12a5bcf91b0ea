CONSTANTS
    Kinds = {"RAMP_FULL", "ITEM_STUCK", "ITEM_APPEARED", "ITEM_DISAPPEARED"}
    BarriersM = {"RAMP"}
    BarriersS = {"ITEM"}
    MaxErrors = 2
    MaxEvents = 1
SPECIFICATION Spec
CHECK_DEADLOCK FALSE
INVARIANTS
    TypeOK
    ModulesAgree
PROPERTIES
    RecoveryMeansFixed
    AlwaysRecovers
