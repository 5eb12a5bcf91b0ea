CONSTANTS
    MaxItems = 2
    Depth = 1
SPECIFICATION Spec
PROPERTIES
    OneLossPerReport
