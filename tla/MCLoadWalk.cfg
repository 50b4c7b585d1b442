SPECIFICATION Spec
CONSTANTS
    NumLayers = 3
    NumChunks = 2
    Plans <- AllPlans
INVARIANTS
    RawIsLive
PROPERTIES
    LastOutFirstIn
CHECK_DEADLOCK FALSE
