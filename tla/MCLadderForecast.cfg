SPECIFICATION FSpec
CONSTANTS
    NumLayers = 3
    InitChunks = 2
    MaxChunks = 4
    Balance = 1
    RatioNum = 2
    RatioDen = 3
    Step = 4
    RawBytes = 32
    CompBytes = 16
    MetaBytes = 1
    LayerBytes = 48
    PageBytes = 8
    Targets <- MCTargets
    TargetDen = 24
    IoFaults = FALSE
    MaxCycles = 0
    FreedNum = 15
    FreedDen = 32
INVARIANTS
    ForecastHolds
