SPECIFICATION FairSpec
CONSTANTS
    NumLayers = 2
    InitChunks = 2
    MaxChunks = 3
    Balance = 1
    RatioNum = 1
    RatioDen = 2
    Step = 2
    RawBytes = 32
    CompBytes = 16
    MetaBytes = 1
    LayerBytes = 48
    PageBytes = 8
    Targets <- MCTargets
    TargetDen = 8
    IoFaults = TRUE
    MaxCycles = 2
INVARIANTS
    LadderInv
    LadderShape
    SyncCountsMissing
    StoredSlotKept
    CompressedDataHeld
    GrowthCovered
    CountersExact
PROPERTIES
    SwapoutReleases
    GrowthSparesWalk
    SwapsReturn
