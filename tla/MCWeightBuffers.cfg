SPECIFICATION FairSpec
CONSTANTS
    NumLayers = 3
    NumTensors = 2
    NumOther = 1
    AllocThreads = 2
    ReadThreads = 2
    Shapes <- UniformOrNot
    MaxCrashes = 1
INVARIANTS
    IInv
    SlotsSuffice
    OneOwner
    OpenMeansOwn
PROPERTIES
    ReloadEnds
CHECK_DEADLOCK FALSE
