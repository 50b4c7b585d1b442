SPECIFICATION Spec
CONSTANTS
    Size = 4
    T = 3
    UBatch = 2
    Tokens = {"a", "b"}
    Batches <- MCBatches
INVARIANTS
    IInv
    CellIsPosition
    RowsFaithful
    SavedFilesLoad
    NoTraceOfPrepare
PROPERTIES
    RefusedOnlyPastEnd
    DecodeReturns
