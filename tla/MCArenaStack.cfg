SPECIFICATION Spec
CONSTANTS
    NumChunks = 3
    PoolChunks = {1, 3}
    Bound = 4
    Raw = 8
    Sizes = {1, 4}
    Page = 4
    IoFaults = TRUE
INVARIANTS
    DataIntact
    WritesInPool
    NothingKept
