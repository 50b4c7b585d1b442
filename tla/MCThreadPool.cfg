SPECIFICATION Spec
CONSTANTS
    NumWorkers <- MCNumWorkers
    NumJobs = 3
INVARIANTS
    PoolInv
    DrainedAtStop
PROPERTIES
    QueuedRuns
    WaitIdleReturns
CHECK_DEADLOCK FALSE
