SPECIFICATION Spec
CONSTANTS
    NumLayers = 2
    CompPer = 2
    StorePer = 1
    Stops <- MCStops
    Workers <- MCWorkers
    Flows = {"overlap", "no_prefill_overlap", "no_overlap"}
    Failures <- MCFailures
INVARIANTS
    IInv
    GraphBeforeRestore
    QuietAtClean
    RestoredAtReturn
PROPERTIES
    ImplementsGate
    CallReturns
