SPECIFICATION Spec
CONSTANTS
    NumLayers = 2
    CompPer = 1
    StorePer = 1
    Stops <- OneOfEach
    Workers <- MCWorkers
    Flows = {"no_alloc_overlap"}
    Failures = {}
PROPERTIES
    ComputedComplete
