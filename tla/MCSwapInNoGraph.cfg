SPECIFICATION Spec
CONSTANTS
    NumLayers = 2
    CompPer = 1
    StorePer = 1
    Stops <- OneOfEach
    Workers <- MCWorkers
    Flows = {"overlap"}
    Failures <- Refused
PROPERTIES
    ResultFetched
CHECK_DEADLOCK FALSE
