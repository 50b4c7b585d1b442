SPECIFICATION Spec
CONSTANTS
    NumWorkers <- MCNumWorkers
    NumJobs = 1
PROPERTIES
    DestructorJoins
CHECK_DEADLOCK FALSE
