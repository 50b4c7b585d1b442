SPECIFICATION Spec
CONSTANTS
    Size = 7
INVARIANTS
    SearchCorrect
PROPERTIES
    SearchEnds
CHECK_DEADLOCK FALSE
