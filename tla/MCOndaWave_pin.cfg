SPECIFICATION Spec
CONSTANTS
    Scenarios <- OtherPin
    MaxEdges = 3
    MaxCount = 4
INVARIANT
    NeverOvercounts
CHECK_DEADLOCK FALSE
