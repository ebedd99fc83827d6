SPECIFICATION Spec
CONSTANTS
    Scenarios <- Nesting
    MaxEdges = 3
    MaxCount = 4
INVARIANT
    ReleasedIsQuiet
CHECK_DEADLOCK FALSE
