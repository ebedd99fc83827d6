SPECIFICATION OndaFairSpec
CONSTANTS
    Scenarios <- Steady
    MaxEdges = 2
    MaxCount = 2
    Clients = {1, 2}
    Numbers = {66, 65556}
    Half = 32768
    RoutineTicks = 60
INVARIANTS
    OndaTypeOK
    StarvedByUnfit
    CountTold
PROPERTY
    Answered
CHECK_DEADLOCK FALSE
