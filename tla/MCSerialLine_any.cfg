SPECIFICATION FairSpec
CONSTANTS
    Scenarios <- Anything
    Room = 2
    MaxOut = 3
    MaxIn = 4
    MaxTurns = 3
INVARIANTS
    TypeOK
    
    OneSlips
PROPERTIES
    Sent
CHECK_DEADLOCK FALSE
