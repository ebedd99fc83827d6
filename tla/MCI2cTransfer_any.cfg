SPECIFICATION FairSpec
CONSTANTS
    Scenarios <- Anything
    Lengths = {1, 3}
    Threshold = 2
    MaxCalls = 3
INVARIANTS
    TypeOK
    DoneMeansMoved
    OwnsBuffer
    OwnPulse
    Verdict
PROPERTY Returns
CHECK_DEADLOCK FALSE
