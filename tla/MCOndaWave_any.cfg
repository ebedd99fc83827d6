SPECIFICATION FairSpec
CONSTANTS
    Scenarios <- Anything
    MaxEdges = 6
    MaxCount = 7
INVARIANTS
    TypeOK
    QuietUnlessRaced
    WaveInPhase
    CountsPresses
    OvercountNeedsOtherPin
    OnlyBankFaults
PROPERTY
    EdgeServed
CHECK_DEADLOCK FALSE
