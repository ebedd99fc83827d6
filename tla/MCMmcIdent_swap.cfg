SPECIFICATION Spec
CONSTANTS
    Cards = {"sdhc", "mmc4"}
    Scenarios <- Swap
    PwrRetry = 1
    SdLimit = 5
    MmcLimit = 4
    MaxPlugs = 2
    MaxMisreads = 0
INVARIANTS
    InvalidMeansUnsupported
