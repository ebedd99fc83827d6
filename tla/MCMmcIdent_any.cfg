SPECIFICATION FairSpec
CONSTANTS
    Cards = {"sd1", "sd_wp", "sdhc", "mmc3", "mmc4", "mmc_fast", "dud"}
    Scenarios <- Anything
    PwrRetry = 1
    SdLimit = 5
    MmcLimit = 4
    MaxPlugs = 3
    MaxMisreads = 1
INVARIANTS
    TypeOK
    ReadyMatchesCard
    RejectedForCause
    Announced
PROPERTIES
    Identified
    Withdrawn
    SlotSafe
    LifeSafe
