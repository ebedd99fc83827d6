SPECIFICATION FairSpec
CONSTANTS
    inquiry = inquiry
    short = short
    long = long
    Requests = {inquiry, short, long}
    Size <- MCSize
    At <- MCAt
    Writes = {short}
    PioOptions = {TRUE, FALSE}
    MaxChunk = 2
    StopRetry = 1
    DmaErrors = TRUE
    MaxErrors = 3
    MaxPlugs = 2
INVARIANTS
    TypeOK
    CompleteTransfer
    FailsForCauseOrMark
    WorksForNexus
    RefusedBehindFailure
PROPERTIES
    Finishes
