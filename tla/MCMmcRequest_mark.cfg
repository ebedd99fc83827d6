SPECIFICATION Spec
CONSTANTS
    inquiry = inquiry
    short = short
    long = long
    Requests = {long}
    Size <- LongSize
    At <- LongAt
    Writes = {}
    PioOptions = {FALSE}
    MaxChunk = 2
    StopRetry = 1
    DmaErrors = FALSE
    MaxErrors = 1
    MaxPlugs = 2
INVARIANTS
    FailsForCause
