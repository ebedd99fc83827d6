SPECIFICATION Spec
CONSTANTS
    Scenarios <- Anything
    Lengths = {1, 2, 3, 5, 6, 7}
    Fifo = 2
    Wrap = 6
    MaxCalls = 3
INVARIANTS
    TypeOK
    LengthMeansMoved
    NeverStalls
PROPERTIES
    WordsInPlace
CHECK_DEADLOCK FALSE
