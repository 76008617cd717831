CONSTANTS
    b1 = b1
    b2 = b2
    Producers = {b1, b2}
    Collector = collector
    NoProc = none
    Capacity = 8
    WaitSpace = 3
    SymbolSize = 1
    Arrays <- MCArrays
    MaxSent = 2
SPECIFICATION FairSpec
PROPERTIES
    PutReturns
    Drained
CHECK_DEADLOCK FALSE
