CONSTANTS
    b1 = b1
    b2 = b2
    Producers = {b1, b2}
    Collector = collector
    NoProc = none
    Capacity = 8
    WaitSpace = 3
    SymbolSize = 1
    Arrays <- MCArrays
    MaxSent = 3
SPECIFICATION Spec
INVARIANTS
    TypeOK
    LockDiscipline
    BufferLayout
    InBounds
    NoLostWakeup
    Attribution
PROPERTIES
    ImplementsQueue
SYMMETRY Backends
CHECK_DEADLOCK FALSE
