SPECIFICATION Spec
CONSTANTS
    Queries = {q1, q2}
    NoState = NoState
    MaxDepth = 4
    MaxStorages = 5
    MaxExits = 2
    Sessions <- MCSessions
SYMMETRY QuerySymmetry
INVARIANTS
    TypeOK
    NestLevelIsDepth
    CurrentStateIsInnermost
    HooksHaveState
    NoFreedState
    SessionSurvives
    WellFormed
    ClosedIsComplete
    FileIsClosed
    StorageForEachFrame
CHECK_DEADLOCK FALSE
