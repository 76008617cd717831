CONSTANTS
    Backends = {b1, b2}
    Admins = {b1}
    Symbols = {f}
    Types = {"TIME", "HIST"}
    NoStorage = noStorage
    NoSymbol = noSymbol
    NoProbe = noProbe
    CanFail = FALSE
    CanStop = FALSE
    MaxCalls = 2
    MaxOps = 2
    MaxAborts = 0
SPECIFICATION Spec
INVARIANTS
    DataFits
CHECK_DEADLOCK FALSE
