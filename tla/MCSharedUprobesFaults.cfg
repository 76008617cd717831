CONSTANTS
    Backends = {b1, b2}
    Admins = {b1}
    Symbols = {f}
    Types = {"HIST"}
    NoStorage = noStorage
    NoSymbol = noSymbol
    NoProbe = noProbe
    CanFail = TRUE
    CanStop = FALSE
    MaxCalls = 2
    MaxOps = 1
    MaxAborts = 1
SPECIFICATION Spec
INVARIANTS
    Conservation
    NothingDropped
CHECK_DEADLOCK FALSE
