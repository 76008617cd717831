CONSTANTS
    Backends = {b1}
    Admins = {b1}
    Symbols = {f}
    Types = {"TIME"}
    NoStorage = noStorage
    NoSymbol = noSymbol
    NoProbe = noProbe
    CanFail = FALSE
    CanStop = FALSE
    MaxCalls = 1
    MaxOps = 2
    MaxAborts = 0
SPECIFICATION Spec
PROPERTIES
    OwnDataReported
CHECK_DEADLOCK FALSE
