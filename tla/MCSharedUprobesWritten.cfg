CONSTANTS
    Backends = {b1, b2}
    Admins = {b1}
    Symbols = {f}
    Types = {"TIME"}
    NoStorage = noStorage
    NoSymbol = noSymbol
    NoProbe = noProbe
    CanFail = FALSE
    CanStop = FALSE
    MaxCalls = 1
    MaxOps = 1
    MaxAborts = 0
SPECIFICATION Spec
PROPERTIES
    WrittenOnReturn
CHECK_DEADLOCK FALSE
