CONSTANTS
    Backends = {b1, b2}
    Admins = {b1}
    Symbols = {f}
    Types = {"TIME"}
    NoStorage = noStorage
    NoSymbol = noSymbol
    NoProbe = noProbe
    CanFail = FALSE
    CanStop = TRUE
    MaxCalls = 1
    MaxOps = 2
    MaxAborts = 0
SPECIFICATION FairSpec
PROPERTIES
    AnswerComes
CHECK_DEADLOCK FALSE
