CONSTANTS
    Backends = {b1, b2}
    Admins = {b1}
    Symbols = {f, g}
    Types = {"TIME"}
    NoStorage = noStorage
    NoSymbol = noSymbol
    NoProbe = noProbe
    CanFail = TRUE
    CanStop = FALSE
    MaxCalls = 1
    MaxOps = 1
    MaxAborts = 1
SPECIFICATION Spec
SYMMETRY SymbolSymmetry
INVARIANTS
    NoUseAfterFree
    Conservation
    StorageForEachEntry
CHECK_DEADLOCK FALSE
