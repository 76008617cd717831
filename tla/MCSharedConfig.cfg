SPECIFICATION Spec
CONSTANTS
    Sessions = {s1, s2}
    Symbols = {f, g}
    Types = {"TIME", "HIST"}
    NoEntry = NoEntry
    Blank = Blank
    MaxOps = 3
INVARIANTS
    TypeOK
    NothingLost
    Asked
PROPERTIES
    IsMap
