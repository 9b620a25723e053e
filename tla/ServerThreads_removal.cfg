SPECIFICATION LoopFairSpec
CONSTANTS
    Addr = {a1, a2}
    Listener = listener
    None = none
    FdSetSize = 2
    SelectMayFail = TRUE
    SendMayBlock = TRUE
    Created = {"world"}
PROPERTIES
    InactiveClientRemoved
