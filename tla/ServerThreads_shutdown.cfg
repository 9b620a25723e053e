SPECIFICATION FairSpec
CONSTANTS
    Addr = {a1}
    Listener = listener
    None = none
    FdSetSize = 2
    SelectMayFail = FALSE
    SendMayBlock = TRUE
    Created = {"map", "vis", "world"}
PROPERTIES
    ShutdownCompletes
