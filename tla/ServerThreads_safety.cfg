SPECIFICATION Spec
CONSTANTS
    Addr = {a1, a2}
    Listener = listener
    None = none
    FdSetSize = 2
    SelectMayFail = FALSE
    SendMayBlock = FALSE
    Created = {"map", "vis", "world"}
SYMMETRY AddrSymmetry
INVARIANTS
    TypeOK
    NoCircularWait
    WorkersUseLiveClients
    OneEraseUnderWalk
    ListOwnsHeap
    WorkersJoinedBeforeReturn
PROPERTIES
    LifecycleSpec
