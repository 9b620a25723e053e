SPECIFICATION Spec
CONSTANTS
    Packets = 4
    Start <- MCStart
    RecvMax = 9
    Paced = FALSE
    Split = TRUE
INVARIANTS TypeOK HandledInOrder
