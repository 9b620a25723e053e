SPECIFICATION Spec
CONSTANTS
    Packets = 3
    Start <- MCStart
    RecvMax = 9
    Paced = FALSE
    Split = FALSE
INVARIANT ReceivedIsHandled
