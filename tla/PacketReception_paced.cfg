SPECIFICATION FairSpec
CONSTANTS
    Packets = 16
    Start <- MCStart
    RecvMax = 10
    Paced = TRUE
    Split = FALSE
PROPERTIES ChannelSpec EverySentHandled
