SPECIFICATION FairSpec
CONSTANTS
    FrameLen = 4
    SnMod = 4
    Capacities = {17}
    Messages <- PaddedMessage
    Length <- PaddedLength
    ISOTP_MAX_MESSAGE = 30
    OutLen = 8
    Pad = Pad
    MaxLost = 0
    MaxTwice = 0
CHECK_DEADLOCK FALSE
PROPERTY AllDelivered
