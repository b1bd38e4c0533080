SPECIFICATION FairSpec
CONSTANTS
    FrameLen = 4
    SnMod = 4
    Capacities = {2, 17}
    Messages <- MixedMessages
    Length <- MixedLength
    ISOTP_MAX_MESSAGE = 30
    OutLen = 8
    Pad = Pad
    MaxLost = 7
    MaxTwice = 2
CHECK_DEADLOCK FALSE
INVARIANTS
    NeverOverruns
    WholeUntilLoss
PROPERTY UnpaddedDelivered
