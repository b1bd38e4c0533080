SPECIFICATION MCSpec
CONSTANTS
    None = None
    Panic = Panic
    Nodes = {x, y, z}
    SIM_RX_QUEUE_LEN = 2
    MaxFrames = 5
    RawIds <- MCRawIds
    Lengths <- MCLengths
    Frames <- MCFrames
    LOOPBACK_LEN = 3
    MaxSent = 9
    Messages <- MCMessages
    Damages <- MCDamages
    OutLen = 19
    SOMEIP_MAX_PAYLOAD = 4
    UsizeSize = 65536
    OverflowChecks = FALSE
    Width = 6
    Database <- MCDatabase
    Ports = 2
    Pins = 2
    Speeds <- MCSpeeds
    Steers <- MCSteers
    Codes <- MCCodes
    MAX_FRAME_BYTES = 64
    MaxSnapshots = 2
    Payloads <- MCPayloads
    SlotArgs <- MCSlotArgs
    Keys <- MCKeys
    DeviceKey <- MCDeviceKey
    sign <- hash
    verify <- demoVerify
    altered <- MCAltered
    OTA_SIGNATURE_LEN = 32
    OTA_MAX_PAYLOAD = 4
SYMMETRY EcuSymmetry
INVARIANTS
    DecodesWhatWasSent
    DamageIsContained
    SignalsAreIndependent
    ChannelsAreIndependent
    StreamIsFaithful
    PidDetectsFlip
    ChecksumVerifies
    PackageArrives
    DamagedIsRefused
    BusOrder
    NoLossBelowCapacity
    LoopbackLosesNothing
PROPERTY BuiltIsValid
