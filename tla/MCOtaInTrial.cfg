SPECIFICATION Spec
CONSTANTS
    v1 = v1
    v2 = v2
    bad = bad
    big = big
    Torn = Torn
    Empty = Empty
    Forged = Forged
    None = None
    Images <- MCImages
    Factory = v1
    Healthy <- MCHealthy
    Size <- MCSize
    Capacity = 3
    BackendSlots = {0, 1}
    OTA_MAX_PAYLOAD = 4
    Signed <- MCSigned
    Discipline = "inactive"
INVARIANT Recoverable
