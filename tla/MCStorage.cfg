SPECIFICATION MCSpec
CONSTANTS
    Images = {v1, v2}
    Factory = v1
    None = None
    Absent = Absent
    Short = Short
    Torn = Torn
    Empty = Empty
    PackageSlots = {0, 1, 2}
INVARIANTS
    ReadableIsRecoverable
    BootsWholeImage
    CandidateIsWhole
PROPERTIES
    TornSlotStaysTorn
    ImplementsEngine
