SPECIFICATION Spec
CONSTANTS
    Images = {v1, v2}
    Factory = v1
    None = None
    Absent = Absent
    Short = Short
    PackageSlots = {0, 1}
INVARIANT CrashLeavesJournalReadable
