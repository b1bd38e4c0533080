SPECIFICATION MCSpec
CONSTANTS
    N = 3
    Records = {"TELEMETRY_ARM", "TELEMETRY_DISARM"}
    Zero = Zero
    None = None
    Offsets <- MCOffsets
    Times = {1, 2}
    Speeds = {0, 999, 1000}
    gain = 10
    cruise_cmps = 1000
    U32Size = 65536
    OverflowChecks = TRUE
    Panic = Panic
    MaxEvents = 5
    SIM_RX_QUEUE_LEN = 3
    Track <- MCTrack
\* A panic of next_command ends the ECU's loop for good.
CHECK_DEADLOCK FALSE
INVARIANTS
    AuditIsLastN
    SteersInRange
    KillSwitchLagIsBounded
    ControlIsCurrent
PROPERTIES
    ActsInOrder
    ActuatorCatchesUp
