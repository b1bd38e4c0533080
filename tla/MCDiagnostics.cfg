SPECIFICATION MCSpec
CONSTANTS
    plain = plain
    vin = vin
    huge = huge
    secret = secret
    None = None
    DIDs = {plain, vin, huge, secret}
    Reserved = {vin}
    ReadLen <- MCReadLen
    Writable = {plain}
    Values = {0, 1}
    ResponseSizes = {2, 3, 16}
    TESTER_PRESENT_TIMEOUT = 3
    SIM_RX_QUEUE_LEN = 2
INVARIANTS
    WindowIsExact
    AnswersMatch
    ToldIsTrue
    OnlyLongReadsPanic
PROPERTIES
    RefusedHasNoEffect
    HeldTesterIsDisarmed
CHECK_DEADLOCK FALSE
