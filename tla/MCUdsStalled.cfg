SPECIFICATION FairSpec
CONSTANTS
    plain = plain
    vin = vin
    huge = huge
    secret = secret
    None = None
    DIDs = {plain, vin, huge, secret}
    Reserved = {vin}
    ReadLen <- MCReadLen
    Writable = {plain, vin}
    Values = {0, 1}
    ResponseSizes = {16}
    TESTER_PRESENT_TIMEOUT = 5
PROPERTY StalledTesterIsDisarmed
CHECK_DEADLOCK FALSE
