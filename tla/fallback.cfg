SPECIFICATION PageSpec
CONSTANTS
    Calls <- NoCalls
    MaxClosed = 2
INVARIANTS AllTransportsTried
CHECK_DEADLOCK FALSE
