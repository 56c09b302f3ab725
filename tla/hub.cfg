SPECIFICATION PageSpec
CONSTANTS
    Calls <- ThreeCalls
    MaxClosed = 2
INVARIANTS TypeOK PendingIsKept EndedIsClosed ClosedOnce
PROPERTIES PageSettles
CHECK_DEADLOCK FALSE
