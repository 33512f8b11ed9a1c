SPECIFICATION Spec
CHECK_DEADLOCK FALSE
CONSTANTS
    MaxHandle = 1
    Capacity = 2
    MaxEvents = 2
    OwnState = FALSE
INVARIANT NotConnectedAfterDisconnect
