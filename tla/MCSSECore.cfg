SPECIFICATION Spec
CHECK_DEADLOCK FALSE
CONSTANTS
    MaxHandle = 2
    Capacity = 2
    MaxEvents = 3
    OwnState = TRUE
INVARIANTS
    NoUseAfterFree
    NothingLeaks
    NotConnectedAfterDisconnect
PROPERTIES
    NoCallbackAfterDisconnect
    NoSilentGap
