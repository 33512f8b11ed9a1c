SPECIFICATION Spec
CHECK_DEADLOCK FALSE
CONSTANTS
    Connections = {c1}
    MaxAttempts = 3
INVARIANTS
    ConnectedMeansOpen
    NoUseAfterFree
PROPERTIES
    StreamContract
    StoppedIsFreed
