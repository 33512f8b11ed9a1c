SPECIFICATION Spec
CHECK_DEADLOCK FALSE
CONSTANTS
    MaxHandle = 1
    Capacity = 2
    MaxEvents = 4
    OwnState = TRUE
PROPERTIES
    DropsAreReported
    QueuedIsDelivered
