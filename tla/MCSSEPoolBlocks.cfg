SPECIFICATION Spec
CHECK_DEADLOCK FALSE
CONSTANTS
    c1 = c1
    c2 = c2
    Connections = {c1}
    MaxAttempts <- MCOneAttempt
    MaxConnections = 1
INVARIANT DisconnectCutsDial
