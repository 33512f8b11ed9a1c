SPECIFICATION MCSpec
CONSTANTS
    Threads = {t1, t2, t3}
    Clients = {c1, c2}
    Nobody = Nobody
    Quiesces = TRUE
    MaxBoots = 3
    MaxQueue = 3
INVARIANTS
    NoCallOnDeletedMutex
    OwnEvents
PROPERTY ShutdownCompletes
