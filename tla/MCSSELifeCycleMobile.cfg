SPECIFICATION MCSpec
CONSTANTS
    Threads = {t1, t2, t3}
    Clients = {c1, c2}
    Nobody = Nobody
    Quiesces = FALSE
    MaxBoots = 3
    MaxQueue = 3
INVARIANT OwnEvents
