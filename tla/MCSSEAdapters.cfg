SPECIFICATION MCSpec
CHECK_DEADLOCK FALSE
CONSTANT MaxAttempts = 3
INVARIANTS
    TimeoutOrStream
    ToldOnce
    IOSToldOnce
    Html5ToldOnce
    WinHandlesOwned
    WinShutdownAborts
PROPERTIES
    StreamContract
    StoppedIsFreed
    RequestIsBounded
    Retries
    IOSStreamContract
    IOSStoppedIsFreed
    IOSRequestIsBounded
    Html5StreamContract
    Html5StoppedIsSilent
    WinStreamContract
