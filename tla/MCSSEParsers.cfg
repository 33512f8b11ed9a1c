SPECIFICATION MCSpec
CHECK_DEADLOCK FALSE
CONSTANTS
    MaxBuffer = 3
    RetryMin = 2
    RetryMax = 5
    InitialRetry = 2
    RetryValues <- MCRetryValues
    MaxBlocks = 4
    PortMaxBuffer = 4
    PortLines <- MCPortLines
    PortRetryValues <- MCPortRetryValues
    PortMaxBlocks = 3
INVARIANTS
    EventIsItsBlock
    LostBlockNotCommitted
    NothingSkipped
PROPERTY PortIsParser
