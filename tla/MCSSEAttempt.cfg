SPECIFICATION MCSpec
CHECK_DEADLOCK FALSE
CONSTANTS
    RetryMin = 1000
    RetryMax = 300000
    MinDelay = 500
    Options <- MCOptions
    ServerRetries <- MCServerRetries
    Jitters <- MCJitters
    MaxFailures = 11
    Bytes <- MCBytes
    MaxLine = 4
    SizeMax = 18
    BodyMaxWire = 8
    BodyMaxRead = 2
    MaxHead = 7
    HeadMaxWire = 8
    HeadMaxRead = 3
INVARIANTS
    CutAtBlankLine
    DecodesBody
    DelayBacksOff
