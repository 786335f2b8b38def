SPECIFICATION FairSpec
CONSTANTS
    N = 2
    Garbage <- ZeroGarbage
    FirstStamp <- AnyStamp
    MaxTerm = 1
    Backlog = 2
    MaxCrashes = 1
    Byzantine = {}
    MaxMeddling = 0
    MaxTimeouts = 0
CHECK_DEADLOCK FALSE
PROPERTIES
    RoundsEnd
    DeadMasterLeft
