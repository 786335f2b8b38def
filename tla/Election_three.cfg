SPECIFICATION Spec
CONSTANTS
    N = 3
    Garbage <- SomeGarbage
    FirstStamp <- OldStamp
    MaxTerm = 1
    Backlog = 1
    MaxCrashes = 0
    Byzantine = {}
    MaxMeddling = 0
    MaxTimeouts = 0
CHECK_DEADLOCK FALSE
INVARIANTS
    MajorityElects
    KnownMasterWon
    TermsWereWon
