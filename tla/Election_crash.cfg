SPECIFICATION Spec
CONSTANTS
    N = 2
    Garbage <- SomeGarbage
    FirstStamp <- OldStamp
    MaxTerm = 2
    Backlog = 2
    MaxCrashes = 1
    Byzantine = {}
    MaxMeddling = 0
    MaxTimeouts = 1
CHECK_DEADLOCK FALSE
INVARIANTS
    TypeOK
    KnownMasterWon
    TermsWereWon
PROPERTIES
    TermsFallOnlyWhenOvertaken
    ImplementsMastership
