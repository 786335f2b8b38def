SPECIFICATION Spec
CONSTANTS
    N = 2
    Garbage <- ZeroGarbage
    FirstStamp <- AnyStamp
    MaxTerm = 2
    Backlog = 2
    MaxCrashes = 0
    Byzantine = {2}
    MaxMeddling = 1
    MaxTimeouts = 1
CHECK_DEADLOCK FALSE
INVARIANTS
    KnownMasterWon
    VotesAreGenuine
    TermsWereWon
PROPERTIES
    TermsFallOnlyWhenOvertaken
