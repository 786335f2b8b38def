SPECIFICATION FairSpec
CONSTANTS
    N = 2
    Descriptors = 4
    MaxCommands = 1
    MaxChanges = 3
    MaxCrashes = 1
CHECK_DEADLOCK FALSE
INVARIANTS
    TypeOK
    SuccessWasApplied
    EditsMultiplyBySends
PROPERTIES
    ImplementsService
    PromptReturns
    RelaysEnd
