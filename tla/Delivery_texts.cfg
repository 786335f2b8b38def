SPECIFICATION Spec
CONSTANTS
    Typed <- MixedTexts
    Documents <- Drafts
    Sequent = 7
    Buffer = 115
CHECK_DEADLOCK FALSE
INVARIANTS
    TypeOK
    PlainTextArrives
    OnlyTypedText
    FollowerDoesNoMore
    NoDeletionUnasked
    FalseElectionFails
    EveryVoteCounts
