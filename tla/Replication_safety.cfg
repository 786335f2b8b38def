SPECIFICATION FairSpec
CONSTANTS
    Peer = {m, f1}
    Master = m
    m = m
    f1 = f1
    Edit <- AllEdits
    Char <- Text
    Radix = 3
    MaxRequests = 4
    MaxFaults = 1
CHECK_DEADLOCK FALSE
INVARIANTS
    TypeOK
    LogsAgree
    NoGaps
    RepeatFreeIsPrefix
    DocumentMatchesLog
    QuietMeansCaughtUp
PROPERTIES
    ImplementsDocument
    ReplaysEnd
