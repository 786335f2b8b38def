SPECIFICATION FairSpec
CONSTANTS
    Peer = {p1, p2}
    p1 = p1
    p2 = p2
    Nobody = nobody
    Edit <- Edits
    MaxRequests = 3
    MaxChanges = 4
    MaxCrashes = 1
CHECK_DEADLOCK FALSE
INVARIANTS
    TypeOK
    NoGaps
    DocumentMatchesLog
    LoggedAsIssued
PROPERTIES
    ComesToRest
