SPECIFICATION Spec
CONSTANTS
    Peer = {p1, p2}
    p1 = p1
    p2 = p2
    Nobody = nobody
    Edit <- Edits
    MaxRequests = 3
    MaxChanges = 3
    MaxCrashes = 0
CHECK_DEADLOCK FALSE
INVARIANTS
    AnnouncedAsSequenced
