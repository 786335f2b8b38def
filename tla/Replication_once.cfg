SPECIFICATION Spec
CONSTANTS
    Peer = {m, f1}
    Master = m
    m = m
    f1 = f1
    Edit <- OneAppend
    Char <- Text
    Radix = 10
    MaxRequests = 4
    MaxFaults = 0
CHECK_DEADLOCK FALSE
INVARIANTS
    AppliedOnce
