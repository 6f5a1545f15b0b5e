SPECIFICATION FairSpec
CONSTANTS
    p = p
    q = q
    Peer = {p, q}
    nLimit = 2
    InitHeight = 4
    MaxHeight = 6
    Finder = {p}
    MaxDrops = 2
INVARIANTS
    QuietIsSynced
    NewBlockWakes
    AskedIsMissing
PROPERTIES
    ComesToRest
CHECK_DEADLOCK FALSE
