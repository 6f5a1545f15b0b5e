SPECIFICATION Spec
CONSTANTS
    sock = sock
    msg = msg
    o1 = o1
    o2 = o2
    a1 = a1
    a2 = a2
    Handler = {sock, msg}
    Socket = sock
    Opener = {o1, o2}
    Addr = {a1, a2}
    Inbound = Inbound
    MaxOutbound = 2
    MaxInbound = 1
    MaxNodes = 3
SYMMETRY Symmetry
CONSTRAINTS
    Undamaged
    InboundFirst
INVARIANTS
    OnlyTornFrees
    OutboundLimited
CHECK_DEADLOCK FALSE
