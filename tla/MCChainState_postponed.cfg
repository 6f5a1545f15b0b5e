SPECIFICATION Spec
CONSTANTS
    g = g
    a1 = a1
    a2 = a2
    b1 = b1
    b2 = b2
    b3 = b3
    b4 = b4
    c2 = c2
    c3 = c3
    NoBlock = NoBlock
    Genesis = g
    Block = {g, a1, b1, b2, b3}
    Prev <- MCPrev
    ChainWork <- MCChainWork
    Ancestors <- MCAncestors
    Acceptable = {g, a1, b1, b2, b3}
    Valid = {g, a1, b1, b2}
    Suspicious = {}
    MaxCrashes = 1
    MaxGlitches = 0
INVARIANTS
    BestIsConnected
CHECK_DEADLOCK FALSE
