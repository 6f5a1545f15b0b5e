SPECIFICATION FairSpec
CONSTANTS
    g = g
    a1 = a1
    a2 = a2
    b1 = b1
    b2 = b2
    b3 = b3
    b4 = b4
    c2 = c2
    c3 = c3
    NoBlock = NoBlock
    Genesis = g
    Block = {g, a1, a2, b1, b2, b3, b4, c2, c3}
    Prev <- MCPrev
    ChainWork <- MCChainWork
    Ancestors <- MCAncestors
    Acceptable = {g, a1, a2, b1, b2, b3, c2, c3}
    Valid = {g, a1, a2, b1, b3, b4, c2, c3}
    Suspicious = {a2}
    MaxCrashes = 0
    MaxGlitches = 0
INVARIANTS
    SettledOnBest
    InvalidWorkIsReal
PROPERTIES
    Refinement
    EventuallySynced
CHECK_DEADLOCK FALSE
