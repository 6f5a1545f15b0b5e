SPECIFICATION Spec
CONSTANTS
    g = g
    a1 = a1
    a2 = a2
    b1 = b1
    b2 = b2
    b3 = b3
    b4 = b4
    c2 = c2
    c3 = c3
    NoBlock = NoBlock
    Genesis = g
    Block = {g, a1, a2, b1, b2, b3, c2}
    Prev <- MCPrev
    ChainWork <- MCChainWork
    Ancestors <- MCAncestors
    Acceptable = {g, a1, a2, b1, b2, b3, c2}
    Valid = {g, a1, a2, b1, b3, c2}
    Suspicious = {}
    MaxCrashes = 2
    MaxGlitches = 2
INVARIANTS
    CommittedIsOneChain
    MemoryMatchesDisk
PROPERTIES
    TipGainsWork
    StepRefinement
CHECK_DEADLOCK FALSE
