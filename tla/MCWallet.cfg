SPECIFICATION Spec
CONSTANTS
    g = g
    h = h
    o = o
    p = p
    q = q
    c = c
    None = None
    Tx <- MCTx
    In <- MCIn
    Mine <- MCMine
    Own <- MCOwn
    Hash <- MCHash
    Genesis <- MCGenesis
    MaxFaults = 2
    MaxReorg = 1
INVARIANTS
    TypeOK
    SpentIsMarked
    NothingForgotten
    PaysOnce
    CommitAccepted
CHECK_DEADLOCK FALSE
