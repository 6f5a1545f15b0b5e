SPECIFICATION Spec
CONSTANTS
    A = A
    B = B
    C = C
    F = F
    G = G
    D = D
    E = E
    t1 = t1
    t2 = t2
    t3 = t3
    t4 = t4
    Tx = {A, B, C, F, G, D, E, t1, t2, t3, t4}
    Coinbase <- MCCoinbase
    In <- MCIn
    Out <- MCOut
    Subsidy = 3
    Maturity = 2
    Candidates <- MCCandidates
    MaxHeight = 6
INVARIANTS
    IndexIsTheChain
    AcceptsValidBlocks
    ConnectIsUndone
    OnlyDuplicatesBlock
