SPECIFICATION Spec
CONSTANTS
    A = A
    B = B
    C = C
    D = D
    M = M
    N = N
    t1 = t1
    t2 = t2
    t3 = t3
    t4 = t4
    Tx = {A, B, C, D, M, N, t1, t2, t3, t4}
    Coinbase = {A, B, C, D, M, N}
    In <- MCIn
    Out <- MCOut
    Subsidy = 3
    Maturity = 1
    Standard = {t1, t2, t3, t4}
    Relayable = {t1, t2, t3, t4}
    Free = {t2}
    Big = {}
    NoTx = NoTx
    fGenerateBitcoins = FALSE
    None = None
    Candidates <- MCCandidates
    MaxHeight = 4
    MaxDepth = 2
    MaxOrphans = 2
INVARIANTS
    TypeOK
    PoolSpendsOnce
    OrphansConsistent
    PoolNotInChain
    NothingLost
    OrphansRetried
CHECK_DEADLOCK FALSE
