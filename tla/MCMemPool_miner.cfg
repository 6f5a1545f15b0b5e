SPECIFICATION Spec
CONSTANTS
    A = A
    B = B
    C = C
    D = D
    M = M
    N = N
    t1 = t1
    t2 = t2
    t3 = t3
    t4 = t4
    Tx = {A, B, C, D, M, N, t1, t2, t3, t4}
    Coinbase = {A, B, C, D, M, N}
    In <- MCIn
    Out <- MCOut
    Subsidy = 3
    Maturity = 1
    Standard = {t1, t2, t3, t4}
    Relayable = {t1, t2, t3, t4}
    Free = {t2}
    Big = {t2, t4}
    NoTx = NoTx
    fGenerateBitcoins = TRUE
    None = None
    Candidates <- MCRivals
    MaxHeight = 4
    MaxDepth = 1
    MaxOrphans = 0
INVARIANTS
    TemplateConnects
CHECK_DEADLOCK FALSE
