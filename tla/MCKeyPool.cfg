SPECIFICATION Spec
CONSTANTS
    m = m
    s1 = s1
    s2 = s2
    p = p
    Miner = {m}
    Sender = {s1, s2}
    Peeker = {p}
    NoKey = NoKey
    vchDefaultKey = vchDefaultKey
    KeypoolSize = 1
    CanEncrypt = TRUE
    MaxKeys = 5
    MaxFaults = 1
INVARIANTS
    UsedNotOnDisk
    PlainUsedOnce
    PoolMatchesDisk
CHECK_DEADLOCK FALSE
