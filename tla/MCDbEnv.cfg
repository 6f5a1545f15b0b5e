SPECIFICATION FairSpec
CONSTANTS
    rpc = rpc
    miner = miner
    wallet = wallet
    chain = chain
    Thread = {rpc, miner}
    Awaited = {rpc}
    File = {wallet, chain}
    Wallet = wallet
    MaxUpdates = 3
INVARIANTS
    HandlesSafe
    NothingMissed
PROPERTIES
    WalletSettles
    ShutdownEnds
CHECK_DEADLOCK FALSE
