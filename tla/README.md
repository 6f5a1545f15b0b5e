# A verification development for the FooCoin node

The program is a Litecoin-derived full node in C++ (`src/src`): it keeps a block
chain, a transaction index, a memory pool, a wallet, a miner and a peer-to-peer
network stack in one process of about a dozen threads. The specifications here
are written from that code. Line numbers below are of `src/src/main.cpp` unless
another file is named; `PROJECT.json` maps every definition to its lines.

## 1. Inventory

One lock, `cs_main`, covers everything that touches the chain: the message
handler takes it for each message (3048), the miner for each template and each
solution (3381, 3610), the RPC thread for each call (`bitcoinrpc.cpp`). So the
interleavings that matter are not between two block handlers. They are

* between the *commits* of `blkindex.dat`, where a crash or an I/O error can cut
  a handler in two;
* between handlers, in the order in which blocks, transactions and replies come;
* between a handler and the reads that skip the lock (`CreateNewBlock` reads
  `pindexBest` at 3361; the GUI and the wallet flush thread read counters);
* between threads that use other locks: `cs_vNodes`, `cs_db`, `cs_wallet`,
  `cs_nWalletUnlockTime`.

| Component | State | Operations | Talks to | Hard behaviour | Correct when |
|---|---|---|---|---|---|
| Block index and best chain | `mapBlockIndex`, `pnext`, `pindexBest`, `mapOrphanBlocks`, `bnBestInvalidWork`; records in `blkindex.dat` | `ProcessBlock`, `AcceptBlock`, `AddToBlockIndex`, `SetBestChain`, `Reorganize`, `LoadBlockIndex` | ledger, pool, wallets | several commits per call, postponed reconnects, orphans in any order, crash between commits | the tip is the heaviest valid chain known, memory and disk tell the same story, ledger and wallet follow |
| Transaction index | "tx" records: position and one spent pointer per output | `ConnectBlock`, `ConnectInputs`, `DisconnectBlock`, `DisconnectInputs` | best chain | spends inside one block, maturity, replaced duplicates, exact undo | unspent outputs are the coins of the chain; exactly the valid blocks connect |
| Memory pool | `mapTx`, `mapNextTx` | `accept`, `addUnchecked`, `remove` | tx handler, RPC, wallet, `Reorganize` | resurrecting without checks, then removing | no two conflicting transactions, nothing confirmed, nothing lost |
| Orphan transactions | `mapOrphanTransactions`, `mapOrphanTransactionsByPrev` (raw pointers) | `AddOrphanTx`, `LimitOrphanTxSize`, `EraseOrphanTx`, retry in the tx handler | pool | recursive retry, random eviction | index and store agree, the limit holds, a freed orphan is tried |
| Miner | template, `pindexPrev`, reserved key | `CreateNewBlock`, `CheckWork`, `getwork` | pool, chain, key pool | unlocked read, stale work | a template on the tip always connects |
| Wallet | `mapWallet`, spent flags, locator | `AddToWallet`, `CreateTransaction`, `CommitTransaction`, rescan, resend | chain, pool, wallet file | recorded before accepted; ahead of the chain after a crash | sees every block of the chain, spends no coin twice |
| Key pool | `setKeyPool`, pool records | reserve, keep, return, top up, renew | miner, RPC, wallet file | index returned after the numbering restarted; crash while reserved | no key is given out twice |
| Key store and encryption | `mapKeys`, `mapCryptedKeys`, `vMasterKey`, unlock time | `EncryptWallet`, `Lock`, `Unlock`, passphrase timer | wallet file, RPC | half-encrypted wallet, two timers | all keys or none encrypted; locks when the last timer runs out |
| Database environment | `mapFileUseCount`, `mapDb` | open/close, `Flush`, `Rewrite`, `BackupWallet`, flush thread | all | closing a handle in use, missed update | no closed handle is used; the file is self-contained when it says so |
| Address manager | `mapInfo`, `mapAddr`, `vRandom`, `vvNew`, `vvTried`, counts | `Add`, `Good`, `Attempt`, `Connected`, `Select` | net threads, `peers.dat` | evictions that feed each other | the structures agree (`Check_`), `peers.dat` gives them back |
| Peers | `vNodes`, `vNodesDisconnected`, reference counts, `setBanned`, `semOutbound` | connect, accept, disconnect, delete, ban | all handlers | deletion with pointers about, two connects to one peer | no use after delete, slots are returned |
| Inventory and block download | `mapAskFor`, `mapAlreadyAskedFor`, `setInventoryKnown`, `hashContinue` | `inv`, `getdata`, `getblocks`, `SendMessages` | peers, chain, pool | retry against late answer, single initial `getblocks` | what is announced is fetched in the end |
| Alerts | `mapAlerts`, `setKnown` | `ProcessAlert` | peers, GUI | cancel and expiry in any order | a cancelled alert does not come back while the canceller is in effect |
| Difficulty and subsidy | none | `GetNextWorkRequired`, `ComputeMinWork`, `GetBlockValue`, compact form | best chain | rounding, boundaries | a lower bound is one |
| Script | stack | `EvalScript`, `Solver` | ledger | nesting, limits | total, bounded |

Checkpoints, RPC formatting, start-up, utilities, `netbase`, IRC, serialisation,
keys, scrypt, Qt, JSON and packaging are listed in `PROJECT.json` with what is
modelled of them or the reason why they are left out.

## 2. Plan

| # | Modules | Status |
|---|---|---|
| 1 | `BlockTree`, `BestChain` (abstract), `ChainState`, `ChainStateProofs` | done, safety proved |
| 2 | `TxIndex` (values), `Ledger`, `LedgerProofs` | done, proved |
| 3 | `MemPool` on `TxIndex` (pool, orphans, miner), `MemPoolProofs` | done, proved |
| 4 | `KeyPool` (reserve, keep, return, renew, restart), `KeyPoolProofs` | done, safety proved |
| 5 | `DbEnv` (handles, use counts, flush thread, rewrite, backup, shutdown), `DbEnvProofs` | done, safety proved, liveness checked |
| 6 | `Peers` (node life cycle, reference counts, semaphore), `PeersProofs` | done, proved |
| 7 | `BlockDownload` (one node, several peers, lost connections, put-off requests) | done, liveness checked |
| 8 | `Wallet` (commit, spent flags, rescan, reaccept, restore), `WalletProofs` | done, proved |
| 9 | `AddrMan` (ids, buckets, order, totals and the file), `AddrManProofs` | done, proved |

Compositions. `ChainState` takes the ledger as the set of applied blocks, which is
justified by `Ledger!IndexIsTheChain` (the index is a function of the tip) and
`Ledger!ConnectIsUndone`, both proved. `MemPool` uses the real index operators of `TxIndex`
under a simple chain. `Wallet` has chain, pool, wallet and start-up together, each
reduced to what the spent flags depend on. `BestChain` is the abstract
specification of `ChainState`.

Left for later: proofs about `BlockDownload` (section 5), then the passphrase timer and
the encryption of the keys.

Not modelled, and why. `Alerts`: one small handler under one lock without
interleavings. Difficulty, proof of work and subsidy: functions on 256-bit
numbers, whose rounding a small instance does not show. `Script`: a stack
machine on byte strings without state of its own. The passphrase timer decides
only when a wallet is locked, which `KeyPool` allows at any moment. The rest of
the list in `PROJECT.json` is I/O, byte layout, third-party code or presentation.

## 3. The modules

### BlockTree, BestChain, ChainState

`BlockTree` holds what headers determine: parent, cumulative work, ancestors, and
three verdicts: `Acceptable` (the contextual tests of `AcceptBlock`, the
checkpoints included), `Valid` (the block connects on its own parent) and
`Suspicious` (refused off the tip by the test at 1849). Blocks and hashes are
the same thing. `BestChain` is the promise: learn a block whose parent is known;
replace the chain in one step by a valid, known and heavier one.

`ChainState` follows one `ProcessBlock` call at a time through its commits.

| Action | Code |
|---|---|
| `ProcessBlock`, `AcceptBlock` | 1832-1884, 1778-1830, 1674-1705: duplicate tests, checkpoint test, orphan or index record and its commit |
| `ProcessOrphan`, `NextInQueue` | the two loops at 1889-1902 |
| `Reorganize`, `ReorganizeFails` | one transaction up to `pindexIntermediate`: `Reorganize` or `SetBestChainInner`, and the failure path with `InvalidChainFound` |
| `UnlinkMemory`, `LinkMemory` | the two loops after the commit (1506-1519, 1550), which repeat on `pnext` in memory what `Rewritten` did to the records |
| `ConnectSecondary`, `SecondaryFails` | the postponed reconnects at 1606-1623, one transaction each |
| `NewBestBlock` | the end of `SetBestChain`: locator, then pointers |
| `CrashAndRestart` | the process dies; `LoadBlockIndex`; rescan from the locator (`init.cpp`) |

`index, next, best, orphans` are memory; `disk` is what is committed; `wallet` what
`SyncWithWallets` was called with and the stored locator; `job` the call in
progress, with the blocks of `vDisconnect` and `vConnect` whose loop is still to come
(`cut`, `add`). The records are edited in the transaction (`Relinked`: 1326-1332,
1423-1429, 1476), the pointers after it. `skewed` is a history variable: a postponed reconnect has failed and
`pindexBest` is a block that was not connected (section 6). When the index is not
that of the step's base, the outcome of `ConnectBlock` is nondeterministic.

Abstractions: a crash ends the process, not the machine (commits survive; with
`DB_TXN_WRITE_NOSYNC` a power failure may lose the last ones). A crash inside a
transaction is a failed transaction followed by a crash. When the transaction of
`AddToBlockIndex` itself (1697-1701) fails, the entry stays in memory without a record,
and gets one only when a child of it is connected, which writes the record of its parent
(`Recorded`). If the process dies before, the restart forgets the block
(`Abstract!Forget`), or finds records that name it: `LoadBlockIndexGuts` then makes an
empty entry for it, without parent, height and work, and the model does not follow the
node any further (stage "lost"). A locator names the deepest
common block exactly. The order of orphans of one parent is free. Relay, the
`-checklevel` tests and external block files are left out.

### TxIndex, Ledger

`TxIndex` is a library of operators on the index as a value: one definition per
step of `ConnectBlock` (`Overwrites` for BIP30, `Fetched` for `FetchInputs`,
`Spendable`, `Queued`, `Claims`) and of `DisconnectBlock` (`Released`,
`DisconnectTx`, `Undo`). `Ledger` connects any offered block or takes the tip off.
`replaced` is a history variable: some block has replaced the record of a spent
transaction.
Signatures, sigop counts, sizes and `MoneyRange` are abstracted: an offered
transaction passes them. A position on disk is the height of the block, since a
block is stored once in a run. BIP30 is always on, as it is for every block after
its start date.

### MemPool

Pool, orphans, chain and miner of one node. `chain` and `txindex` are committed;
`best` is `pindexBest`, which lags behind until `SetBestChain` ends. Handlers that
loop over `AcceptToMemoryPool` or `mempool.remove` are one step per call
(`ResurrectNext`, `DeleteNext`, `RetryAccepts`, ...), and `Idle` is the guard of
every action that needs `cs_main`. `ReadBest` does not have it: that is the
unlocked read.

| Action | Code |
|---|---|
| `SubmitTx` | `sendrawtransaction`, `CommitTransaction`: `accept` 478-620 |
| `ReceiveTx`, `ReceiveOrphan` | tx handler 2767-2835, `AddOrphanTx` 166, `LimitOrphanTxSize` 216 |
| `NextPrev`, `RetryAccepts`, `RetryMisses`, `RetryRejects`, `EndOfTx` | the retry loops 2789-2823 |
| `Extend`, `Reorganize`, `ResurrectNext`, `DeleteNext`, `NewBestBlock` | `SetBestChainInner` 1536, `Reorganize` 1438, 1520-1526, 1633 |
| `ReadBest`, `CreateNewBlock`, `CheckWork`, `GiveUp` | 3361, 3381-3528, 3594-3629, the hash loop |

Abstractions: every block has the same work, so a branch wins with one block more
(work is ChainState's subject), and postponed reconnects are later `Extend`s.
The retry loops go through `work` (`vWorkQueue`), of which `reached` hashes have been
looked up; `visit` holds the orphans of the last one that are still to be tried.
Priority order, size and fee limits of `CreateNewBlock` pick any sequence that its
own tests (`Collected`, on a private index) allow. The rate limiter may refuse the transactions in `Free`, the
fee policy those outside `Relayable`. The replacement code behind `ptxOld` (505-522)
is disabled in the source and left out.

### KeyPool

The pool of one wallet, its records in `wallet.dat`, and everyone who reserves a
key: miners and `getwork` (`Miner`), payments (`Sender`), and
`GetOldestKeyPoolTime` (`Peeker`), which reserves only to look. Lines below are of
`wallet.cpp`.

| Action | Code |
|---|---|
| `TopUpKeyPool` | 1429-1453 begins: called by `ReserveKeyFromKeyPool`, `keypoolrefill` and the thread that `walletpassphrase` starts |
| `GenerateNewKey`, `WritePool`, `WritePoolFails`, `LoopEnds` | its loop and the second one of `NewKeyPool` (1415-1421): two commits for each key, the key in `AddKey` (30-56) and its pool record (1446), which may fail |
| `Reserve`, `UseDefault` | `ReserveKeyFromKeyPool` 1455 after its top-up; the two branches of `GetReservedKey` 1553 |
| `KeepKey`, `ReturnKey` | 1497-1516, 1571-1585, the destructor |
| `GetKeyFromPool` | 1518: reserve and keep under one lock |
| `Lock`, `Unlock`, `EncryptWallet`, `RenewErase` | `keystore.cpp`, 83, 214, and the first loop of `NewKeyPool` 1405, record by record |
| `CrashAndRestart` | the process dies; `CWalletDB::LoadWallet` puts every pool record into `setKeyPool` |

`busy` names the loop that a thread is in ("fill", "erase", "write"), and `cs_wallet` is
the guard `busy = "no"`: a crash or a failed write may hit a loop anywhere, `CheckWork`
calls `KeepKey` without the lock, and the relock timer locks the wallet without it, which
makes `GenerateNewKey` throw (`LoopEnds`). Keys are numbered as they are generated;
`used` and `fresh` are history. Index 0 stands for -1. `TopUpKeyPool` throws when a
record is not written, `NewKeyPool` does not look at the result. Reads and erasures of
records do not fail, and `vchDefaultKey` does not change. The branch of
`GetKeyFromPool` that generates a key (1533) is never taken: an unlocked wallet has a
key after its top-up.

### DbEnv

The environment `bitdb`. Lines below are of `db.cpp`.

| Action | Code |
|---|---|
| `Open`, `OpenFails` | the constructor of `CDB` 117-172: count, handle, and the count taken back when `Db::open` fails |
| `CloseBegin`, `CloseEnd` | `CDB::Close` 182-206: the checkpoint outside `cs_db`, the count under it |
| `ReadCounter`, `StoreCounter`, `Write` | `nWalletDBUpdated++` without a lock, then the write (`walletdb.cpp` 21-33, `walletdb.h` 52-62) |
| `WriteUncounted` | the writers that leave the counter alone: `WriteAccount`, `WriteAccountingEntry` (`walletdb.cpp` 41-49), `WriteMinVersion` (`walletdb.h` 167) |
| `FlushWallet` | `ThreadFlushWalletDB` (`walletdb.cpp` 325-385) under `TRY_LOCK(cs_db)` |
| `JobStart`, `JobTest`, `JobWaits`, `Backup`, `Rewrite` | `BackupWallet` and `CDB::Rewrite`: the loop around the use count with its test of `fShutdown` |
| `ShutdownBegin`, `Flush`, `StopNode`, `FlushAndClose`, `Exit`, `ThreadEnds` | `Shutdown` (`init.cpp` 53-88), `StopNode` (`net.cpp` 1709), `CDBEnv::Flush` 317-360; `exit(0)` runs `~CDBEnv`, which closes the environment if that has not been done (32-56) |

A `CDB` object of a thread is "closed", "open" or "closing". `Init` is the moment
when the flush thread first reads the counter, after `LoadWallet` has closed its
files. The two quiet seconds of the flush thread and its missed locks only delay
it; the 20 seconds of `StopNode` may pass at any moment. `dirty` says that
records of `wallet.dat` are in the log only, and whether a writer that counts made one
of them; recovery by Berkeley DB is not modelled. A keep-alive RPC client that sends nothing leaves its handler blocked in `ReadHTTP`
and holds up `StopNode`: this is the hypothesis of `ShutdownEnds`.

### Peers

The `CNode` objects. Lines below are of `net.cpp`.

| Action | Code |
|---|---|
| `Disconnect`, `FinishDisconnect`, `Delete` | the head of the loop of `ThreadSocketHandler2` 663-725, node by node: out of `vNodes` with the post of its permit, the flag of its grant and the rest; the deletion of what nobody uses |
| `Accept` | 792-844 |
| `CopyNodes`, `ReleaseNodes` | `vNodesCopy` with its references, in the socket and in the message handler |
| `Drop` | whatever sets `fDisconnect` |
| `Acquire`, `LookUp`, `GiveUp` | the permit and the tests of `OpenNetworkConnection` 1369-1398 |
| `Find`, `ReadRef`, `StoreRef` | `ConnectNode` 449-475: `FindNode` under `cs_vNodes`, `AddRef` after it, which reads and stores the plain count |
| `Connect` | the new node 484-517 |
| `GiveBack`, `Clear`, `Take`, `MarkNetworkNode` | 1387-1397: `MoveTo` (`sync.h` 174-193), which reads the flag of the node's grant and posts, clears the flag, and hands the permit over; then `fNetworkNode` |
| `TimePasses` | the 15 minutes before `nReleaseTime` |

`torn` and `clashed` are history variables. `torn`: an `AddRef` outside the lock has
overwritten another change of the count. `clashed`: a thread has read the flag of a
grant while another was between its own read and its last store. `CSemaphoreGrant`
has no lock, and `OpenNetworkConnection` calls `MoveTo` without one, while the socket
handler may release the same grant under `cs_vNodes` (679), or another opener may move
a permit onto the same node. Two openers on a node whose flag is not set lose a permit; a
`MoveTo` and a `Release` that both find it set post one permit twice. `Carrying`, `grant` and
`HalfReleased` count where each permit is, step by step. `closing` is the node that the
socket handler is taking out, and stands for `cs_vNodes`. `kept` counts the references
that `ConnectNode` takes on a node it finds; nobody releases them, so such a node is never deleted. A permit may be
moved onto a node that is disconnected already, which keeps it until it is
deleted. Left out: bans, one-shots, `-connect` (no permit), the sockets of
`-addnode` over the limit, and threads that return at shutdown without releasing.

### BlockDownload

One node that downloads and the peers that serve it.

| Action | Code |
|---|---|
| `Connect` | the version message 2479-2488: the first peer, or the only one, is asked for blocks |
| `HandleInv`, `AskFor` | 2586-2634, `net.h` 314-332: at once, or two minutes after the last request for the block |
| `HandleBlock` | 2836-2850 with `ProcessBlock`: connect, keep as an orphan and ask for the gap, or ignore |
| `SendGetData`, `SendInv` | `SendMessages` 3158-3241 |
| `HandleGetBlocks`, `HandleGetData`, `Reply` | 2697-2728, 2637-2694: `nLimit` and `hashContinue`, the extra inv after the last block of a batch |
| `NewBlock` | a peer accepts a block and announces it |
| `Drop` | the connection ends; both sides forget their `CNode` |

The chain is a line of valid blocks. A request that was put off becomes due at some
later time. The node as a server, the relay of transactions and `getheaders` are
left out. With several peers, or after a lost connection, a download really can
come to rest early: the peer that was asked is gone, or the last request went to
the slower one. `disturbed` records that, and `NewBlockWakes` states the recovery.

### Wallet

The wallet's transactions and spent flags next to pool and chain. Lines below are
of `wallet.cpp`.

| Action | Code |
|---|---|
| `CommitTransaction`, `MarkSpent`, `Broadcast` | 1081-1252, 295-318: record, one mark after the other, pool |
| `MessageTx`, `AddUnchecked`, `SyncTx` | the tx handler around `AcceptToMemoryPool` and `SyncWithWallets` |
| `ConnectBlock`, `ConnectEmptyBranch`, `CommitChain`, `WriteBestBlock` | `SyncWithWallets` before the commit, the commit, the locator |
| `BackupWallet`, `Crash`, `Restore` | a copy of the file; the process dies; it starts with the copy |
| `ScanTx`, `StartThreads` | `ScanForWalletTransactions` 686-706; `init.cpp` 767-771 |
| `ReacceptWalletTransactions`, `Reaccept`, `RoundDone`, `ScanDone` | 717-773 |

A transaction has one output and is known by its name; amounts, fees and
`SelectCoins` are any choice of available coins; `Hash` gives the order of `mapWallet`,
whose least entry not yet visited a round of `Reaccept` takes next. RPC and GUI hold `cs_main` and `cs_wallet` from the selection
to the commit (`bitcoinrpc.cpp` 3141, `qt/walletmodel.cpp` 168), and
`ReacceptWalletTransactions` holds `cs_wallet` but not `cs_main`, so a block may be
half connected while it repairs flags. A copy has all keys that are needed. `vtxPrev`
holds all ancestors where the code stops at a depth.

History variables name what the properties must except: `lost`, coins that a crash
kept from being marked, which stay so until the payment confirms; `restored`, the
kind of copy that was put back: "bare" without a locator, so not rescanned, and
"raced" when its repair met a block in flight; `refused`, a commit refused by the pool
with start-up complete. That start-up ends is not checked.

### AddrMan

The whole `CAddrMan` is one record, since every operation runs under its lock.

| Action | Code |
|---|---|
| `Add` | `Add_` with `Create` and `ShrinkNew` (`addrman.cpp` 93-201, 312-368) |
| `Good` | `Good_` and `MakeTried`, with the eviction from a full tried bucket (203-310) |
| `GetAddr` | the shuffle of `GetAddr_` (493-507) with `SwapRandom` |
| `Restart` | `DumpAddresses`, then the file read back (`addrman.h` 279-378) |

An entry is known by its id, as in the code: `mapInfo` and `fInTried` are sets of ids,
buckets and `vRandom` hold ids, `mapAddr` leads from an address to its id, and an entry that
was deleted and comes back has another one. `Saved` writes what `DumpAddresses` writes: the
entries in the order of their ids, without them, and the buckets as lists of places in the
file (`Index`, the `mapUnkIds` of the code, with the loop that stops at `nNew`). `Loaded`
gives ids anew: the places of the new entries, and after them the tried ones that find
room in their bucket (`Kept`); counts, `mapAddr` and the tried buckets are rebuilt.

Whichever entry the code may choose by age or chance, the model may choose. Times
and statistics (`Attempt_`, `Connected_`, `GetChance`, the odds of `Select_`) are left
out, with them the tests -1, -6 and -8 of `Check_`, and so is a file written with another
number of buckets. `MaxId` bounds the ids given from one start to the next.

## 4. What the runs check

The cfgs of `MCLedger` and `MCAddrMan` leave the deadlock check on; in the others a
node with nothing to do waits, and bounded heights, crashes and sets of
transactions run out.

| Run | Instance | Shows |
|---|---|---|
| `chain_arrival` | 9 blocks on 4 branches, unequal work, one invalid, one not acceptable, one suspicious; no faults | whatever the order of arrival the node refines `BestChain`, ends each call on the heaviest valid chain, strands no orphan and never skews (`SettledOnBest`), and records only real invalid work; with all blocks offered again and again it reaches the best chain (`EventuallySynced`) |
| `chain_faults` | 7 blocks, 2 crashes, 2 I/O failures | ledger, links, validity and wallets stay true to the committed tip (`CommittedIsOneChain`), and the pointers in memory follow the records once the two loops are through; the tip only gains work; every step refines `BestChain` until a skew |
| `chain_postponed` | 5 blocks, 1 crash | the skew (a finding) |
| `ledger_index` | 11 transactions, 58 blocks, height 6; a coinbase and a transaction can be fully spent and replaced (BIP30) | the index is the coin set of the chain; `Connects` is the reference `ValidBlock`; connect is undone exactly; only a replaced duplicate can keep a block from being disconnected |
| `pool_reorg` | 10 transactions, 5 blocks, height 4, reorganisations of depth 1 and 2, 2 orphans | pool, orphan and resurrection invariants |
| `pool_miner` | miner on, 3 rival blocks, depth 1 | a template for the tip connects |
| `keys` | a miner, two senders, a peeker, 5 keys, 1 crash or failed write, encryption at any moment (3.1 million states) | a used key never has a pool record again; until the encryption no key has two owners, each index has its record and no more keys are lost than there were faults, but for the one being written |
| `dbenv` | a handler and a miner, two files, 3 counted updates | counts exact, nothing in use closed before the exit, a clean end (`HandlesSafe`); no counted update overlooked; they get into `wallet.dat`; the shutdown ends |
| `peers` | 2 handlers, 2 openers, 2 addresses, 2 permits, 1 inbound, 3 nodes of which only the first may be inbound (3.4 million states up to symmetry); not followed past damage | no node in use is deleted unless its count was torn; permits conserved and outbound nodes limited until two threads are inside one grant |
| `block_download` | 2 peers, batches of 2, height 4 growing to 6, 2 lost connections | an undisturbed download completes; a stalled one is woken by the next block; answered requests are forgotten; the exchange comes to rest |
| `wallet` | 6 transactions: two coins, a payment with change, one that spends the change, one that conflicts, one signed by another copy of the wallet; 2 faults, reorganisations of depth 1 (1.3 million states) | spent coins are marked after any start-up; nothing forgotten; no coin paid with twice; the pool takes what the wallet signs |
| `addrman` | 4 addresses, 5 ids, 2 new buckets of 2, 2 tried buckets of 1, shuffles of half the order (637,000 states up to symmetry) | `Check_` holds, tried addresses are kept, `peers.dat` round-trips under other ids |

Why the bounds are enough. The chain instance has a fork at the genesis block and
one above it, an extension, a two-way reorganisation, a branch that wins only by
weight, an orphan chain of two, and, with one crash, a branch that is heavier than
the tip by more than one block, which is what postponed reconnects need. Two
crashes let the second one hit the recovery from the first. The ledger has chains
of spends inside and across blocks, a double spend, a fee, an overclaim and
immature spends, and enough height for maturity 2 and for a full replacement. The
pool has a conflict, a chain and a diamond of dependencies, more orphans than the
limit, and depth 2, so that resurrected transactions depend on each other. The
key pool has `-keypool=1`, so two keys in the set: both can be reserved at once,
a third top-up follows, and numbers are used again after a renewal and after the
pool of a locked wallet has run dry. The database instance lets one thread be slow
on the counter while the other one updates, the handler wait in a backup while the
miner uses the file, and the miner outlive `StopNode`; with three updates a slow store
sets the counter back and it is counted up again. Two openers can meet on one
node, with and without a permit on it, and exhaust the permits. Two batches and two
blocks found during the download make `hashContinue` be used, overtaken and left
behind. Two faults of the wallet are a restore of a copy and a crash in its
recovery, or a crash and a reorganisation; with three the run passes too. In the
address manager every bucket fills up, so that evictions feed each other, and with one
id more than addresses an entry can be deleted and come back under another id before a
restart numbers all of them anew. Every property has a plausible mutant of the code
(`PROJECT.json`, "mutants") that the same run refutes; a property of several parts
has one for each of them.

Fairness. `chain_arrival` (`EventuallySynced`): `WF(Step)`, as the message thread runs
a handler to its end and no lock is held for ever under `cs_main`; and
`WF(ProcessBlock(b))` for every block, as peers announce and re-send what the node
lacks. No fairness is put on crashes or failures. `dbenv` (`WalletSettles`,
`ShutdownEnds`): weak fairness on what a thread has begun (closing, updating, a
backup), on the loop of the flush thread and on `Shutdown`, which only poll; strong
fairness on `ThreadEnds`, because a thread comes back to the head of its loop again
and again and looks at `fShutdown` there. No thread is made to open a database.
`block_download` (`ComesToRest`): `WF(Steps(p))`, as the message threads of both sides
serve every node in turn and `SendMessages` sends what has become due. Blocks,
connections and losses are not fair.

## 5. What is proved

`ChainStateProofs` (any block tree, any verdicts, any number of crashes and
failures): `TypeOK`, `CommittedIsOneChain` (from a theorem for each of its parts),
`MemoryMatchesDisk`, `TipGainsWork` and `StepRefinement`, the step simulation of
`BestChain`.

The properties are not inductive: nothing in them says what a half-done
`SetBestChain` has committed. The invariant `IInv` is `TypeOK` and three parts:
`IndexInv` (`RecordsInv`: every record has its entry, and without an I/O failure every
entry its record; `LinksInv`: what the two loops have still to do turns the links in
memory into the committed ones; and the index is closed under `pprev`),
`ProgressInv` (at each stage of `job`, where the committed tip lies between the old
tip and the block being connected, and which blocks `todo` still holds) and
`LedgerInv` (unless skewed: applied blocks, links, validity and wallet of the
committed chain). The lemmas before it are about paths: the fork of two branches,
where `pindexIntermediate` lies, what `Relinked` does to a path, and that cutting and
linking in memory does the same to the pointers (`LoopsFollowRecords`), which the reverse
order would not. Every action has its step, and the temporal theorems only combine.

`OrderlyInv` carries `SettledOnBest` through a call without faults: only the block that
`SetBestChain` is working on can beat the best one, nothing is postponed, and an orphan
left behind waits for a block in the queue or for one that cannot connect. With it
`FaultlessRefinement` proves `Spec => Refinement`, the whole of `BestChain`, for
`MaxCrashes = 0` and `MaxGlitches = 0`; with faults the step simulation
`StepRefinement` holds until a skew. `InvalidWorkHolds` proves `InvalidWorkIsReal`
with crashes.

Assumptions: those of `BlockTree`, which are facts of the code: a block's work is
positive (`CheckProofOfWork`), only the genesis block has no parent. What needs
induction along `pprev` (`PathFacts`: a path is closed under `pprev`, two paths share a
lower part) is proved with a least element: among the blocks that break the statement
one has the least `ChainWork`, and its parent does not break it (`BlockInd`).

`LedgerProofs` (any transactions and blocks): `IndexIsTheChain`, `ConnectIsUndone`,
`OnlyDuplicatesBlock` and `AcceptsValidBlocks`. `Scan` and `Undo` are recursive functions; a
lemma each gives their rounds, and induction on the rounds (`NatInd`, from the least
natural number that fails) says what they compute: `Scan` leaves in the queue the
records of the coins after the block, `Undo` in reverse order restores them.
`Described` says that every block of the chain spent coins that existed at its place,
which is what makes it possible to take off the block *below* the tip after the tip;
`Unique` adds, while nothing is replaced, that no transaction is in two blocks
and each has its record, which is why every record that `DisconnectInputs` needs is there.

`AcceptsValidBlocks` compares two descriptions of validity: spent marks, queued records and
positions against the coins and heights of the chain. `Keeps` says what the queue is after
each round, so that a round tests what `ValidBlock` asks for (`TestedIs`), and `PlacedIn`,
an invariant of its own, that a record names the last block that holds its transaction. The
fees add up (`Accounts`) because no coin is paid twice in a block: a spent one does not
come back, since BIP30 keeps the block from making it again. The library defines a sum
over a set by choosing elements; the lemmas from `SumExists` to `OutTotalAdds` show, by
induction on the size of the set, that the order does not matter. Assumptions: a transaction
has finitely many inputs, and `COINBASE_MATURITY` is not 0, as otherwise a block might
spend its own coinbase.

`MemPoolProofs` (any transactions, blocks, depth and limit). `PoolSpendsOnce` and
`OrphansConsistent` do not need the chain: `PoolInv` adds that `mapNextTx` is total on the
spendings; `OrphanInv` that the stored orphans are finite, that the handler only
looks at stored ones, and at none when it is not running. `TypeOK`,
`PoolNotInChain` and `NothingLost` speak of the middle of a reorganisation. `Covered`: what
is in the pool, or will be put back, and has a record is still to be removed;
`Settled`: nothing is left to be put back or removed when other threads see the new tip.
They rest on what `Updated`, `Unwound` and `Rewound` do to the set of records, again by
induction on the rounds. `KeptInv`: what the old chain had and the new one has not is in the
pool, still in `vResurrect`, or has a rival in the pool or in the new chain; a rival
leaves the pool only because a new block holds it.

`NoneLeftBehind` proves `OrphansRetried`: at the end of the handler no orphan that waits for
one of the accepted transactions could be accepted. The property speaks of that moment only;
`RetryInv` says at each step that an orphan which could be accepted, and waits for a hash in
`work`, is in `visit` or also waits for a hash that the loop has yet to reach. It stays so
because the index does not move within a handler, and because an orphan that does not
spend what has just entered the pool could have been accepted before (`AcceptedBefore`): a
full pool only makes conflicts.

`TemplateIsValid` proves `TemplateConnects`. When the template is made, the miner's
tests on its private index are shown to be those of `ConnectBlock`, round by round
(`Simulates`), although the block has the coinbase in front. This needs `PosInv`: a
record of the index names a block of the chain that holds its transaction. Since
`pindexBest` was read without the lock, the invariant `TemplateInv` promises this only
while the template builds on the best block, and `GrowInv` says that it never does again
once another chain has won: a new chain is longer.

`KeyPoolProofs` (any holders, any `-keypool`, any number of keys and faults).
`UsedIsGone` proves `UsedNotOnDisk`, also through encryption, renewal and reused
numbers. `UsedNotOnDisk` alone is not inductive: `DiskInv` adds that a key has at
most one record and that the record of a reserved key can only be at its index,
so that erasing the index erases the key, and that a key whose pool record is being
written is nowhere yet (`PendingIsNew`). `PoolIsKept` and `OneOwner` prove
`PoolMatchesDisk` and `PlainUsedOnce` for a wallet with a spare key (`KeypoolSize > 0`) as
long as it is not encrypted. Both conditions are needed: `Backed` says that
the pool always has an index above each reserved one, which a locked wallet, or one
with `-keypool=0`, does not keep. A new key is committed before its pool record, so a crash
or a failed write in between leaves a key that is in `wallet.dat` and in nobody's hands:
`NoKeyLost` counts these keys, and says that there are at most as many as faults, besides
the one being written. It needs in addition that no record lies above the pool
(`Covered`), so that a top-up overwrites none.

`DbEnvProofs` (any threads, files and number of updates): `HandlesSafe` and
`NothingMissed`. `EntryInv` ties handles and counts to the map entries, since `Flush`
visits entries, not files; `JobInv` says that a backup or a rewrite belongs to a
thread `StopNode` waits for, which is why the environment outlives it, and that a file
left in use at the end is left by another one; `CounterInv`
says that while something counted waits to be flushed the counter is ahead of the flush
thread, and that whatever a slow thread has read of the counter is not behind the flush
thread, so that its late store cannot hide an update.

`PeersProofs` (any handlers, any finite set of openers, any addresses and limits):
`OnlyTornFrees` and `OutboundLimited`. The count covers the handlers that hold the node,
the references of `ConnectNode` and the one of `vNodes` (`CountInv`). That is not enough for
an opener that made a node and holds no reference of its own: `UseInv` says that the first
reference of that node is released only after `fNetworkNode` was set, so by another
opener that has one. `OnlyTornFrees` holds past a clash of two grants too.
`PermitsConserved` counts permits through the steps of `MoveTo` and `Release`: a
permit that is posted while its flag is still set is `HalfReleased`, and `MoveInv` says what
the flag is at each step of a `MoveTo` as long as nobody else is inside the same grant. `Permitted`
says that a listed outbound node has its permit, or the
opener that made it still holds it; no two openers hold one node they made, so nodes map
one to one to permits, and their number is bounded by counting.

`WalletProofs` (any transactions, chain and number of faults): every property of the run.
`WInv` is the conjunction of `TypeOK` and

* `PayInv`, for `PaysOnce`: every signed payment is recorded, its coins are marked
  or about to be, and (`SourcesInv`) a payment of this wallet in the chain or in a
  message was signed here;
* `JobInv`: what the thread that holds `cs_main` may have in hand, and that chains
  are ordered;
* `BackupInv`: a copy satisfied the same invariant (`FileInv`) when it was made;
* `LocatedInv`, for a wallet whose file has a locator: everything up to the locator,
  and as far as the scan has come, is recorded and marked;
* `BareInv`, for a copy without one: what `ReacceptWalletTransactions` has visited
  is marked.

`MarksSpent` and `Remembers` follow. `CommitAccepted` needs in addition `PaymentsInv`, that
what is known of this wallet's payments was signed here from coins of the wallet, and
`OfferedInv`, that every payment start-up has visited is in the pool or the chain. While
no mark is lost and no other copy of the wallet spends its coins, nothing in the pool or
the chain conflicts with a payment (`NoConflict`), so each visit succeeds whatever the order of
the hashes. Assumptions: the payments are not in the chain at the start, and the chain at
the start spends only outputs of earlier transactions.

`AddrManProofs` (any finite sets of addresses and buckets, any sizes): `Check`, `FileRoundTrips`
and `TriedIsKept`. `Sound(m, pending)` strengthens `Check_` with what it does not look at
(a place in the random order and the position of an entry are inverse to each other,
as are `mapAddr` and the addresses; ids in use lie below `nIdCount`, which is what
makes the next one new). References of the ids in `pending` have been counted and are in no
bucket yet, which lets one lemma per helper (`Delete`, `ShrinkNew`, `Create`, `Untie`,
`Replace`) compose to one per operation.

For the file, `RankOf` (the places in a list ordered by ids are one to one with the ids, and
onto 0 to the length less 1) gives that the numbering loop reaches every entry before it
stops at `nNew` (`SavedIs`), which is where the totals of `Check_` are needed. Nothing is
dropped on the way back: every tried entry finds room (`KeptAll`), and every bucket's
reference to an entry is below `BucketsPerAddress` (`EarlierIs`). So what is read is the
old manager under other ids (`EntriesIs`, `NumberIs`, `LoadedRenumbers`), and a renumbered
manager is sound and has the same contents (`RenumberedSound`, `RenumberedContents`).

Only model-checked:

* all of `BlockDownload`, whose three invariants speak of everything in flight between the
  node and its peers.
* liveness (`EventuallySynced`, `WalletSettles`, `ShutdownEnds`, `ComesToRest`), which is out
  of the prover's reach.

## 6. Findings and observations

**Postponed reconnect** (`chain_postponed`, `BestIsConnected`; 1616-1637). When a
postponed reconnect fails, `SetBestChain` leaves its loop and still announces the
block it was called for. Memory and the database then disagree about the tip
until the next restart, and the next block is connected on the wrong index.
It takes a crash, or an I/O failure, between the commit of a block's record and its
connection: `SkewNeedsFault` shows that blocks alone do not lead there.

Other places where the models had to be weaker than a comment suggests:

* Disconnecting a block whose coinbase duplicates a fully spent one erases the
  record (1049-1052), and the older block that spent the first instance cannot be
  disconnected any more; hence `~replaced` in `OnlyDuplicatesBlock`.
* When the transaction of `AddToBlockIndex` fails (1697-1701), the block stays in
  `mapBlockIndex` without a record. It is refused as a duplicate from then on, and a
  heavier child can make it `hashBestChain` as `pindexIntermediate` before its record is
  written. After a crash its record is missing, and `LoadBlockIndexGuts` makes an empty
  entry in its place; hence `glitches = 0` in `Restartable` and `MemoryMatchesDisk`.
* Each accepted transaction leaves an empty entry in
  `mapOrphanTransactionsByPrev` (2792), so `OrphansIndexed` speaks of pairs.
* Numbers of new keys follow the last index in `setKeyPool`, which does not hold
  the reserved ones (`wallet.cpp` 1440-1443). Once a locked wallet has drained its
  pool, the numbering starts at 1 again, and a holder that returns its index then
  key that another one holds; hence `~crypted` in `PlainUsedOnce` and `PoolMatchesDisk`.
  With `-keypool=0` a pool that is not encrypted runs dry too; hence `KeypoolSize > 0`.
* A new key is committed before its pool record (`wallet.cpp` 1446). A crash or a failed
  write in between leaves a key that no pool knows; hence the bound in `NoKeyLost`.
* `WriteAccount`, `WriteAccountingEntry` (`walletdb.cpp` 41-49) and `WriteMinVersion`
  (`walletdb.h` 167) do not touch `nWalletDBUpdated`. What they write stays in the log
  until the next counted update, a backup or the shutdown, after the `move` call for
  example; hence `dirty = "counted"` in `NothingMissed` and `WalletSettles`.
* A miner that outlives the 20 seconds of `StopNode` can have a file in use when
  `Shutdown` calls `Flush(true)`, which then leaves the environment open. `exit(0)`
  (`init.cpp` 78-88) runs `~CDBEnv`, which closes it all the same (`db.cpp` 32-56), and
  `wallet.dat` may be left with records in the log; hence the exceptions in `UsedIsOpen`
  and `ClosedIsClean`.
* `CSemaphoreGrant` has no lock (`sync.h` 174-193), and `OpenNetworkConnection` moves a
  permit without one (`net.cpp` 1392). Two openers on one node, or a move against the
  release at 679, can lose a permit or post it twice; hence `~clashed` in
  `OutboundLimited`.
* `NewKeyPool` erases the records of the indices in the set (`wallet.cpp` 1410). A
  key that is reserved while the wallet is encrypted keeps its record, and can be
  offered again although it was stored unencrypted before.
* The RPC thread starts (`init.cpp` 770) before `ReacceptWalletTransactions` (782):
  spending unconfirmed change right after a restart may be refused, where
  `CommitTransaction` says "This must not fail" (`wallet.cpp` 1245); `CommitAccepted`
  counts refusals after start-up only.
* A wallet that was put back without a locator learns its coins late: while a block is
  connected that replaces a branch, it may record a coin whose spender is still on
  that branch; hence `restored = "bare" => job.kind # "block"` in `ChainSpentIsMarked`.
* A block can replace a fully spent duplicate, which resets spent marks of coins that
  older blocks spent. So `NothingLost` looks for the rival in the blocks of the chain
  and not in the index.
* `SelectTried` (`addrman.cpp` 125-147) returns a position after it has swapped the
  entry away, so the evicted entry need not be the least recently tried one.

## 7. Reading the files

`M.tla` is a component, `MCM.tla` its instances for TLC with `MCM.cfg`, or one
`MCM_<run>.cfg` for each run, `MProofs.tla` its theorems. A definition named `Op_Slip`
is a mutant of `Op`. Run `tlc -config MCM.cfg MCM` and `tlapm MProofs.tla`.
