----------------------------- MODULE ChainState -----------------------------
(***************************************************************************)
(* The block index and the best chain of one node (main.cpp, db.cpp):      *)
(* ProcessBlock, AcceptBlock, AddToBlockIndex, SetBestChain, Reorganize    *)
(* and SetBestChainInner, with the database transactions of blkindex.dat   *)
(* as the units that a crash or an I/O error can separate.                 *)
(*                                                                         *)
(* The whole of ProcessBlock runs under cs_main, so one call is in         *)
(* progress at a time (job); its steps are separate actions because the    *)
(* process can die between two commits and because threads that do not     *)
(* take cs_main read pindexBest and pnext in between.                      *)
(***************************************************************************)
EXTENDS BlockTree, Sequences, FiniteSets

CONSTANTS
    MaxCrashes,   \* bound: times the process dies and is started again
    MaxGlitches   \* bound: attempts that fail for a reason other than validity

ASSUME BoundAssumption == MaxCrashes \in Nat /\ MaxGlitches \in Nat

VARIABLES
    index,        \* mapBlockIndex: the blocks with an entry in memory
    next,         \* pnext of every entry
    best,         \* pindexBest and hashBestChain
    orphans,      \* mapOrphanBlocks
    job,          \* the ProcessBlock call in progress
    disk,         \* the committed content of blkindex.dat
    wallet,       \* what SyncWithWallets and CWallet::SetBestChain left behind
    invalidWork,  \* bnBestInvalidWork, written through whenever it changes
    crashes, glitches,
    skewed        \* history: SetBestChain has left its last blocks unconnected

vars == <<index, next, best, orphans, job, disk, wallet, invalidWork,
          crashes, glitches, skewed>>
memory == <<index, next, best, orphans>>
faults == <<crashes, glitches>>

Idle == [stage |-> "idle", block |-> NoBlock, todo |-> {}, cut |-> {}, add |-> {},
         queue |-> <<>>]

Link == [Block -> Block \cup {NoBlock}]

TypeOK ==
    /\ index \subseteq Block
    /\ next \in Link
    /\ best \in Block
    /\ orphans \subseteq Block
    /\ job \in [stage : {"idle", "best", "secondary", "orphans", "lost"},
                block : Block \cup {NoBlock},
                todo  : SUBSET (Block \ {Genesis}),  \* vpindexSecondary
                cut   : SUBSET Block,       \* vDisconnect, until the loop over it
                add   : SUBSET Block,       \* vConnect, until the loop over it
                queue : Seq(Block)]         \* vWorkQueue, from position i on
    /\ job.stage \in {"best", "secondary"} => job.block \in index \ {Genesis}
    /\ disk \in [index : SUBSET Block, next : Link,
                 best : Block, applied : SUBSET Block]
    /\ wallet \in [synced : SUBSET Block, locator : Block]
    /\ invalidWork \in Nat
    /\ crashes \in 0..MaxCrashes /\ glitches \in 0..MaxGlitches
    /\ skewed \in BOOLEAN

\* LoadBlockIndex on an empty data directory
Init ==
    /\ index = {Genesis} /\ orphans = {}
    /\ next = [b \in Block |-> NoBlock]
    /\ best = Genesis
    /\ job = Idle
    /\ disk = [index |-> {Genesis}, next |-> [b \in Block |-> NoBlock],
               best |-> Genesis, applied |-> {}]
    /\ wallet = [synced |-> {}, locator |-> Genesis]
    /\ invalidWork = 0
    /\ crashes = 0 /\ glitches = 0
    /\ skewed = FALSE

-----------------------------------------------------------------------------
(* AcceptBlock and AddToBlockIndex                                         *)

Glitch == glitches < MaxGlitches /\ glitches' = glitches + 1

\* Plausible slips that the runs must notice
Declined_EndsLoop == Idle
HasMoreWork_OrEqual(b) == ChainWork[b] >= ChainWork[best]
HasMoreWork_ByHeight(b) == Cardinality(Ancestors[b]) > Cardinality(Ancestors[best])

\* AcceptBlock returned false: ProcessBlock gives up on its own block, the
\* loop over orphans goes on with the next one
Declined == IF job.queue = <<>> THEN Idle
            ELSE [job EXCEPT !.stage = "orphans", !.block = NoBlock, !.todo = {}]

\* AcceptBlock returned true: the hash joins vWorkQueue
Accepted(b) == [job EXCEPT !.stage = "orphans", !.block = NoBlock, !.todo = {},
                           !.queue = Append(@, b)]

\* bnChainWork against bnBestChainWork
HasMoreWork(b) == ChainWork[b] > ChainWork[best]

\* Contextual tests, then the entry in mapBlockIndex and its own transaction;
\* only more work than the best chain leads on to SetBestChain.  When that
\* transaction fails, the entry in memory stays, without a record.
AcceptBlock(b) ==
    \/ /\ b \notin index /\ b \in Acceptable /\ Prev[b] \in index
       /\ index' = index \cup {b}
       /\ disk' = [disk EXCEPT !.index = @ \cup {b},
                               !.next[b] = NoBlock]
       /\ job' = IF HasMoreWork(b)
                 THEN [job EXCEPT !.stage = "best", !.block = b, !.todo = {}]
                 ELSE Accepted(b)
       /\ UNCHANGED glitches
    \/ /\ b \in index \/ b \notin Acceptable \/ Prev[b] \notin index
       /\ job' = Declined
       /\ UNCHANGED <<index, disk, glitches>>
    \/ /\ b \notin index /\ b \in Acceptable /\ Prev[b] \in index
       /\ Glitch                       \* TxnBegin or TxnCommit fails
       /\ index' = index \cup {b}
       /\ job' = Declined
       /\ UNCHANGED disk
    \/ /\ Glitch                       \* CheckDiskSpace or WriteToDisk fails
       /\ job' = Declined
       /\ UNCHANGED <<index, disk>>

\* ProcessBlock, for a block that passed CheckBlock.  Off the tip of the best
\* chain, a block that the last checkpoint makes suspicious is refused.
ProcessBlock(b) ==
    /\ job.stage = "idle"
    /\ b \notin index \cup orphans
    /\ Prev[b] = best \/ b \notin Suspicious
    /\ IF Prev[b] \in index
       THEN AcceptBlock(b) /\ UNCHANGED orphans
       ELSE orphans' = orphans \cup {b} /\ UNCHANGED <<index, disk, job, glitches>>
    /\ UNCHANGED <<next, best, wallet, invalidWork, crashes, skewed>>

\* the inner loop over mapOrphanBlocksByPrev: one orphan of the hash in front
ProcessOrphan(b) ==
    /\ job.stage = "orphans" /\ job.queue # <<>>
    /\ b \in orphans /\ Prev[b] = Head(job.queue)
    /\ AcceptBlock(b)
    /\ orphans' = orphans \ {b}
    /\ UNCHANGED <<next, best, wallet, invalidWork, crashes, skewed>>

NextInQueue_OneLevel ==
    /\ job.stage = "orphans"
    /\ job.queue # <<>> /\ \A b \in orphans : Prev[b] # Head(job.queue)
    /\ job' = Idle
    /\ UNCHANGED <<memory, disk, wallet, invalidWork, faults, skewed>>

\* the outer loop moves on when the hash in front has no orphans left
NextInQueue ==
    /\ job.stage = "orphans"
    /\ job.queue # <<>> /\ \A b \in orphans : Prev[b] # Head(job.queue)
    /\ job' = IF Len(job.queue) <= 1 THEN Idle
              ELSE [job EXCEPT !.queue = Tail(@)]
    /\ UNCHANGED <<memory, disk, wallet, invalidWork, faults, skewed>>

-----------------------------------------------------------------------------
(* SetBestChain                                                            *)

\* The transaction index matches the chain that the step builds on.  Then the
\* outcome of ConnectBlock is decided by the blocks; otherwise it depends on
\* what the index happens to hold.
Sound(base) == disk.best = base /\ disk.applied = Branch(base)

\* ConnectBlock and DisconnectBlock for all of C, on top of base
Connects_LastOnly(base, C) ==
    Sound(base) => \E c \in C : C \subseteq Ancestors[c] /\ c \in Valid
Connects(base, C) == Sound(base) => C \subseteq Valid

Relinked_KeepsOldBranch(link, D, C) ==
    [b \in Block |-> IF \E c \in C : Prev[c] = b
                     THEN CHOOSE c \in C : Prev[c] = b ELSE link[b]]

\* hashNext in the records, after DisconnectBlock of the blocks D and
\* ConnectBlock of the blocks C: both write the record of the parent
Relinked(link, D, C) ==
    [b \in Block |-> IF \E c \in C : Prev[c] = b
                     THEN CHOOSE c \in C : Prev[c] = b
                     ELSE IF \E d \in D : Prev[d] = b THEN NoBlock ELSE link[b]]

\* a record is written for every parent, whether it had one before or not
Recorded(D, C) == disk.index \cup {Prev[b] : b \in D \cup C}

Rewritten_NoDisconnect(D, C, tip) ==
    [disk EXCEPT !.index = Recorded(D, C), !.next = Relinked(@, D, C), !.best = tip, !.applied = @ \cup C]
Rewritten_NoHashBestChain(D, C, tip) ==
    [disk EXCEPT !.index = Recorded(D, C), !.next = Relinked(@, D, C), !.applied = (@ \ D) \cup C]

\* the committed database after those edits, with tip as hashBestChain
Rewritten(D, C, tip) ==
    [disk EXCEPT !.index = Recorded(D, C), !.next = Relinked(@, D, C), !.best = tip,
                 !.applied = (@ \ D) \cup C]

Synced_AfterReload(C) == wallet

\* ConnectBlock hands every transaction of the block to the wallets before
\* the database transaction commits
Synced(C) == [wallet EXCEPT !.synced = @ \cup C]

RecordInvalid_Parent(b) ==
    IF ChainWork[Prev[b]] > invalidWork THEN ChainWork[Prev[b]] ELSE invalidWork

\* InvalidChainFound
RecordInvalid(b) ==
    IF ChainWork[b] > invalidWork THEN ChainWork[b] ELSE invalidWork

\* A block that does not connect always gets there; a failed TxnBegin or
\* TxnCommit of SetBestChainInner does not.
FailureRecorded(b) ==
    /\ invalidWork' \in {invalidWork, RecordInvalid(b)}
    /\ glitches' = glitches => invalidWork' = RecordInvalid(b)

\* the blocks of C that connect before the first one that does not
Prefixes(C) == {{}} \cup {C \cap Ancestors[c] : c \in C}
ValidPrefix(C) == {c \in C : C \cap Ancestors[c] \subseteq Valid}

\* What the wallets saw when connecting C on base failed, and why it failed
ConnectFails(base, C) ==
    \E done \in Prefixes(C) :
        /\ wallet' = Synced(done)
        /\ \/ /\ Sound(base) /\ ~(C \subseteq Valid) /\ done = ValidPrefix(C)
              /\ UNCHANGED glitches
           \/ /\ ~Sound(base) /\ UNCHANGED glitches
           \/ /\ Sound(base) => done \subseteq Valid
              /\ Glitch

Intermediate_AtEqualWork(b, t) ==
    IF Prev[b] = best THEN t = b
    ELSE /\ t \in Branch(b)
         /\ ChainWork[Prev[t]] < ChainWork[best]
         /\ t = b \/ ChainWork[t] >= ChainWork[best]

\* t is pindexIntermediate: the first block of the chain of b that has more
\* work than the best chain; it is b itself when b extends the best chain
Intermediate(b, t) ==
    /\ t \in Branch(b)
    /\ ChainWork[Prev[t]] <= ChainWork[best]
    /\ t = b \/ ChainWork[t] > ChainWork[best]

\* what leaving the best chain for the chain of t takes apart and puts on
Disconnected(t) == Ancestors[best] \ Ancestors[t]
Connected(t) == Ancestors[t] \ Ancestors[best]

\* Reorganize (or SetBestChainInner, when the block extends the best chain) up
\* to pindexIntermediate, in one database transaction; the pointers in memory
\* are left to the two loops that follow the commit.
Reorganize(t) ==
    /\ job.stage = "best" /\ Intermediate(job.block, t)
    /\ Connects(best, Connected(t))
    /\ disk' = Rewritten(Disconnected(t), Connected(t), t)
    /\ wallet' = Synced(Connected(t))
    /\ job' = [job EXCEPT !.stage = "secondary",
                          !.todo = Ancestors[job.block] \ Ancestors[t],
                          !.cut = Disconnected(t), !.add = Connected(t)]
    /\ UNCHANGED <<memory, invalidWork, faults, skewed>>

\* TxnAbort, InvalidChainFound, and false all the way up to AcceptBlock
ReorganizeFails(t) ==
    /\ job.stage = "best" /\ Intermediate(job.block, t)
    /\ ConnectFails(best, Connected(t))
    /\ FailureRecorded(job.block)
    /\ job' = Declined
    /\ UNCHANGED <<memory, disk, crashes, skewed>>

\* pprev->pnext = NULL for the blocks of vDisconnect
Unlinked(link, D) ==
    [b \in Block |-> IF \E d \in D : Prev[d] = b THEN NoBlock ELSE link[b]]

\* pprev->pnext = pindex for the blocks of vConnect
LinkedTo(link, C) ==
    [b \in Block |-> IF \E c \in C : Prev[c] = b
                     THEN CHOOSE c \in C : Prev[c] = b ELSE link[b]]

UnlinkMemory ==
    /\ job.cut # {}
    /\ next' = Unlinked(next, job.cut)
    /\ job' = [job EXCEPT !.cut = {}]
    /\ UNCHANGED <<index, best, orphans, disk, wallet, invalidWork, faults, skewed>>

LinkMemory_BeforeCut ==
    /\ job.add # {}
    /\ next' = LinkedTo(next, job.add)
    /\ job' = [job EXCEPT !.add = {}]
    /\ UNCHANGED <<index, best, orphans, disk, wallet, invalidWork, faults, skewed>>

LinkMemory ==
    /\ job.cut = {} /\ job.add # {}
    /\ next' = LinkedTo(next, job.add)
    /\ job' = [job EXCEPT !.add = {}]
    /\ UNCHANGED <<index, best, orphans, disk, wallet, invalidWork, faults, skewed>>

MemoryEdited == job.cut = {} /\ job.add = {}

\* the block of vpindexSecondary that comes next
NextSecondary(c) ==
    /\ job.stage = "secondary" /\ MemoryEdited
    /\ c \in job.todo /\ job.todo \cap Ancestors[c] = {c}

\* One more block of vpindexSecondary, in a transaction of its own.
ConnectSecondary(c) ==
    /\ NextSecondary(c)
    /\ Connects(Prev[c], {c})
    /\ disk' = Rewritten({}, {c}, c)
    /\ wallet' = Synced({c})
    /\ job' = [job EXCEPT !.todo = @ \ {c}, !.add = {c}]
    /\ UNCHANGED <<memory, invalidWork, faults, skewed>>

\* It does not connect: the loop ends, this block and those after it are left
\* out, and SetBestChain goes on as if they were not.
SecondaryFails(c) ==
    /\ NextSecondary(c)
    /\ ConnectFails(Prev[c], {c})
    /\ FailureRecorded(c)
    /\ job' = [job EXCEPT !.todo = {}]
    /\ skewed' = TRUE
    /\ UNCHANGED <<memory, disk, crashes>>

\* The end of SetBestChain: the locator for the wallets (not during initial
\* download), then the pointers to the new best block.
NewBestBlock ==
    /\ job.stage = "secondary" /\ job.todo = {} /\ MemoryEdited
    /\ best' = job.block
    /\ wallet' \in {wallet, [wallet EXCEPT !.locator = job.block]}
    /\ job' = Accepted(job.block)
    /\ UNCHANGED <<index, next, orphans, disk, invalidWork, faults, skewed>>

-----------------------------------------------------------------------------
(* Restart                                                                 *)

\* CBlockLocator::GetBlockIndex and ScanForWalletTransactions: from the last
\* block of the locator's chain that is in the main chain, up to the tip
Rescanned ==
    LET main == Ancestors[disk.best]
        common == main \cap Ancestors[wallet.locator]
    IN IF main = common THEN {}
       ELSE (main \ common) \cup {f \in common : common \subseteq Ancestors[f]}

\* every block that the records name has a record
Loadable ==
    /\ disk.best \in disk.index
    /\ \A b \in disk.index \ {Genesis} : Prev[b] \in disk.index

\* The process dies and starts again: LoadBlockIndex rebuilds memory from the
\* committed records, and init.cpp rescans for the wallet.  A block that is named
\* but has no record would become an empty entry without parent, height and work;
\* the model does not follow the node any further.
CrashAndRestart ==
    /\ job.stage # "lost"
    /\ crashes < MaxCrashes /\ crashes' = crashes + 1
    /\ index' = disk.index /\ next' = disk.next /\ best' = disk.best
    /\ orphans' = {}
    /\ IF Loadable
       THEN job' = Idle /\ wallet' = Synced(Rescanned)
       ELSE job' = [Idle EXCEPT !.stage = "lost"] /\ UNCHANGED wallet
    /\ UNCHANGED <<disk, invalidWork, glitches, skewed>>

-----------------------------------------------------------------------------

Step == \/ NextInQueue \/ UnlinkMemory \/ LinkMemory \/ NewBestBlock
        \/ \E b \in Block : \/ ProcessOrphan(b)
                           \/ Reorganize(b) \/ ReorganizeFails(b)
                           \/ ConnectSecondary(b) \/ SecondaryFails(b)

Next == Step \/ CrashAndRestart \/ \E b \in Block : ProcessBlock(b)

Spec == Init /\ [][Next]_vars

\* The thread that handles messages keeps running, and peers keep offering
\* the blocks that the node does not have.
FairSpec ==
    /\ Spec
    /\ WF_vars(Step)
    /\ \A b \in Block : WF_vars(ProcessBlock(b))

-----------------------------------------------------------------------------
(* Properties                                                              *)

\* IsInMainChain of an index entry, on the records of blkindex.dat
InMainChain(b) == disk.next[b] # NoBlock \/ b = disk.best

FaultFree == crashes = 0 /\ glitches = 0

\* The transaction index holds exactly the blocks of the chain that
\* hashBestChain names, at every commit that a crash can expose: connecting
\* and disconnecting a branch is one transaction with the new tip.
LedgerMatchesTip == ~skewed => disk.applied = Branch(disk.best)

\* The pointers read by GetDepthInMainChain and GetBlockIndex agree with the
\* committed ones, although the records are edited inside the transaction and the
\* pointers by two loops after it; between the commit and the second loop they may
\* differ, and hashBestChain is ahead until SetBestChain ends.  Every record has its
\* entry in memory, and an entry lacks its record only after an I/O failure.
MemoryMatchesDisk ==
    /\ MemoryEdited => next = disk.next
    /\ disk.index \subseteq index /\ (glitches = 0 => index = disk.index)
    /\ ~skewed /\ job.stage # "secondary" => best = disk.best

\* A block counts as in the main chain (pnext set, or the tip) exactly when it
\* is on the path from the genesis block to the tip: no reorganisation leaves
\* a pnext behind on the abandoned branch or drops one at the fork.
MainChainIsLinked ==
    ~skewed => /\ \A b \in Block : InMainChain(b) <=> b \in Ancestors[disk.best]
               /\ \A b \in Branch(disk.best) : disk.next[Prev[b]] = b

\* Every block below the committed tip passed ConnectBlock on its own parent,
\* so a branch with an invalid block is never activated past that block.
ActiveChainValid == ~skewed => ChainValid(disk.best)

\* The unwinding of a postponed reconnect can go wrong only after a crash or an
\* I/O failure separated a block's index record from its connection: blocks
\* alone, valid or not and in any order, never leave SetBestChain with blocks
\* unconnected below the tip it announces.
SkewNeedsFault == FaultFree => ~skewed

\* Between calls, no block of the index that is valid with all its ancestors
\* has more work than the best block, whatever the order of arrival.
BestIsMaximal ==
    FaultFree /\ job.stage = "idle" =>
        \A b \in index : ChainValid(b) => ChainWork[b] <= ChainWork[best]

\* Between calls, an orphan whose parent is in the index waits only behind a
\* parent that cannot be connected: vWorkQueue drains recursively.
NoStrandedOrphans ==
    FaultFree /\ job.stage = "idle" =>
        \A o \in orphans : Prev[o] \in index => ~ChainValid(Prev[o])

\* Every block of the committed chain has been offered to the wallets, also
\* when the process died in between and whatever branch was active before.
WalletSawChain == ~skewed => Branch(disk.best) \subseteq wallet.synced

\* What a sequence of blocks leaves behind between calls without faults does not
\* depend on the order of their arrival.
SettledOnBest == SkewNeedsFault /\ BestIsMaximal /\ NoStrandedOrphans

\* A crash alone never leaves records that name a block without one.
Restartable == glitches = 0 => Loadable

\* Every commit of blkindex.dat that a crash can expose describes one chain: the
\* transaction index, the links and the wallets follow hashBestChain, all its
\* blocks are valid, and without an I/O failure all of them can be loaded.
CommittedIsOneChain ==
    LedgerMatchesTip /\ MainChainIsLinked /\ ActiveChainValid /\ WalletSawChain
    /\ Restartable

\* bnBestInvalidWork, which feeds the "longer invalid chain" warning, is the
\* work of some indexed chain with an invalid block when nothing but validity
\* made a connection fail.
InvalidWorkIsReal ==
    glitches = 0 /\ ~skewed /\ invalidWork > 0 =>
        \E b \in index : ~ChainValid(b) /\ ChainWork[b] = invalidWork

\* The committed tip only ever moves to a chain with more work: also through a
\* crash in the middle of the postponed reconnects and after a skew.
TipGainsWork ==
    [][disk.best' # disk.best => ChainWork[disk.best'] > ChainWork[disk.best]]_vars

\* What the comment in SetBestChain takes for granted when a postponed
\* reconnect fails: the tip in memory is a block that has been connected.
BestIsConnected == job.stage = "idle" => best \in disk.applied \cup {Genesis}

\* All blocks offered again and again, the node ends on a chain that no
\* acceptable and valid chain beats.
Reachable(b) == Branch(b) \subseteq Acceptable \cap Valid
EventuallySynced ==
    <>[](\A b \in Block : Reachable(b) => ChainWork[b] <= ChainWork[best])

\* The abstract best chain: every step on the index, the tip and the ledger is
\* one that BestChain allows, as long as no postponed reconnect failed; a restart
\* may forget blocks that never got a record, but nothing of the chain in effect.
Abstract == INSTANCE BestChain
                WITH known <- index, tip <- disk.best, ledger <- disk.applied
Refinement == Abstract!Spec
StepRefinement ==
    [][~skewed /\ job'.stage # "lost" =>
           Abstract!Next \/ (crashes' # crashes /\ Abstract!Forget)
      ]_<<index, disk.best, disk.applied>>
=============================================================================
