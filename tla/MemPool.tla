------------------------------ MODULE MemPool --------------------------------
(***************************************************************************)
(* The memory pool (CTxMemPool), the orphan transactions, and the miner's  *)
(* block templates of one node, next to the chain that empties and refills *)
(* the pool.  Everything here runs under cs_main, which one handler holds  *)
(* from beginning to end; a handler that calls AcceptToMemoryPool or       *)
(* mempool.remove in a loop is one step per call, and no other handler     *)
(* starts in between.  Only the miner reads pindexBest without the lock.   *)
(***************************************************************************)
EXTENDS TxIndex

CONSTANTS
    Standard,     \* transactions that pass IsStandard
    Relayable,    \* those that pass AreInputsStandard and pay the minimum fee
    Free,         \* those that the rate limiter may refuse
    Big,          \* those of more than 5000 bytes
    NoTx,         \* no transaction spends the outpoint
    fGenerateBitcoins,
    None,         \* no template, or nothing read yet
    Candidates,   \* bound: the blocks that peers offer
    MaxHeight,    \* bound: blocks on top of the genesis block
    MaxDepth,     \* bound: blocks that a reorganisation disconnects
    MaxOrphans    \* MAX_ORPHAN_TRANSACTIONS

ASSUME MemPoolAssumption ==
    /\ Standard \subseteq Tx /\ Relayable \subseteq Tx
    /\ Free \subseteq Tx /\ Big \subseteq Tx
    /\ NoTx \notin Tx /\ fGenerateBitcoins \in BOOLEAN
    /\ Candidates \subseteq Seq(Tx)
    /\ MaxHeight \in Nat /\ MaxDepth \in Nat /\ MaxOrphans \in Nat

VARIABLES
    chain,       \* blocks that are connected in the committed database
    txindex,     \* its transaction index
    best,        \* pindexBest and hashBestChain: the chain other threads see
    mapTx,       \* the pool
    mapNextTx,   \* which pool transaction spends an outpoint
    orphans,     \* mapOrphanTransactions
    byPrev,      \* mapOrphanTransactionsByPrev: pairs <<parent, orphan>>
    prevKeys,    \* the parents that have an entry in it, maybe an empty one
    resurrect,   \* vResurrect of Reorganize: calls still to be made
    delete,      \* transactions still to be removed from the pool
    work,        \* vWorkQueue of the tx handler
    reached,     \* i of the loop over it: the entries taken up so far
    visit,       \* orphans of the current work item still to be looked at
    erase,       \* vEraseQueue
    minerPrev,   \* pindexPrev of a CreateNewBlock that has not locked yet
    template     \* the block the miner hashes

chainVars == <<chain, txindex, best>>
poolVars == <<mapTx, mapNextTx>>
orphanVars == <<orphans, byPrev, prevKeys>>
updateVars == <<resurrect, delete>>
retryVars == <<work, reached, visit, erase>>
minerVars == <<minerPrev, template>>
vars == <<chainVars, poolVars, orphanVars, updateVars, retryVars, minerVars>>

Spendings == UNION {In[t] : t \in Tx}
Parents(t) == {o[1] : o \in In[t]}

TypeOK ==
    /\ chain \in Seq(Seq(Tx)) /\ best \in Seq(Seq(Tx))
    /\ DOMAIN txindex = Tx
    /\ mapTx \subseteq Tx
    /\ mapNextTx \in [Spendings -> Tx \cup {NoTx}]
    /\ orphans \subseteq Tx /\ byPrev \subseteq Tx \X Tx /\ prevKeys \subseteq Tx
    /\ resurrect \in Seq(Tx) /\ delete \in Seq(Tx)
    /\ work \in Seq(Tx) /\ reached \in 0..Len(work) /\ erase \subseteq Tx
    /\ visit \subseteq orphans         \* the handler reads live messages only

Init ==
    /\ chain = <<>> /\ best = <<>> /\ txindex = NoRecords
    /\ mapTx = {} /\ mapNextTx = [o \in Spendings |-> NoTx]
    /\ orphans = {} /\ byPrev = {} /\ prevKeys = {}
    /\ resurrect = <<>> /\ delete = <<>>
    /\ work = <<>> /\ reached = 0 /\ visit = {} /\ erase = {}
    /\ minerPrev = None /\ template = None

\* cs_main is free: no chain update and no tx handler is in the middle of it
Idle == chain = best /\ erase = {}

-----------------------------------------------------------------------------
(* CTxMemPool                                                              *)

\* accept without its input checks
Admissible(t, fCheckInputs) ==
    /\ t \in Standard \ Coinbase
    /\ t \notin mapTx
    /\ fCheckInputs => txindex[t] = Absent
    /\ \A o \in In[t] : mapNextTx[o] = NoTx

\* FetchInputs: a parent is neither in the index nor in the pool
Misses(t) == \E p \in Parents(t) : txindex[p] = Absent /\ p \notin mapTx

\* ConnectInputs against pindexBest; a parent from the pool has no spent marks,
\* the conflict test has looked at those
InputConnects(o) ==
    IF txindex[o[1]] = Absent THEN o[2] \in DOMAIN Out[o[1]]
    ELSE Spendable(txindex, NoRecords, o, Len(best))

Accepts(t) ==
    /\ Admissible(t, TRUE)
    /\ ~Misses(t)
    /\ t \in Relayable
    /\ \A o \in In[t] : InputConnects(o)
    /\ ValueOf(In[t]) >= ValueOut(t)

\* addUnchecked
AddToPool(t) ==
    /\ mapTx' = mapTx \cup {t}
    /\ mapNextTx' = [o \in Spendings |-> IF o \in In[t] THEN t ELSE mapNextTx[o]]

RemoveFromPool_KeepsNextTx(t) == mapTx' = mapTx \ {t} /\ UNCHANGED mapNextTx
RemoveFromPool(t) ==
    /\ mapTx' = mapTx \ {t}
    /\ mapNextTx' = [o \in Spendings |->
                        IF t \in mapTx /\ o \in In[t] THEN NoTx ELSE mapNextTx[o]]

\* sendrawtransaction and CWallet::CommitTransaction
SubmitTx(t) ==
    /\ Idle
    /\ Accepts(t)
    /\ AddToPool(t)
    /\ UNCHANGED <<chainVars, orphanVars, updateVars, retryVars, minerVars>>

-----------------------------------------------------------------------------
(* The "tx" message                                                        *)

PairsWithout_Stale(pairs, gone) == pairs
\* the pairs and keys left after EraseOrphanTx of every transaction in gone
PairsWithout(pairs, gone) == {pair \in pairs : pair[2] \notin gone}
KeysWithout_Shared(gone) == prevKeys \ UNION {Parents(t) : t \in gone}
KeysWithout(gone) ==
    prevKeys \ {p \in UNION {Parents(t) : t \in gone} :
                    ~\E t \in Tx : <<p, t>> \in PairsWithout(byPrev, gone)}

EraseOrphans(gone) ==
    /\ orphans' = orphans \ gone
    /\ byPrev' = PairsWithout(byPrev, gone \cap orphans)
    /\ prevKeys' = KeysWithout(gone \cap orphans)

Overflows_Before(t) == Cardinality(orphans) > MaxOrphans
Overflows(t) == Cardinality(orphans \cup {t}) > MaxOrphans

\* AddOrphanTx and LimitOrphanTxSize, which may evict any orphan
AddOrphan(t) ==
    \E evicted \in {{}} \cup {{u} : u \in orphans \cup {t}} :
        /\ (evicted # {}) <=> Overflows(t)
        /\ orphans' = (orphans \cup {t}) \ evicted
        /\ byPrev' = PairsWithout(byPrev \cup (Parents(t) \X {t}), evicted)
        /\ prevKeys' = (prevKeys \cup Parents(t)) \
                          {p \in UNION {Parents(u) : u \in evicted} :
                              ~\E u \in Tx : <<p, u>> \in byPrev'}

ReceiveOrphan(t) ==
    /\ Idle
    /\ Admissible(t, TRUE) /\ Misses(t)
    /\ t \notin orphans \cup Big
    /\ AddOrphan(t)
    /\ UNCHANGED <<chainVars, poolVars, updateVars, retryVars, minerVars>>

ReceiveTx(t) ==
    /\ Idle
    /\ Accepts(t)
    /\ AddToPool(t)
    /\ work' = <<t>> /\ erase' = {t}
    /\ UNCHANGED <<chainVars, orphanVars, updateVars, reached, visit, minerVars>>

\* the outer loop; operator[] creates an entry where there is none
NextPrev ==
    /\ visit = {} /\ reached < Len(work)
    /\ LET hashPrev == work[reached + 1]
       IN /\ visit' = {pair[2] : pair \in {q \in byPrev : q[1] = hashPrev}}
          /\ prevKeys' = prevKeys \cup {hashPrev}
    /\ reached' = reached + 1
    /\ UNCHANGED <<chainVars, poolVars, orphans, byPrev, updateVars, work, erase, minerVars>>

Enqueued_Nothing(t) == work
\* the inner loop; what is accepted here is a parent for another round
Enqueued(t) == Append(work, t)
RetryAccepts(t) ==
    /\ t \in visit
    /\ Accepts(t)
    /\ AddToPool(t)
    /\ work' = Enqueued(t)
    /\ erase' = erase \cup {t} /\ visit' = visit \ {t}
    /\ UNCHANGED <<chainVars, orphanVars, updateVars, reached, minerVars>>

RetryMisses(t) ==
    /\ t \in visit
    /\ Admissible(t, TRUE) /\ Misses(t)
    /\ visit' = visit \ {t}
    /\ UNCHANGED <<chainVars, poolVars, orphanVars, updateVars, work, reached, erase, minerVars>>

RetryRejects(t) ==
    /\ t \in visit
    /\ Accepts(t) => t \in Free
    /\ ~(Admissible(t, TRUE) /\ Misses(t))
    /\ erase' = erase \cup {t} /\ visit' = visit \ {t}
    /\ UNCHANGED <<chainVars, poolVars, orphanVars, updateVars, work, reached, minerVars>>

EndOfTx ==
    /\ erase # {} /\ visit = {} /\ reached = Len(work)
    /\ EraseOrphans(erase)
    /\ work' = <<>> /\ reached' = 0 /\ erase' = {}
    /\ UNCHANGED <<chainVars, poolVars, updateVars, visit, minerVars>>

-----------------------------------------------------------------------------
(* SetBestChain                                                            *)

\* SetBestChainInner: connect, then remove from the pool what b contains
Extend(b) ==
    /\ Idle
    /\ Len(chain) < MaxHeight
    /\ Connects(txindex, b, Len(chain) + 1)
    /\ txindex' = Updated(txindex, b, Len(chain) + 1)
    /\ chain' = Append(chain, b)
    /\ delete' = b
    /\ UNCHANGED <<best, poolVars, orphanVars, resurrect, retryVars, minerVars>>

Disconnected(k) == Reverse(SubSeq(chain, Len(chain) - k + 1, Len(chain)))

\* one round of each loop; after a failure the rest is not reached
TakeOff(r, b) == IF r.ok THEN Undo(r.index, b) ELSE r
PutOn(r, b, h) ==
    IF r.ok /\ Connects(r.index, b, h) THEN [ok |-> TRUE, index |-> Updated(r.index, b, h)]
    ELSE [r EXCEPT !.ok = FALSE]

\* the index after the last k blocks are off, and the blocks of branch are on
Unwound(k) ==
    LET r[i \in 0..k] == IF i = 0 THEN [ok |-> TRUE, index |-> txindex]
                         ELSE TakeOff(r[i - 1], Disconnected(k)[i])
    IN r[k]
Rewound(k, branch) ==
    LET r[i \in 0..Len(branch)] == IF i = 0 THEN Unwound(k)
                                   ELSE PutOn(r[i - 1], branch[i], Len(chain) - k + i)
    IN r[Len(branch)]

\* vResurrect, from the tip down
PushBack(txs, t) == IF t \in Coinbase THEN txs ELSE Append(txs, t)
Pushed(txs) ==
    LET r[i \in 0..Len(txs)] == IF i = 0 THEN <<>> ELSE PushBack(r[i - 1], txs[i])
    IN r[Len(txs)]
Resurrected_TipOnly(k) == Pushed(Last(chain))
Resurrected(k) == Pushed(FlattenSeq(Disconnected(k)))

\* every block has the same work: a branch wins with one block more
Reorganize(k, branch) ==
    /\ Idle
    /\ k <= Len(chain) /\ Len(branch) = k + 1 /\ Len(chain) < MaxHeight
    /\ LET r == Rewound(k, branch) IN r.ok /\ txindex' = r.index
    /\ chain' = SubSeq(chain, 1, Len(chain) - k) \o branch
    /\ resurrect' = Resurrected(k)
    /\ delete' = FlattenSeq(branch)
    /\ UNCHANGED <<best, poolVars, orphanVars, retryVars, minerVars>>

ResurrectNext ==
    /\ resurrect # <<>>
    /\ IF Admissible(Head(resurrect), FALSE) THEN AddToPool(Head(resurrect))
       ELSE UNCHANGED poolVars
    /\ resurrect' = Tail(resurrect)
    /\ UNCHANGED <<chainVars, orphanVars, delete, retryVars, minerVars>>

DeleteNext_First ==
    /\ delete # <<>>
    /\ RemoveFromPool(Head(delete))
    /\ delete' = Tail(delete)
    /\ UNCHANGED <<chainVars, orphanVars, resurrect, retryVars, minerVars>>
DeleteNext ==
    /\ resurrect = <<>> /\ delete # <<>>
    /\ RemoveFromPool(Head(delete))
    /\ delete' = Tail(delete)
    /\ UNCHANGED <<chainVars, orphanVars, resurrect, retryVars, minerVars>>

NewBestBlock ==
    /\ best # chain /\ resurrect = <<>> /\ delete = <<>>
    /\ best' = chain
    /\ UNCHANGED <<chain, txindex, poolVars, orphanVars, updateVars, retryVars, minerVars>>

-----------------------------------------------------------------------------
(* BitcoinMiner                                                            *)

\* CreateNewBlock reads pindexBest before it takes cs_main
ReadBest ==
    /\ fGenerateBitcoins
    /\ minerPrev = None /\ template = None
    /\ minerPrev' = best
    /\ UNCHANGED <<chainVars, poolVars, orphanVars, updateVars, retryVars, template>>

\* ConnectInputs with fMiner: maturity is counted from pindexPrev
MinerImmature(o, prev) ==
    \E h \in DOMAIN prev : h > Len(prev) - Maturity /\ o[1] \in ToSet(prev[h]) \cap Coinbase

MinerConnects_Conflicting(r, t) ==
    /\ \A o \in In[t] : Found(txindex, r.queue, o) /\ ~MinerImmature(o, minerPrev)
    /\ ValueOf(In[t]) >= ValueOut(t)
MinerConnects(r, t) ==
    /\ \A o \in In[t] : /\ Found(txindex, r.queue, o)
                        /\ Fetched(txindex, r.queue, o[1]).spent[o[2]] = Unspent
                        /\ ~MinerImmature(o, minerPrev)
    /\ ValueOf(In[t]) >= ValueOut(t)

\* one round of the loop over the priority queue, which holds transactions whose
\* parents are on disk or have been taken
CollectTx(r, t) ==
    IF r.ok /\ MinerConnects(r, t)
    THEN [ok |-> TRUE, queue |-> Queued(txindex, r.queue, t, Len(chain) + 1),
          fees |-> r.fees + (ValueOf(In[t]) - ValueOut(t))]
    ELSE [r EXCEPT !.ok = FALSE]
Collected(txs) ==
    LET r[i \in 0..Len(txs)] == IF i = 0 THEN [ok |-> TRUE, queue |-> NoRecords, fees |-> 0]
                                ELSE CollectTx(r[i - 1], txs[i])
    IN r[Len(txs)]

\* size, fee and sigop limits may pass over any transaction of the pool
CreateNewBlock ==
    /\ Idle
    /\ minerPrev # None
    /\ \E set \in SUBSET mapTx : \E txs \in SetToSeqs(set) :
          LET r == Collected(txs)
          IN r.ok /\ template' = [prev |-> minerPrev, txs |-> txs, fees |-> r.fees]
    /\ minerPrev' = None
    /\ UNCHANGED <<chainVars, poolVars, orphanVars, updateVars, retryVars>>

\* the block with a fresh coinbase that claims the subsidy and the fees
Mined(c) == <<c>> \o template.txs
Coinbases ==
    {c \in Coinbase : txindex[c] = Absent /\ ValueOut(c) = Subsidy + template.fees}

\* CheckWork hands a block that is not stale to ProcessBlock
CheckWork ==
    /\ Idle
    /\ template # None /\ template.prev = best
    /\ Len(chain) < MaxHeight
    /\ \E c \in Coinbases :
          /\ Connects(txindex, Mined(c), Len(chain) + 1)
          /\ txindex' = Updated(txindex, Mined(c), Len(chain) + 1)
          /\ chain' = Append(chain, Mined(c))
          /\ delete' = Mined(c)
    /\ template' = None
    /\ UNCHANGED <<best, poolVars, orphanVars, resurrect, retryVars, minerPrev>>

\* the hash loop ends without a solution, or with one that is stale
GiveUp ==
    /\ template # None
    /\ template' = None
    /\ UNCHANGED <<chainVars, poolVars, orphanVars, updateVars, retryVars, minerPrev>>

-----------------------------------------------------------------------------
TxStep == NextPrev \/ EndOfTx
          \/ \E t \in visit : RetryAccepts(t) \/ RetryMisses(t) \/ RetryRejects(t)
ChainStep == ResurrectNext \/ DeleteNext \/ NewBestBlock
PeerStep ==
    \/ \E t \in Tx : ReceiveTx(t) \/ ReceiveOrphan(t)
    \/ \E b \in Candidates : Extend(b)
    \/ \E k \in 1..MaxDepth :
          \E branch \in [1..k+1 -> Candidates] : Reorganize(k, branch)
MinerStep == ReadBest \/ CreateNewBlock \/ CheckWork \/ GiveUp

Next == TxStep \/ ChainStep \/ PeerStep \/ MinerStep \/ \E t \in Tx : SubmitTx(t)

Spec == Init /\ [][Next]_vars

-----------------------------------------------------------------------------
(* Properties                                                              *)

\* mapNextTx is the inverse of the inputs of the pool, so no two pool
\* transactions spend one output, whatever blocks and reorganisations did.
PoolSpendsOnce ==
    \A o \in Spendings, t \in Tx : mapNextTx[o] = t <=> t \in mapTx /\ o \in In[t]

\* The secondary index of the orphans points to stored orphans only, and to every
\* one of them: a dangling pair would be a dangling pointer in the code.
OrphansIndexed ==
    /\ byPrev = UNION {Parents(t) \X {t} : t \in orphans}
    /\ \A pair \in byPrev : pair[1] \in prevKeys

\* LimitOrphanTxSize keeps the bound after every tx message.
OrphansBounded == Cardinality(orphans) <= MaxOrphans

\* Whatever is accepted, erased and evicted at random, the two maps of orphans agree
\* and stay within the limit.
OrphansConsistent == OrphansIndexed /\ OrphansBounded

\* A transaction is never both in the pool and in the best chain, whatever
\* a reorganisation resurrected without checking.
PoolNotInChain == Idle => \A t \in mapTx : txindex[t] = Absent

TxsOf(blocks) == UNION {ToSet(b) : b \in ToSet(blocks)}
SpentInChain(o) == \E u \in TxsOf(chain) : o \in In[u]

\* When a reorganisation is through with the pool, a standard transaction that it
\* took out of the chain is in the pool, or what it spends is spent by another one.
NothingLost ==
    resurrect = <<>> /\ delete = <<>> =>
        \A t \in (TxsOf(best) \cap Standard) \ (Coinbase \cup TxsOf(chain)) :
            \/ t \in mapTx
            \/ \E o \in In[t] : mapNextTx[o] # NoTx \/ SpentInChain(o)

\* When the tx handler is done, no orphan that it leaves behind and that spends
\* an output of a transaction it accepted could itself be accepted.
OrphansRetried ==
    erase # {} /\ visit = {} /\ reached = Len(work) =>
        \A pair \in byPrev :
            pair[1] \in ToSet(work) /\ pair[2] \notin erase => ~Accepts(pair[2])

\* A template for the current best block always connects, whatever became of
\* the chain, the pool and the miner's unlocked read meanwhile.
TemplateConnects ==
    Idle /\ template # None /\ template.prev = best =>
        \A c \in Coinbases : Connects(txindex, Mined(c), Len(chain) + 1)
=============================================================================
