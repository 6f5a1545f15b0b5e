------------------------------- MODULE Wallet -------------------------------
(***************************************************************************)
(* The wallet's transactions and spent flags (wallet.cpp), next to the     *)
(* memory pool and the best chain they must agree with.                    *)
(*                                                                         *)
(* A payment is recorded, and the coins it spends are marked, one database *)
(* write at a time; the process may be killed between two of them, and the *)
(* file may be replaced by an older copy.  At start-up the wallet is       *)
(* brought back into agreement with the chain: the blocks after the best   *)
(* block it recorded are scanned, and ReacceptWalletTransactions repairs   *)
(* spent flags and offers the unconfirmed transactions to the pool again,  *)
(* while the network and RPC threads are already running.                  *)
(*                                                                         *)
(* A transaction has one output, known by the transaction's name; values,  *)
(* signatures and keys are left out.  The chain is the sequence of the     *)
(* transactions in its blocks, blocks with none being of no interest here. *)
(***************************************************************************)
EXTENDS Integers, Sequences, FiniteSets, SequencesExt

CONSTANTS
    Tx,          \* transactions
    In,          \* In[t]: the outputs t spends, named by their transactions
    Mine,        \* transactions whose output IsMine
    Own,         \* payments this wallet may make
    Hash,        \* the hash of a transaction, as a number
    Genesis,     \* the chain at the start, never reorganised below its end
    None,        \* no locator, no copy
    MaxFaults,   \* bound on restarts and reorganisations together
    MaxReorg     \* blocks a reorganisation disconnects

(* Every output spent in the chain s is that of an earlier transaction. *)
Ordered(s) == \A i \in 1 .. Len(s) : \A o \in In[s[i]] : \E j \in 1 .. i - 1 : s[j] = o

ASSUME WalletAssumption ==
    /\ In \in [Tx -> SUBSET Tx]
    /\ Mine \subseteq Tx
    /\ Own \subseteq Tx \ ToSet(Genesis)
    /\ None \notin Tx /\ None \notin Seq(Tx)
    /\ Genesis \in Seq(Tx) /\ Genesis # <<>> /\ Ordered(Genesis)
    /\ Hash \in [Tx -> Nat]
    /\ MaxFaults \in Nat
    /\ MaxReorg \in Nat

VARIABLES
    chain,       \* transactions of the best chain (the committed blkindex.dat)
    pool,        \* mempool.mapTx
    mapWallet,   \* recorded transactions, in memory and in wallet.dat
    built,       \* those recorded with their supporting transactions, vtxPrev
    spent,       \* transactions whose vfSpent flag is set
    best,        \* the chain of the "bestblock" locator, or None
    download,    \* IsInitialBlockDownload()
    job,         \* what the thread that holds cs_main is doing
    todo,        \* outputs WalletUpdateSpent has still to mark
    boot,        \* where AppInit2 is
    made,        \* history: payments this wallet has signed
    backup,      \* a copy of wallet.dat, or None
    lost,        \* history: outputs that a crash kept from being marked
    restored,    \* history: "no", or the kind of copy last put back
    refused,     \* history: a commit was refused with start-up complete
    faults

walletFile == <<mapWallet, built, spent, best, lost>>
vars == <<chain, pool, mapWallet, built, spent, best, download, job, todo, boot,
          made, backup, lost, restored, refused, faults>>

Spends(S, o) == \E t \in S : o \in In[t]

Idle == [kind |-> "idle", tx |-> None, base |-> <<>>]
Up == [at |-> "up", list |-> <<>>, visit |-> {}, again |-> FALSE]

Init ==
    /\ chain = Genesis
    /\ pool = {}
    /\ mapWallet = {t \in ToSet(Genesis) : t \in Mine \/ In[t] \cap Mine # {}}
    /\ built = {}
    /\ spent = {o \in Mine : Spends(ToSet(Genesis), o)}
    /\ download \in BOOLEAN
    /\ best = IF download THEN None ELSE Genesis
    /\ job = Idle
    /\ todo = {}
    /\ boot = Up
    /\ made = {}
    /\ backup = None
    /\ lost = {}
    /\ restored = "no"
    /\ refused = FALSE
    /\ faults = 0

-----------------------------------------------------------------------------
(* The memory pool. *)

(* CTxMemPool::accept, without the checks of form, fee and script. *)
Accept(t, fCheckInputs) ==
    /\ t \notin pool
    /\ In[t] # {}
    /\ \A o \in In[t] : ~Spends(pool, o)
    /\ fCheckInputs =>
         /\ t \notin ToSet(chain)
         /\ In[t] \subseteq pool \cup ToSet(chain)
         /\ \A o \in In[t] : ~Spends(ToSet(chain), o)

-----------------------------------------------------------------------------
(* The wallet's own operations. *)

IsFromMe(t) == In[t] \cap mapWallet \cap Mine # {}

(* CWalletTx::IsConfirmed: in the chain, or a payment of ours all of whose
   unconfirmed ancestors are ours and known from vtxPrev.  The copies in
   vtxPrev may know fewer confirmations than the chain, never more. *)
IsConfirmed(t) ==
    \/ t \in ToSet(chain)
    \/ /\ t \in built
       /\ \E S \in SUBSET (Tx \ ToSet(chain)) :
            /\ t \in S
            /\ \A u \in S : IsFromMe(u) /\ In[u] \subseteq S \cup ToSet(chain)

(* An element of AvailableCoins. *)
Available(o) == o \in (mapWallet \cap Mine) \ spent /\ IsConfirmed(o)

(* What WalletUpdateSpent(t) will mark. *)
Unmarked_Again(t) == In[t] \cap mapWallet \cap Mine
Unmarked(t) == (In[t] \cap mapWallet \cap Mine) \ spent

(* AddToWalletIfInvolvingMe: the first write of AddToWallet records the
   transaction, the marks of WalletUpdateSpent follow one by one. *)
AddToWalletIfInvolvingMe_OnlyNew(t, fUpdate) ==
    /\ mapWallet' = IF t \in Mine \/ IsFromMe(t) THEN mapWallet \cup {t} ELSE mapWallet
    /\ todo' = IF t \in mapWallet THEN {} ELSE Unmarked(t)
AddToWalletIfInvolvingMe(t, fUpdate) ==
    IF t \in mapWallet /\ ~fUpdate
    THEN UNCHANGED <<mapWallet, todo>>
    ELSE /\ mapWallet' = IF t \in Mine \/ IsFromMe(t) THEN mapWallet \cup {t} ELSE mapWallet
         /\ todo' = Unmarked(t)

(* One round of WalletUpdateSpent's loop: MarkSpent and WriteToDisk. *)
MarkSpent(o) ==
    /\ o \in todo
    /\ spent' = spent \cup {o}
    /\ todo' = todo \ {o}
    /\ UNCHANGED <<chain, pool, mapWallet, built, best, download, job, boot, made, backup,
                   lost, restored, refused, faults>>

(* cs_wallet is free: AppInit2 is not scanning or reaccepting and no thread
   is marking coins. *)
WalletFree == boot.at \in {"ready", "up"} /\ todo = {}

-----------------------------------------------------------------------------
(* Payments.  The caller holds cs_main and cs_wallet from CreateTransaction
   to the end of CommitTransaction. *)

(* CreateTransaction selects available coins; CommitTransaction records the
   payment. *)
CommitTransaction_MarksLater(t) ==
    /\ job = Idle
    /\ WalletFree
    /\ t \in Own \ made
    /\ In[t] # {} /\ \A o \in In[t] : Available(o)
    /\ made' = made \cup {t}
    /\ mapWallet' = mapWallet \cup {t}
    /\ built' = built \cup {t}
    /\ job' = [kind |-> "commit", tx |-> t, base |-> <<>>]
    /\ UNCHANGED <<chain, pool, spent, best, download, todo, boot, backup, lost,
                   restored, refused, faults>>
CommitTransaction(t) ==
    /\ job = Idle
    /\ WalletFree
    /\ t \in Own \ made
    /\ In[t] # {} /\ \A o \in In[t] : Available(o)
    /\ made' = made \cup {t}
    /\ mapWallet' = mapWallet \cup {t}
    /\ built' = built \cup {t}
    /\ todo' = In[t]
    /\ job' = [kind |-> "commit", tx |-> t, base |-> <<>>]
    /\ UNCHANGED <<chain, pool, spent, best, download, boot, backup, lost, restored,
                   refused, faults>>

(* The coins are marked: AcceptToMemoryPool and the relay. *)
Broadcast ==
    /\ job.kind = "commit"
    /\ todo = {}
    /\ IF Accept(job.tx, TRUE)
       THEN pool' = pool \cup {job.tx} /\ UNCHANGED refused
       ELSE refused' = (refused \/ boot.at = "up") /\ UNCHANGED pool
    /\ job' = Idle
    /\ UNCHANGED <<chain, mapWallet, built, spent, best, download, todo, boot, made,
                   backup, lost, restored, faults>>

-----------------------------------------------------------------------------
(* Transactions and blocks from peers, handled under cs_main. *)

(* A peer can only know a payment of this wallet that was signed here. *)
Known(t) == t \in Own => t \in made

(* "tx": the checks of AcceptToMemoryPool ... *)
MessageTx(t) ==
    /\ job = Idle
    /\ boot.at # "scan"
    /\ Known(t)
    /\ Accept(t, TRUE)
    /\ job' = [kind |-> "tx", tx |-> t, base |-> <<>>]
    /\ UNCHANGED <<chain, pool, walletFile, download, todo, boot, made, backup, restored,
                   refused, faults>>

(* ... its addUnchecked, ... *)
AddUnchecked ==
    /\ job.kind = "tx"
    /\ pool' = pool \cup {job.tx}
    /\ job' = [job EXCEPT !.kind = "sync"]
    /\ UNCHANGED <<chain, walletFile, download, todo, boot, made, backup, restored,
                   refused, faults>>

(* ... and SyncWithWallets, which waits for cs_wallet. *)
SyncTx_OnlyIncoming ==
    /\ job.kind = "sync"
    /\ WalletFree
    /\ IF job.tx \in Mine THEN AddToWalletIfInvolvingMe(job.tx, TRUE)
                         ELSE UNCHANGED <<mapWallet, todo>>
    /\ job' = Idle
    /\ UNCHANGED <<chain, pool, built, spent, best, download, boot, made, backup,
                   lost, restored, refused, faults>>
SyncTx ==
    /\ job.kind = "sync"
    /\ WalletFree
    /\ AddToWalletIfInvolvingMe(job.tx, TRUE)
    /\ job' = Idle
    /\ UNCHANGED <<chain, pool, built, spent, best, download, boot, made, backup, lost,
                   restored, refused, faults>>

(* ConnectBlock of a block with t, on the tip or on an ancestor of it:
   SyncWithWallets runs before the chain is committed. *)
ConnectBlock(t, n) ==
    LET base == SubSeq(chain, 1, n) IN
    /\ job = Idle
    /\ WalletFree
    /\ Known(t)
    /\ t \notin ToSet(base)
    /\ In[t] # {} /\ In[t] \subseteq ToSet(base)
    /\ \A o \in In[t] : ~Spends(ToSet(base), o)
    /\ faults' = IF n < Len(chain) THEN faults + 1 ELSE faults
    /\ faults' <= MaxFaults
    /\ AddToWalletIfInvolvingMe(t, TRUE)
    /\ job' = [kind |-> "block", tx |-> t, base |-> base]
    /\ UNCHANGED <<chain, pool, built, spent, best, download, boot, made, backup, lost,
                   restored, refused>>

(* The same for a heavier branch with no transaction of interest. *)
ConnectEmptyBranch(n) ==
    /\ job = Idle
    /\ WalletFree
    /\ n < Len(chain)
    /\ faults < MaxFaults
    /\ faults' = faults + 1
    /\ job' = [kind |-> "block", tx |-> None, base |-> SubSeq(chain, 1, n)]
    /\ UNCHANGED <<chain, pool, walletFile, download, todo, boot, made, backup,
                   restored, refused>>

(* TxnCommit; the transactions of disconnected blocks return to the pool
   unchecked, those of the new block leave it. *)
CommitChain_NoResurrect ==
    /\ job.kind = "block"
    /\ todo = {}
    /\ chain' = IF job.tx = None THEN job.base ELSE Append(job.base, job.tx)
    /\ pool' = pool \ {job.tx}
    /\ job' = [job EXCEPT !.kind = "locator"]
    /\ UNCHANGED <<walletFile, download, todo, boot, made, backup, restored,
                   refused, faults>>
CommitChain ==
    LET gone == ToSet(chain) \ ToSet(job.base) IN
    /\ job.kind = "block"
    /\ todo = {}
    /\ chain' = IF job.tx = None THEN job.base ELSE Append(job.base, job.tx)
    /\ pool' = (pool \cup {t \in gone : Accept(t, FALSE)}) \ {job.tx}
    /\ job' = [job EXCEPT !.kind = "locator"]
    /\ UNCHANGED <<walletFile, download, todo, boot, made, backup, restored,
                   refused, faults>>

(* The end of SetBestChain; the download may be found complete. *)
WriteBestBlock ==
    /\ job.kind = "locator"
    /\ download' \in {download, FALSE}
    /\ best' = IF download' THEN best ELSE chain
    /\ job' = Idle
    /\ UNCHANGED <<chain, pool, mapWallet, built, spent, todo, boot, made,
                   backup, lost, restored, refused, faults>>

-----------------------------------------------------------------------------
(* Copies, faults and start-up. *)

(* backupwallet, under cs_main and cs_wallet. *)
BackupWallet ==
    /\ job = Idle
    /\ WalletFree
    /\ backup = None
    /\ backup' = [mapWallet |-> mapWallet, built |-> built, spent |-> spent,
                  best |-> best, lost |-> lost]
    /\ UNCHANGED <<chain, pool, walletFile, download, job, todo, boot, made, restored,
                   refused, faults>>

(* The last block of the locator b that is in the chain. *)
LastCommon(b, i) ==
    /\ i <= Len(b)
    /\ SubSeq(b, 1, i) = SubSeq(chain, 1, i)
    /\ i = Len(b) \/ i = Len(chain) \/ b[i + 1] # chain[i + 1]

(* What AppInit2 scans for a wallet with locator b: the chain from that block
   on, nothing if the block is the tip or the wallet has no locator. *)
Rescan_SkipsFirst(b) ==
    IF b = None THEN {<<>>}
    ELSE {SubSeq(chain, i + 2, Len(chain)) : i \in {j \in 1 .. Len(chain) : LastCommon(b, j)}}
Rescan(b) ==
    IF b = None THEN {<<>>}
    ELSE {IF i = Len(chain) THEN <<>> ELSE SubSeq(chain, i, Len(chain)) :
            i \in {j \in 1 .. Len(chain) : LastCommon(b, j)}}

Boot(b) == {[at |-> "scan", list |-> l, visit |-> {}, again |-> FALSE] : l \in Rescan(b)}

(* The process is killed, or stopped, and started again. *)
Crash ==
    /\ faults < MaxFaults
    /\ faults' = faults + 1
    /\ pool' = {}
    /\ job' = Idle
    /\ todo' = {}
    /\ download' \in BOOLEAN
    /\ boot' \in Boot(best)
    /\ lost' = lost \cup todo
    /\ UNCHANGED <<chain, mapWallet, built, spent, best, made, backup, restored, refused>>

(* The same, with the copy put in the place of wallet.dat before the start. *)
Restore ==
    /\ faults < MaxFaults
    /\ backup # None
    /\ faults' = faults + 1
    /\ pool' = {}
    /\ job' = Idle
    /\ todo' = {}
    /\ mapWallet' = backup.mapWallet
    /\ built' = backup.built
    /\ spent' = backup.spent
    /\ best' = backup.best
    /\ lost' = backup.lost
    /\ download' \in BOOLEAN
    /\ boot' \in Boot(backup.best)
    /\ restored' = IF restored \notin {"bare", "raced"} /\ backup.best # None
                   THEN "located" ELSE "bare"
    /\ UNCHANGED <<chain, made, backup, refused>>

(* ScanForWalletTransactions, one transaction of the chain at a time: with
   fUpdate before the other threads start, without it inside the reaccept
   loop, where `again' tells that something was found. *)
ScanTx ==
    /\ boot.at \in {"scan", "rescan"}
    /\ todo = {}
    /\ boot.list # <<>>
    /\ LET t == Head(boot.list) IN
       /\ AddToWalletIfInvolvingMe(t, boot.at = "scan")
       /\ boot' = [boot EXCEPT !.list = Tail(@),
                               !.again = @ \/ (boot.at = "rescan" /\ mapWallet' # mapWallet)]
    /\ UNCHANGED <<chain, pool, built, spent, best, download, job, made, backup, lost,
                   restored, refused, faults>>

(* StartNode and ThreadRPCServer. *)
StartThreads ==
    /\ boot.at = "scan"
    /\ todo = {}
    /\ boot.list = <<>>
    /\ boot' = [boot EXCEPT !.at = "ready"]
    /\ UNCHANGED <<chain, pool, walletFile, download, job, todo, made, backup, restored,
                   refused, faults>>

(* A round of ReacceptWalletTransactions takes cs_wallet. *)
ReacceptWalletTransactions ==
    /\ boot.at = "ready"
    /\ todo = {}
    /\ job.kind # "commit"
    /\ boot' = [at |-> "reaccept", list |-> <<>>, visit |-> mapWallet, again |-> FALSE]
    /\ restored' = IF restored = "bare" /\ job.kind = "block" THEN "raced" ELSE restored
    /\ UNCHANGED <<chain, pool, walletFile, download, job, todo, made, backup,
                   refused, faults>>

(* vtxPrev of t: its ancestors. *)
Ancestors(t) ==
    {u \in Tx : \A S \in SUBSET Tx :
        In[t] \subseteq S /\ (\A v \in S : In[v] \subseteq S) => u \in S}

(* AcceptWalletTransaction(txdb, false): the supporting transactions first. *)
AcceptWalletTransaction(t) ==
    LET offered == (IF t \in built THEN Ancestors(t) ELSE {}) \cup {t}
    IN pool \cup {u \in offered \ ToSet(chain) : Accept(u, FALSE)}

(* The visit of t, in mapWallet's order: a flag the chain shows to be missing
   is set, a transaction the chain does not have is offered to the pool. *)
Reaccept(t) ==
    LET found == t \in Mine \ spent /\ Spends(ToSet(chain), t) IN
    /\ boot.at = "reaccept"
    /\ t \in boot.visit /\ \A u \in boot.visit : Hash[t] <= Hash[u]
    /\ \/ /\ t \in ToSet(chain)
          /\ spent' = IF found THEN spent \cup {t} ELSE spent
          /\ boot' = [boot EXCEPT !.visit = @ \ {t}, !.again = @ \/ found]
          /\ UNCHANGED pool
       \/ /\ t \notin ToSet(chain)
          /\ pool' = AcceptWalletTransaction(t)
          /\ boot' = [boot EXCEPT !.visit = @ \ {t}]
          /\ UNCHANGED spent
    /\ UNCHANGED <<chain, mapWallet, built, best, download, job, todo, made,
                   backup, lost, restored, refused, faults>>

(* The round's end: a coin found spent makes it scan the whole chain. *)
RoundDone ==
    /\ boot.at = "reaccept"
    /\ boot.visit = {}
    /\ boot' = IF boot.again
               THEN [boot EXCEPT !.at = "rescan", !.list = chain, !.again = FALSE]
               ELSE Up
    /\ UNCHANGED <<chain, pool, walletFile, download, job, todo, made, backup, restored,
                   refused, faults>>

(* fRepeat: another round if the scan found a transaction. *)
ScanDone ==
    /\ boot.at = "rescan"
    /\ todo = {}
    /\ boot.list = <<>>
    /\ boot' = IF boot.again THEN [boot EXCEPT !.at = "ready", !.again = FALSE] ELSE Up
    /\ UNCHANGED <<chain, pool, walletFile, download, job, todo, made, backup, restored,
                   refused, faults>>

-----------------------------------------------------------------------------
Next ==
    \/ \E o \in Tx : MarkSpent(o)
    \/ \E t \in Tx : CommitTransaction(t)
    \/ Broadcast
    \/ \E t \in Tx : MessageTx(t)
    \/ AddUnchecked
    \/ SyncTx
    \/ \E n \in Len(Genesis) .. Len(chain) :
          /\ Len(chain) - n <= MaxReorg
          /\ (\E t \in Tx : ConnectBlock(t, n)) \/ ConnectEmptyBranch(n)
    \/ CommitChain
    \/ WriteBestBlock
    \/ BackupWallet
    \/ Crash
    \/ Restore
    \/ ScanTx
    \/ StartThreads
    \/ ReacceptWalletTransactions
    \/ \E t \in Tx : Reaccept(t)
    \/ RoundDone
    \/ ScanDone

Spec == Init /\ [][Next]_vars

-----------------------------------------------------------------------------
(* Properties. *)

(* The wallet file as a record. *)
Files == [mapWallet : SUBSET Tx, built : SUBSET Tx, spent : SUBSET Tx,
          best : Seq(Tx) \cup {None}, lost : SUBSET Tx]

(* Every variable has its type; only recorded transactions carry supporting
   ones or spent flags, because both are parts of the record. *)
TypeOK ==
    /\ chain \in Seq(Tx)
    /\ pool \subseteq Tx
    /\ mapWallet \subseteq Tx
    /\ built \subseteq mapWallet
    /\ spent \subseteq mapWallet
    /\ best \in Seq(Tx) \cup {None}
    /\ download \in BOOLEAN
    /\ job \in [kind : {"idle", "commit", "tx", "sync", "block", "locator"},
                tx : Tx \cup {None}, base : Seq(Tx)]
    /\ todo \subseteq mapWallet \ spent
    /\ boot \in [at : {"scan", "ready", "reaccept", "rescan", "up"},
                 list : Seq(Tx), visit : SUBSET Tx, again : BOOLEAN]
    /\ made \subseteq Own
    /\ backup \in Files \cup {None}
    /\ lost \subseteq Tx
    /\ restored \in {"no", "located", "bare", "raced"}
    /\ refused \in BOOLEAN
    /\ faults \in 0 .. MaxFaults

Settled == boot.at = "up" /\ todo = {}

(* Whatever was killed, restored or reorganised, once start-up is over no
   coin of the wallet that the chain spends is still offered for spending.
   The exceptions concern a copy without a locator: the repair of
   ReacceptWalletTransactions ran between the two halves of a block's
   connection, or a block is being connected right now, which may record a
   coin whose spender is still on the branch that it replaces. *)
ChainSpentIsMarked ==
    Settled /\ restored # "raced" /\ (restored = "bare" => job.kind # "block") =>
      \A t \in ToSet(chain) : In[t] \cap mapWallet \cap Mine \subseteq spent

(* The same for the transactions of the pool, except for coins whose marking
   a crash cut short and wallets put back without a locator. *)
PoolSpentIsMarked ==
    Settled /\ job.kind # "sync" /\ restored \in {"no", "located"} =>
      \A t \in pool : In[t] \cap mapWallet \cap Mine \subseteq spent \cup lost

(* No coin that is spent, confirmed or not, is offered for spending. *)
SpentIsMarked == ChainSpentIsMarked /\ PoolSpentIsMarked

(* The wallet has every transaction of the chain that pays it or that it
   pays with, also after an older copy with a locator was put back. *)
NothingForgotten ==
    Settled /\ restored \in {"no", "located"} =>
      \A t \in ToSet(chain) : t \in Mine \/ IsFromMe(t) => t \in mapWallet

(* Unless a crash cut a marking short or an older copy was put back, the
   wallet never signs two payments with one coin. *)
PaysOnce ==
    lost = {} /\ restored = "no" =>
      \A t, u \in mapWallet \cap Own : t # u => In[t] \cap In[u] = {}

(* CommitTransaction: "This must not fail.  The transaction has already been
   signed and recorded."  With start-up complete the pool refuses a payment
   only if a marking was cut short, an older copy was put back, or another
   copy of the wallet has spent its coins. *)
CommitAccepted ==
    refused => \/ lost # {}
               \/ restored # "no"
               \/ \E t \in mapWallet \ Own : IsFromMe(t)
=============================================================================
