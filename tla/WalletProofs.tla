---------------------------- MODULE WalletProofs -----------------------------
(***************************************************************************)
(* What the wallet keeps, for any transactions, any chain and any number   *)
(* of restarts, copies and reorganisations: it pays once with a coin,      *)
(* marks every coin that is spent, forgets no transaction of the chain,    *)
(* and the pool takes the payments it signs.                               *)
(*                                                                         *)
(* WInv is the invariant behind all of them.  PayInv follows payments from *)
(* the place where they are signed; JobInv knows the thread that holds     *)
(* cs_main; LocatedInv says how far start-up has brought the records into  *)
(* agreement with the chain, BareInv the same of a copy that recorded no   *)
(* block.  PaymentsInv and OfferedInv add where a payment is offered.      *)
(***************************************************************************)
EXTENDS Wallet, TLAPS

\* the payments of this wallet among the elements of s are in m
Signed(s, m) == \A i \in 1 .. Len(s) : s[i] \in Own => s[i] \in m

\* What threads and start-up hand to the wallet is a sequence of transactions,
\* and a payment of this wallet among them was signed here.
SourcesInv ==
    /\ chain \in Seq(Tx) /\ Signed(chain, made)
    /\ job = [kind |-> job.kind, tx |-> job.tx, base |-> job.base]
    /\ job.base \in Seq(Tx) /\ Signed(job.base, made)
    /\ job.tx \in Tx \cup {None}
    /\ job.tx \in Own => job.tx \in made
    /\ job.kind \in {"tx", "sync"} => job.tx \in Tx
    /\ boot = [at |-> boot.at, list |-> boot.list, visit |-> boot.visit, again |-> boot.again]
    /\ boot.list \in Seq(Tx) /\ Signed(boot.list, made)

\* Unless an older copy was put back, every signed payment is recorded, and every
\* coin of a recorded payment is marked, about to be, or lost to a crash.
PayInv ==
    /\ SourcesInv
    /\ restored = "no" => made \subseteq mapWallet
    /\ lost = {} /\ restored = "no" =>
          \A t \in mapWallet \cap Own : In[t] \subseteq spent \cup todo
    /\ PaysOnce

LEMMA SignedGrows ==
    ASSUME NEW s, NEW m, NEW n, m \subseteq n, Signed(s, m)
    PROVE  Signed(s, n)
BY DEF Signed

LEMMA SignedTail ==
    ASSUME NEW s \in Seq(Tx), NEW m, Signed(s, m), s # <<>>
    PROVE  /\ Head(s) \in Tx /\ (Head(s) \in Own => Head(s) \in m)
           /\ Tail(s) \in Seq(Tx) /\ Signed(Tail(s), m)
<1>1. Len(s) \in Nat /\ Len(s) > 0 /\ Head(s) = s[1]
    OBVIOUS
<1>2. Len(Tail(s)) = Len(s) - 1 /\ \A i \in 1 .. Len(Tail(s)) : Tail(s)[i] = s[i + 1]
    BY <1>1
<1> QED
    BY <1>1, <1>2 DEF Signed

LEMMA SignedSub ==
    ASSUME NEW s \in Seq(Tx), NEW m, Signed(s, m),
           NEW i \in 1 .. Len(s), NEW n \in 0 .. Len(s)
    PROVE  SubSeq(s, i, n) \in Seq(Tx) /\ Signed(SubSeq(s, i, n), m)
<1>1. SubSeq(s, i, n) \in Seq(Tx)
    OBVIOUS
<1>2. /\ Len(SubSeq(s, i, n)) = IF i <= n THEN n - i + 1 ELSE 0
      /\ \A k \in 1 .. Len(SubSeq(s, i, n)) : SubSeq(s, i, n)[k] = s[i + k - 1]
    OBVIOUS
<1>3. \A k \in 1 .. Len(SubSeq(s, i, n)) : i + k - 1 \in 1 .. Len(s)
    BY <1>2
<1> QED
    BY <1>1, <1>2, <1>3 DEF Signed

LEMMA SignedAppend ==
    ASSUME NEW s \in Seq(Tx), NEW m, NEW t \in Tx, Signed(s, m), t \in Own => t \in m
    PROVE  Append(s, t) \in Seq(Tx) /\ Signed(Append(s, t), m)
BY DEF Signed

LEMMA SignedEmpty ==
    ASSUME NEW m
    PROVE  <<>> \in Seq(Tx) /\ Signed(<<>>, m)
BY DEF Signed

\* Start-up scans a part of the chain.
LEMMA BootScans ==
    ASSUME NEW b, chain \in Seq(Tx), Signed(chain, made), NEW x \in Boot(b)
    PROVE  /\ x = [at |-> x.at, list |-> x.list, visit |-> x.visit, again |-> x.again]
           /\ x.list \in Seq(Tx) /\ Signed(x.list, made)
<1>1. PICK l \in Rescan(b) : x = [at |-> "scan", list |-> l, visit |-> {}, again |-> FALSE]
    BY DEF Boot
<1>2. l = <<>> \/ \E i \in 1 .. Len(chain) : l = SubSeq(chain, i, Len(chain))
    BY <1>1 DEF Rescan
<1>3. \A i \in 1 .. Len(chain) : Len(chain) \in 0 .. Len(chain)
    OBVIOUS
<1>4. l \in Seq(Tx) /\ Signed(l, made)
    <2>1. CASE l = <<>>
        BY <2>1, SignedEmpty
    <2>2. ASSUME NEW i \in 1 .. Len(chain), l = SubSeq(chain, i, Len(chain))
          PROVE  l \in Seq(Tx) /\ Signed(l, made)
        BY <1>3, <2>2, SignedSub
    <2> QED
        BY <1>2, <2>1, <2>2
<1>5. x.list = l /\ x = [at |-> x.at, list |-> x.list, visit |-> x.visit, again |-> x.again]
    BY <1>1
<1> QED
    BY <1>4, <1>5

\* A wallet with nothing left to mark takes in a transaction: if it is a payment
\* of this wallet, the wallet has it already.
LEMMA SyncPreserves ==
    ASSUME PayInv, NEW t \in Tx, t \in Own => t \in made, NEW f, todo = {},
           AddToWalletIfInvolvingMe(t, f),
           UNCHANGED <<spent, lost, restored, made>>
    PROVE  /\ restored' = "no" => made' \subseteq mapWallet'
           /\ lost' = {} /\ restored' = "no" =>
                \A u \in (mapWallet \cap Own)' : In[u] \subseteq (spent \cup todo)'
           /\ PaysOnce'
<1>1. mapWallet \subseteq mapWallet' /\ mapWallet' \subseteq mapWallet \cup {t}
    BY DEF AddToWalletIfInvolvingMe
<1>2. restored = "no" => mapWallet' \cap Own = mapWallet \cap Own
    BY <1>1 DEF PayInv
<1> QED
    BY <1>1, <1>2 DEF PayInv, PaysOnce

\* Steps that leave the wallet's records and flags alone.
LEMMA WalletStays ==
    ASSUME PayInv, UNCHANGED <<mapWallet, todo, made>>, spent \subseteq spent',
           restored' = "no" => restored = "no", lost' = lost
    PROVE  /\ restored' = "no" => made' \subseteq mapWallet'
           /\ lost' = {} /\ restored' = "no" =>
                \A u \in (mapWallet \cap Own)' : In[u] \subseteq (spent \cup todo)'
           /\ PaysOnce'
BY DEF PayInv, PaysOnce

LEMMA InitPays == Init => PayInv
<1> SUFFICES ASSUME Init PROVE PayInv
    OBVIOUS
<1>1. Genesis \in Seq(Tx) /\ \A i \in 1 .. Len(Genesis) : Genesis[i] \notin Own
    BY WalletAssumption DEF ToSet
<1>2. mapWallet \cap Own = {}
    BY WalletAssumption DEF Init
<1>3. SourcesInv
    BY <1>1, SignedEmpty, WalletAssumption DEF Init, SourcesInv, Signed, Idle, Up
<1> QED
    BY <1>2, <1>3 DEF PayInv, PaysOnce, Init

LEMMA NextPays == PayInv /\ [Next]_vars => PayInv'
<1> SUFFICES ASSUME PayInv, [Next]_vars PROVE PayInv'
    OBVIOUS
<1> USE DEF PayInv
<1>1. ASSUME NEW o \in Tx, MarkSpent(o) PROVE PayInv'
    <2>1. SourcesInv'
        BY <1>1 DEF MarkSpent, SourcesInv
    <2>2. spent' \cup todo' = spent \cup todo
        BY <1>1 DEF MarkSpent
    <2> QED
        BY <1>1, <2>1, <2>2 DEF MarkSpent, PaysOnce
<1>2. ASSUME NEW t \in Tx, CommitTransaction(t) PROVE PayInv'
    <2> USE <1>2 DEF CommitTransaction
    <2>1. todo = {} /\ \A o \in In[t] : o \notin spent
        BY DEF WalletFree, Available
    <2>2. SourcesInv'
        <3>1. made \subseteq made' /\ t \in made'
            OBVIOUS
        <3>2. /\ Signed(chain, made') /\ Signed(boot.list, made')
            BY <3>1, SignedGrows DEF SourcesInv
        <3> QED
            BY <3>1, <3>2, SignedEmpty DEF SourcesInv
    <2>3. PaysOnce'
        <3> SUFFICES ASSUME lost = {}, restored = "no",
                            NEW x \in mapWallet' \cap Own, NEW y \in mapWallet' \cap Own, x # y
                     PROVE  In[x] \cap In[y] = {}
            BY DEF PaysOnce
        <3>1. \A u \in mapWallet \cap Own : In[u] \subseteq spent
            BY <2>1
        <3>2. CASE x = t
            BY <3>1, <3>2, <2>1
        <3>3. CASE y = t
            BY <3>1, <3>3, <2>1
        <3>4. CASE x # t /\ y # t
            BY <3>4 DEF PaysOnce
        <3> QED
            BY <3>2, <3>3, <3>4
    <2> QED
        BY <2>1, <2>2, <2>3
<1>3. CASE Broadcast
    <2>1. SourcesInv'
        BY <1>3, SignedEmpty, WalletAssumption DEF Broadcast, SourcesInv, Idle
    <2> QED
        BY <1>3, <2>1, WalletStays DEF Broadcast
<1>4. ASSUME NEW t \in Tx, MessageTx(t) PROVE PayInv'
    <2>1. SourcesInv'
        BY <1>4, SignedEmpty DEF MessageTx, SourcesInv, Known
    <2> QED
        BY <1>4, <2>1, WalletStays DEF MessageTx, walletFile
<1>5. CASE AddUnchecked
    <2>1. SourcesInv'
        BY <1>5 DEF AddUnchecked, SourcesInv
    <2> QED
        BY <1>5, <2>1, WalletStays DEF AddUnchecked, walletFile
<1>6. CASE SyncTx
    <2>1. SourcesInv'
        BY <1>6, SignedEmpty, WalletAssumption DEF SyncTx, SourcesInv, Idle
    <2>2. job.tx \in Tx /\ (job.tx \in Own => job.tx \in made) /\ todo = {}
        BY <1>6 DEF SyncTx, SourcesInv, WalletFree
    <2> QED
        BY <1>6, <2>1, <2>2, SyncPreserves DEF SyncTx
<1>7. ASSUME NEW n \in Len(Genesis) .. Len(chain), NEW t \in Tx, ConnectBlock(t, n)
      PROVE  PayInv'
    <2>1. job'.base \in Seq(Tx) /\ Signed(job'.base, made) /\ todo = {}
        <3>1. Len(Genesis) \in Nat /\ Len(chain) \in Nat
            BY WalletAssumption DEF SourcesInv
        <3>2. SubSeq(chain, 1, n) \in Seq(Tx) /\ Signed(SubSeq(chain, 1, n), made)
            <4>1. CASE Len(chain) = 0
                <5>1. SubSeq(chain, 1, n) = <<>>
                    BY <3>1, <4>1 DEF SourcesInv
                <5> QED
                    BY <5>1, SignedEmpty
            <4>2. CASE Len(chain) # 0
                <5>1. 1 \in 1 .. Len(chain) /\ n \in 0 .. Len(chain)
                    BY <3>1, <4>2
                <5> QED
                    BY <5>1, SignedSub DEF SourcesInv
            <4> QED
                BY <4>1, <4>2
        <3> QED
            BY <1>7, <3>2 DEF ConnectBlock, WalletFree
    <2>2. SourcesInv'
        BY <1>7, <2>1 DEF ConnectBlock, SourcesInv, Known
    <2> QED
        BY <1>7, <2>1, <2>2, SyncPreserves DEF ConnectBlock, Known
<1>8. ASSUME NEW n \in Len(Genesis) .. Len(chain), ConnectEmptyBranch(n) PROVE PayInv'
    <2>1. job'.base \in Seq(Tx) /\ Signed(job'.base, made)
        <3>1. Len(Genesis) \in Nat /\ Len(chain) \in Nat /\ n < Len(chain)
            BY <1>8, WalletAssumption DEF SourcesInv, ConnectEmptyBranch
        <3>2. 1 \in 1 .. Len(chain) /\ n \in 0 .. Len(chain)
            BY <3>1
        <3> QED
            BY <1>8, <3>2, SignedSub DEF ConnectEmptyBranch, SourcesInv
    <2>2. SourcesInv'
        BY <1>8, <2>1, WalletAssumption DEF ConnectEmptyBranch, SourcesInv
    <2> QED
        BY <1>8, <2>2, WalletStays DEF ConnectEmptyBranch, walletFile
<1>9. CASE CommitChain
    <2>1. chain' \in Seq(Tx) /\ Signed(chain', made)
        BY <1>9, SignedAppend DEF CommitChain, SourcesInv
    <2>2. SourcesInv'
        BY <1>9, <2>1 DEF CommitChain, SourcesInv
    <2> QED
        BY <1>9, <2>2, WalletStays DEF CommitChain, walletFile
<1>10. CASE WriteBestBlock
    <2>1. SourcesInv'
        BY <1>10, SignedEmpty, WalletAssumption DEF WriteBestBlock, SourcesInv, Idle
    <2> QED
        BY <1>10, <2>1, WalletStays DEF WriteBestBlock
<1>11. CASE BackupWallet
    <2>1. SourcesInv'
        BY <1>11 DEF BackupWallet, SourcesInv
    <2> QED
        BY <1>11, <2>1, WalletStays DEF BackupWallet, walletFile
<1>12. CASE Crash
    <2>1. SourcesInv'
        BY <1>12, SignedEmpty, BootScans, WalletAssumption DEF Crash, SourcesInv, Idle
    <2> QED
        BY <1>12, <2>1 DEF Crash, PaysOnce
<1>13. CASE Restore
    <2>1. SourcesInv'
        BY <1>13, SignedEmpty, BootScans, WalletAssumption DEF Restore, SourcesInv, Idle
    <2>2. restored' # "no"
        BY <1>13 DEF Restore
    <2> QED
        BY <2>1, <2>2 DEF PaysOnce
<1>14. CASE ScanTx
    <2>1. /\ Head(boot.list) \in Tx
          /\ Head(boot.list) \in Own => Head(boot.list) \in made
          /\ Tail(boot.list) \in Seq(Tx) /\ Signed(Tail(boot.list), made)
        BY <1>14, SignedTail DEF ScanTx, SourcesInv
    <2>2. SourcesInv'
        BY <1>14, <2>1 DEF ScanTx, SourcesInv
    <2> QED
        BY <1>14, <2>1, <2>2, SyncPreserves DEF ScanTx
<1>15. CASE StartThreads
    <2>1. SourcesInv'
        BY <1>15 DEF StartThreads, SourcesInv
    <2> QED
        BY <1>15, <2>1, WalletStays DEF StartThreads, walletFile
<1>16. CASE ReacceptWalletTransactions
    <2>1. SourcesInv'
        BY <1>16, SignedEmpty DEF ReacceptWalletTransactions, SourcesInv
    <2> QED
        BY <1>16, <2>1, WalletStays DEF ReacceptWalletTransactions, walletFile
<1>17. ASSUME NEW t \in Tx, Reaccept(t) PROVE PayInv'
    <2>1. SourcesInv'
        BY <1>17 DEF Reaccept, SourcesInv
    <2>2. spent \subseteq spent'
        BY <1>17 DEF Reaccept
    <2> QED
        BY <1>17, <2>1, <2>2, WalletStays DEF Reaccept
<1>18. CASE RoundDone
    <2>1. SourcesInv'
        BY <1>18, SignedEmpty DEF RoundDone, SourcesInv, Up
    <2> QED
        BY <1>18, <2>1, WalletStays DEF RoundDone, walletFile
<1>19. CASE ScanDone
    <2>1. SourcesInv'
        BY <1>19, SignedEmpty DEF ScanDone, SourcesInv, Up
    <2> QED
        BY <1>19, <2>1, WalletStays DEF ScanDone, walletFile
<1>20. CASE UNCHANGED vars
    <2>1. SourcesInv'
        BY <1>20 DEF vars, SourcesInv
    <2> QED
        BY <1>20, <2>1, WalletStays DEF vars
<1> QED
    BY <1>1, <1>2, <1>3, <1>4, <1>5, <1>6, <1>7, <1>8, <1>9, <1>10, <1>11, <1>12,
       <1>13, <1>14, <1>15, <1>16, <1>17, <1>18, <1>19, <1>20 DEF Next

\* Unless a crash cut a marking short or an older copy was put back, the wallet
\* never signs two payments with one coin, whatever the threads and the chain do.
THEOREM OneCoinOnePayment == Spec => []PaysOnce
<1>1. PayInv => PaysOnce
    BY DEF PayInv
<1> QED
    BY <1>1, InitPays, NextPays, PTL DEF Spec

-----------------------------------------------------------------------------
(* What the wallet has seen *)

MyInputs(t) == In[t] \cap Mine

\* t is in the wallet m if it concerns it
Noted(t, m) == t \in Mine \/ MyInputs(t) # {} => t \in m

\* The records m, with the supporting transactions of bu, the flags s and the
\* lost or pending ones l: the wallet has the coins that its transactions spend
\* and all ancestors that concern it, and every transaction up to the locator p.
FileInv(m, bu, s, l, p) ==
    /\ \A t \in m : MyInputs(t) \subseteq m /\ MyInputs(t) \subseteq s \cup l
    /\ \A t \in bu : \A u \in Ancestors(t) : Noted(u, m)
    /\ p # None => \A i \in 1 .. Len(p) : Noted(p[i], m) /\ MyInputs(p[i]) \subseteq s

\* The thread that holds cs_main, and the chain under it.
JobInv ==
    /\ Ordered(chain) /\ Ordered(job.base)
    /\ boot.at = "scan" => job.kind = "idle"
    /\ job.kind = "commit" => job.tx \in Tx /\ job.tx \in mapWallet
    /\ job.kind \in {"tx", "sync"} => job.tx \notin ToSet(chain)
    /\ job.kind = "block" =>
          /\ ToSet(job.base) \subseteq ToSet(chain)
          /\ job.tx # None => In[job.tx] \subseteq ToSet(job.base) /\ job.tx \notin ToSet(job.base)
    /\ boot.at = "reaccept" => todo = {} /\ boot.visit \subseteq mapWallet

\* The copy is one of a wallet that was never replaced.
BackupInv ==
    /\ backup = None => restored = "no"
    /\ backup # None =>
          /\ backup.built \subseteq backup.mapWallet /\ backup.spent \subseteq backup.mapWallet
          /\ FileInv(backup.mapWallet, backup.built, backup.spent, backup.lost, backup.best)

Located == restored \in {"no", "located"}

\* how much of the chain start-up has been through
Scanned == Len(chain) - (IF boot.at = "scan" THEN Len(boot.list) ELSE 0)
Pending == IF boot.at = "scan" THEN todo ELSE {}

\* A wallet that was not put back without a locator.
LocatedInv ==
    Located =>
      /\ FileInv(mapWallet, built, spent, lost \cup todo, best)
      /\ boot.at = "scan" =>
            /\ Len(boot.list) <= Len(chain)
            /\ \A k \in 1 .. Len(boot.list) : boot.list[k] = chain[Scanned + k]
            /\ best = None => boot.list = <<>> /\ todo = {}
      /\ restored = "located" => best # None
      /\ \A i \in 1 .. Scanned :
            Noted(chain[i], mapWallet) /\ MyInputs(chain[i]) \subseteq spent \cup Pending
      /\ boot.at = "rescan" =>
            \A k \in 1 .. Len(boot.list) :
                Noted(boot.list[k], mapWallet) /\ MyInputs(boot.list[k]) \subseteq mapWallet
      /\ \A t \in pool : Noted(t, mapWallet) \/ (job.kind = "sync" /\ t = job.tx)
      /\ job.kind \in {"tx", "sync"} => MyInputs(job.tx) \subseteq mapWallet
      /\ job.kind = "block" /\ job.tx # None =>
            Noted(job.tx, mapWallet) /\ MyInputs(job.tx) \subseteq spent \cup todo

\* the coins of the wallet that the transactions of T spend are in s
Flagged(T, s) == \A t \in T : MyInputs(t) \cap mapWallet \subseteq s

\* A wallet put back without a locator, once ReacceptWalletTransactions is at work.
BareInv ==
    restored = "bare" =>
      /\ boot.at = "up" /\ job.kind # "block" => Flagged(ToSet(chain), spent \cup todo)
      /\ boot.at = "up" /\ job.kind = "block" =>
            Flagged(ToSet(job.base) \cup ({job.tx} \ {None}), spent \cup todo)
      /\ boot.at \in {"reaccept", "rescan"} => job.kind # "block"
      /\ boot.at = "reaccept" => Flagged(ToSet(chain), spent \cup boot.visit)
      /\ boot.at = "rescan" /\ ~boot.again => Flagged(ToSet(chain), spent)

WInv == PayInv /\ TypeOK /\ JobInv /\ BackupInv /\ LocatedInv /\ BareInv

-----------------------------------------------------------------------------
(* Chains *)

\* the elements of a sequence
LEMMA Elements ==
    ASSUME NEW s \in Seq(Tx)
    PROVE  /\ Len(s) \in Nat /\ ToSet(s) \subseteq Tx
           /\ \A i \in 1 .. Len(s) : s[i] \in ToSet(s) /\ s[i] \in Tx
           /\ \A x : x \in ToSet(s) <=> \E i \in 1 .. Len(s) : x = s[i]
<1>1. DOMAIN s = 1 .. Len(s) /\ Len(s) \in Nat
    OBVIOUS
<1>2. \A x : x \in ToSet(s) <=> \E i \in 1 .. Len(s) : x = s[i]
    BY <1>1 DEF ToSet
<1> QED
    BY <1>1, <1>2

\* the inputs of a transaction of the chain are in the chain
LEMMA OrderedInputs ==
    ASSUME NEW s \in Seq(Tx), Ordered(s)
    PROVE  /\ \A t \in ToSet(s) : In[t] \subseteq ToSet(s)
           /\ \A i \in 1 .. Len(s) : \A o \in In[s[i]] : \E j \in 1 .. i - 1 :
                 j \in 1 .. Len(s) /\ s[j] = o
<1>1. ASSUME NEW i \in 1 .. Len(s), NEW o \in In[s[i]]
      PROVE  \E j \in 1 .. i - 1 : j \in 1 .. Len(s) /\ s[j] = o
    <2>1. PICK j \in 1 .. i - 1 : s[j] = o
        BY DEF Ordered
    <2>2. j \in 1 .. Len(s)
        OBVIOUS
    <2> QED
        BY <2>1, <2>2
<1>2. ASSUME NEW t \in ToSet(s), NEW o \in In[t] PROVE o \in ToSet(s)
    <2>1. PICK i \in 1 .. Len(s) : t = s[i]
        BY Elements
    <2>2. PICK j \in 1 .. i - 1 : j \in 1 .. Len(s) /\ s[j] = o
        BY <1>1, <2>1
    <2> QED
        BY <2>2, Elements
<1> QED
    BY <1>1, <1>2

\* a branch leaves the chain after its block n
LEMMA OrderedPrefix ==
    ASSUME NEW s \in Seq(Tx), Ordered(s), NEW n \in 0 .. Len(s)
    PROVE  /\ SubSeq(s, 1, n) \in Seq(Tx) /\ Ordered(SubSeq(s, 1, n))
           /\ ToSet(SubSeq(s, 1, n)) \subseteq ToSet(s)
<1> DEFINE b == SubSeq(s, 1, n)
<1>1. b \in Seq(Tx) /\ Len(b) = n /\ \A k \in 1 .. n : b[k] = s[k]
    OBVIOUS
<1>2. ASSUME NEW i \in 1 .. n, NEW o \in In[b[i]] PROVE \E j \in 1 .. i - 1 : b[j] = o
    <2>1. b[i] = s[i] /\ i \in 1 .. Len(s)
        BY <1>1
    <2>2. PICK j \in 1 .. i - 1 : s[j] = o
        BY <1>2, <2>1 DEF Ordered
    <2>3. j \in 1 .. n
        OBVIOUS
    <2> QED
        BY <1>1, <2>2, <2>3
<1>3. Ordered(b)
    BY <1>1, <1>2 DEF Ordered
<1>4. ASSUME NEW x \in ToSet(b) PROVE x \in ToSet(s)
    <2>1. PICK i \in 1 .. Len(b) : x = b[i]
      <3> HIDE DEF b
      <3> QED
        BY <1>1, <1>4, Elements
    <2>2. i \in 1 .. n /\ i \in 1 .. Len(s) /\ b[i] = s[i]
        BY <1>1, <2>1
    <2> QED
        BY <2>1, <2>2, Elements
<1> QED
    BY <1>1, <1>3, <1>4

\* a transaction joins a chain that has its inputs
LEMMA OrderedAppend ==
    ASSUME NEW s \in Seq(Tx), Ordered(s), NEW t \in Tx, In[t] \subseteq ToSet(s)
    PROVE  /\ Append(s, t) \in Seq(Tx) /\ Ordered(Append(s, t))
           /\ ToSet(Append(s, t)) = ToSet(s) \cup {t}
<1> DEFINE b == Append(s, t)
<1>1. /\ b \in Seq(Tx) /\ Len(b) = Len(s) + 1 /\ b[Len(s) + 1] = t
      /\ \A k \in 1 .. Len(s) : b[k] = s[k]
    OBVIOUS
<1>2. ASSUME NEW i \in 1 .. Len(b), NEW o \in In[b[i]] PROVE \E j \in 1 .. i - 1 : b[j] = o
    <2>1. CASE i \in 1 .. Len(s)
        <3>1. PICK j \in 1 .. i - 1 : j \in 1 .. Len(s) /\ s[j] = o
            BY <1>1, <1>2, <2>1, OrderedInputs
        <3> QED
            BY <1>1, <3>1
    <2>2. CASE i = Len(s) + 1
        <3>1. PICK j \in 1 .. Len(s) : o = s[j]
            BY <1>1, <1>2, <2>2, Elements
        <3>2. j \in 1 .. i - 1
            BY <2>2
        <3> QED
            BY <1>1, <3>1, <3>2
    <2> QED
        BY <1>1, <2>1, <2>2
<1>3. Ordered(b)
    BY <1>1, <1>2 DEF Ordered
<1>4. \A x : x \in ToSet(b) <=> \E i \in 1 .. Len(b) : x = b[i]
    BY <1>1, Elements
<1>5. \A x : x \in ToSet(b) <=> x \in ToSet(s) \/ x = t
    <2> HIDE DEF b
    <2>1. Len(s) \in Nat /\ Len(s) + 1 \in 1 .. Len(b)
        BY <1>1
    <2>2. \A i \in 1 .. Len(b) : i \in 1 .. Len(s) \/ i = Len(s) + 1
        BY <1>1, <2>1
    <2>3. \A i \in 1 .. Len(s) : i \in 1 .. Len(b)
        BY <1>1, <2>1
    <2>4. ASSUME NEW x, x \in ToSet(b) PROVE x \in ToSet(s) \/ x = t
        <3>1. PICK i \in 1 .. Len(b) : x = b[i]
            BY <1>4, <2>4
        <3> QED
            BY <1>1, <2>2, <3>1, Elements
    <2>5. ASSUME NEW x, x \in ToSet(s) PROVE x \in ToSet(b)
        <3>1. PICK i \in 1 .. Len(s) : x = s[i]
            BY <2>5, Elements
        <3> QED
            BY <1>1, <1>4, <2>3, <3>1
    <2>6. t \in ToSet(b)
        BY <1>1, <1>4, <2>1
    <2> QED
        BY <2>4, <2>5, <2>6
<1> QED
    BY <1>1, <1>3, <1>5

\* The ancestors of t are its inputs and theirs.
LEMMA AncestorsOf ==
    ASSUME NEW t \in Tx
    PROVE  /\ Ancestors(t) \subseteq Tx /\ In[t] \subseteq Ancestors(t)
           /\ \A u \in Ancestors(t) : In[u] \subseteq Ancestors(t)
           /\ \A u \in Ancestors(t) : u \in In[t] \/ \E o \in In[t] : u \in Ancestors(o)
           /\ \A S \in SUBSET Tx :
                 In[t] \subseteq S /\ (\A v \in S : In[v] \subseteq S) => Ancestors(t) \subseteq S
<1>1. /\ Ancestors(t) \subseteq Tx
      /\ \A S \in SUBSET Tx :
            In[t] \subseteq S /\ (\A v \in S : In[v] \subseteq S) => Ancestors(t) \subseteq S
    BY DEF Ancestors
<1>2. In[t] \subseteq Ancestors(t)
    BY WalletAssumption DEF Ancestors
<1>3. ASSUME NEW x \in Tx
      PROVE  \A u \in Ancestors(x) : In[u] \subseteq Ancestors(x)
    BY WalletAssumption DEF Ancestors
<1>4. ASSUME NEW x \in Tx PROVE In[x] \subseteq Ancestors(x) /\ Ancestors(x) \subseteq Tx
    BY WalletAssumption DEF Ancestors
<1> DEFINE S == In[t] \cup UNION {Ancestors(o) : o \in In[t]}
<1>5. In[t] \subseteq Tx
    BY WalletAssumption
<1>6. S \in SUBSET Tx /\ In[t] \subseteq S
    BY <1>4, <1>5
<1>7. ASSUME NEW v \in S PROVE In[v] \subseteq S
    <2>1. CASE v \in In[t]
        BY <1>4, <1>5, <2>1
    <2>2. CASE \E o \in In[t] : v \in Ancestors(o)
        <3>1. PICK o \in In[t] : v \in Ancestors(o)
            BY <2>2
        <3> QED
            BY <1>3, <1>5, <3>1
    <2> QED
        BY <2>1, <2>2
<1>8. Ancestors(t) \subseteq S
    <2> HIDE DEF S
    <2> QED
        BY <1>1, <1>6, <1>7
<1> QED
    BY <1>1, <1>2, <1>3, <1>8

\* The ancestors of a transaction of the chain are in the chain.
LEMMA ChainAncestors ==
    ASSUME NEW s \in Seq(Tx), Ordered(s), NEW t \in ToSet(s)
    PROVE  Ancestors(t) \subseteq ToSet(s)
BY OrderedInputs, Elements, AncestorsOf

\* Start-up scans the chain from a block that the locator has too.
LEMMA BootPrefix ==
    ASSUME chain \in Seq(Tx), NEW b \in Seq(Tx) \cup {None}, NEW x \in Boot(b)
    PROVE  /\ x.at = "scan" /\ x.list \in Seq(Tx) /\ x.visit = {} /\ x.again = FALSE
           /\ x = [at |-> x.at, list |-> x.list, visit |-> x.visit, again |-> x.again]
           /\ Len(x.list) <= Len(chain)
           /\ \A k \in 1 .. Len(x.list) : x.list[k] = chain[Len(chain) - Len(x.list) + k]
           /\ b = None => x.list = <<>>
           /\ b # None => \A k \in 1 .. Len(chain) - Len(x.list) :
                 k \in 1 .. Len(b) /\ chain[k] = b[k]
<1>1. PICK l \in Rescan(b) : x = [at |-> "scan", list |-> l, visit |-> {}, again |-> FALSE]
    BY DEF Boot
<1>2. Len(chain) \in Nat
    OBVIOUS
<1>3. CASE b = None
    BY <1>1, <1>2, <1>3 DEF Rescan
<1>4. CASE b # None
    <2>1. PICK i \in 1 .. Len(chain) :
              LastCommon(b, i) /\ l = IF i = Len(chain) THEN <<>> ELSE SubSeq(chain, i, Len(chain))
        BY <1>1, <1>4 DEF Rescan
    <2>2. b \in Seq(Tx) /\ Len(b) \in Nat /\ i <= Len(b)
        BY <1>4, <2>1 DEF LastCommon
    <2>3. ASSUME NEW k \in 1 .. i PROVE k \in 1 .. Len(b) /\ chain[k] = b[k]
        <3>1. SubSeq(b, 1, i) = SubSeq(chain, 1, i)
            BY <2>1 DEF LastCommon
        <3>2. SubSeq(b, 1, i)[k] = b[k] /\ SubSeq(chain, 1, i)[k] = chain[k]
            BY <2>2
        <3> QED
            BY <2>2, <3>1, <3>2
    <2>4. CASE i = Len(chain)
        BY <1>1, <1>2, <2>1, <2>3, <2>4, <1>4
    <2>5. CASE i # Len(chain)
        <3>1. /\ l \in Seq(Tx) /\ Len(l) = Len(chain) - i + 1
              /\ \A k \in 1 .. Len(l) : l[k] = chain[i + k - 1]
            BY <1>2, <2>1, <2>5
        <3>2. Len(chain) - Len(l) = i - 1 /\ \A k \in 1 .. Len(l) : i - 1 + k = i + k - 1
            BY <1>2, <3>1
        <3>3. \A k \in 1 .. Len(l) : l[k] = chain[Len(chain) - Len(l) + k]
            BY <3>1, <3>2
        <3>4. \A k \in 1 .. Len(chain) - Len(l) : k \in 1 .. i
            BY <3>2
        <3>5. x.list = l /\ Len(l) <= Len(chain)
            BY <1>1, <1>2, <3>1
        <3>6. \A k \in 1 .. Len(chain) - Len(l) : k \in 1 .. Len(b) /\ chain[k] = b[k]
            BY <2>3, <3>4
        <3>7. x.list \in Seq(Tx)
            BY <3>1, <3>5
        <3> HIDE DEF LastCommon
        <3> QED
            BY <1>1, <1>4, <3>3, <3>5, <3>6, <3>7
    <2> QED
        BY <2>4, <2>5
<1> QED
    BY <1>3, <1>4

-----------------------------------------------------------------------------
(* Types *)

JobType == [kind : {"idle", "commit", "tx", "sync", "block", "locator"},
            tx : Tx \cup {None}, base : Seq(Tx)]
BootType == [at : {"scan", "ready", "reaccept", "rescan", "up"},
             list : Seq(Tx), visit : SUBSET Tx, again : BOOLEAN]

LEMMA IdleIs == Idle \in JobType /\ Idle.kind = "idle" /\ Idle.tx = None /\ Idle.base = <<>>
<1>1. <<>> \in Seq(Tx)
    OBVIOUS
<1> QED
    BY <1>1 DEF Idle, JobType

LEMMA UpIs == Up \in BootType /\ Up.at = "up" /\ Up.list = <<>> /\ Up.visit = {} /\ Up.again = FALSE
<1>1. <<>> \in Seq(Tx)
    OBVIOUS
<1> QED
    BY <1>1 DEF Up, BootType

LEMMA RecordsAre == TypeOK => job \in JobType /\ boot \in BootType
BY DEF TypeOK, JobType, BootType

\* AddToWalletIfInvolvingMe records at most the transaction.
LEMMA SyncTypes ==
    ASSUME TypeOK, NEW t \in Tx, NEW f, todo = {}, AddToWalletIfInvolvingMe(t, f)
    PROVE  /\ mapWallet \subseteq mapWallet' /\ mapWallet' \subseteq mapWallet \cup {t}
           /\ todo' \subseteq mapWallet \ spent
BY DEF TypeOK, AddToWalletIfInvolvingMe, Unmarked

LEMMA InitTypes == Init => TypeOK
<1> SUFFICES ASSUME Init PROVE TypeOK
    OBVIOUS
<1>1. ToSet(Genesis) \subseteq Tx /\ Genesis \in Seq(Tx)
    BY Elements, WalletAssumption
<1>2. mapWallet \subseteq Tx
    BY <1>1 DEF Init
<1>3. ASSUME NEW o \in spent PROVE o \in mapWallet
    <2>1. o \in Mine /\ \E t \in ToSet(Genesis) : o \in In[t]
        BY DEF Init, Spends
    <2>2. o \in ToSet(Genesis)
        BY <2>1, OrderedInputs, WalletAssumption
    <2> QED
        BY <2>1, <2>2 DEF Init
<1>4. job \in JobType /\ boot \in BootType
    BY IdleIs, UpIs DEF Init
<1>5. 0 \in 0 .. MaxFaults
    BY WalletAssumption
<1>6. best \in Seq(Tx) \cup {None} /\ download \in BOOLEAN
    BY <1>1 DEF Init
<1> QED
    BY <1>1, <1>2, <1>3, <1>4, <1>5, <1>6 DEF Init, TypeOK, JobType, BootType

\* Every step keeps the types; a copy brings back records that fit together.
LEMMA NextTypes == PayInv /\ TypeOK /\ JobInv /\ BackupInv /\ [Next]_vars => TypeOK'
<1> SUFFICES ASSUME PayInv, TypeOK, JobInv, BackupInv, [Next]_vars PROVE TypeOK'
    OBVIOUS
<1>0. /\ job \in JobType /\ boot \in BootType /\ Idle \in JobType /\ Up \in BootType
      /\ faults \in Nat /\ MaxFaults \in Nat /\ Own \subseteq Tx
    BY RecordsAre, IdleIs, UpIs, WalletAssumption DEF TypeOK
<1>1. ASSUME NEW o \in Tx, MarkSpent(o) PROVE TypeOK'
    BY <1>1 DEF MarkSpent, TypeOK
<1>2. ASSUME NEW t \in Tx, CommitTransaction(t) PROVE TypeOK'
    <2>1. In[t] \subseteq mapWallet \ spent
        BY <1>2 DEF CommitTransaction, Available
    <2>2. job' \in JobType
      <3>1. <<>> \in Seq(Tx)
        OBVIOUS
      <3>2. [kind |-> "commit", tx |-> t, base |-> <<>>] \in JobType
        BY <3>1 DEF JobType
      <3> QED
        BY <1>2, <3>2 DEF CommitTransaction
    <2> QED
        BY <1>2, <2>1, <2>2 DEF CommitTransaction, TypeOK, JobType
<1>3. CASE Broadcast
    <2>1. job.tx \in Tx
        BY <1>3 DEF Broadcast, JobInv
    <2>2. refused' \in BOOLEAN
        BY <1>3 DEF Broadcast, TypeOK
    <2>3. job' = Idle /\ pool' \subseteq Tx
        BY <1>3, <2>1 DEF Broadcast, TypeOK
    <2> QED
        BY <1>0, <1>3, <2>2, <2>3 DEF Broadcast, TypeOK, JobType
<1>4. ASSUME NEW t \in Tx, MessageTx(t) PROVE TypeOK'
    <2>1. job' \in JobType
      <3>1. <<>> \in Seq(Tx)
        OBVIOUS
      <3>2. [kind |-> "tx", tx |-> t, base |-> <<>>] \in JobType
        BY <3>1 DEF JobType
      <3> QED
        BY <1>4, <3>2 DEF MessageTx
    <2> QED
        BY <1>4, <2>1 DEF MessageTx, TypeOK, JobType, walletFile
<1>5. CASE AddUnchecked
    <2>1. job.tx \in Tx
        BY <1>5 DEF AddUnchecked, PayInv, SourcesInv
    <2>2. job' \in JobType
        BY <1>0, <1>5 DEF AddUnchecked, JobType
    <2> QED
        BY <1>5, <2>1, <2>2 DEF AddUnchecked, TypeOK, JobType, walletFile
<1>6. CASE SyncTx
    <2>1. job.tx \in Tx
        BY <1>6 DEF SyncTx, PayInv, SourcesInv
    <2>2. /\ mapWallet \subseteq mapWallet' /\ mapWallet' \subseteq mapWallet \cup {job.tx}
          /\ todo' \subseteq mapWallet \ spent
        BY <1>6, <2>1, SyncTypes DEF SyncTx, WalletFree
    <2> QED
        BY <1>0, <1>6, <2>1, <2>2 DEF SyncTx, TypeOK, JobType
<1>7. ASSUME NEW n \in Len(Genesis) .. Len(chain), NEW t \in Tx, ConnectBlock(t, n)
      PROVE  TypeOK'
    <2>1. /\ mapWallet \subseteq mapWallet' /\ mapWallet' \subseteq mapWallet \cup {t}
          /\ todo' \subseteq mapWallet \ spent
        BY <1>7, SyncTypes DEF ConnectBlock, WalletFree
    <2>2. SubSeq(chain, 1, n) \in Seq(Tx)
      <3>1. Len(Genesis) \in Nat /\ chain \in Seq(Tx)
        BY WalletAssumption DEF TypeOK
      <3>2. n \in 0 .. Len(chain)
        BY <3>1
      <3> QED
        BY <3>1, <3>2, OrderedPrefix DEF JobInv
    <2>3. job' \in JobType
      <3>1. [kind |-> "block", tx |-> t, base |-> SubSeq(chain, 1, n)] \in JobType
        BY <2>2 DEF JobType
      <3> QED
        BY <1>7, <3>1 DEF ConnectBlock
    <2>4. faults' \in 0 .. MaxFaults
        BY <1>0, <1>7 DEF ConnectBlock
    <2> QED
        BY <1>7, <2>1, <2>3, <2>4 DEF ConnectBlock, TypeOK, JobType
<1>8. ASSUME NEW n \in Len(Genesis) .. Len(chain), ConnectEmptyBranch(n) PROVE TypeOK'
    <2>2. SubSeq(chain, 1, n) \in Seq(Tx)
      <3>1. Len(Genesis) \in Nat /\ chain \in Seq(Tx)
        BY WalletAssumption DEF TypeOK
      <3>2. n \in 0 .. Len(chain)
        BY <3>1
      <3> QED
        BY <3>1, <3>2, OrderedPrefix DEF JobInv
    <2>3. job' \in JobType
      <3>1. [kind |-> "block", tx |-> None, base |-> SubSeq(chain, 1, n)] \in JobType
        BY <2>2 DEF JobType
      <3> QED
        BY <1>8, <3>1 DEF ConnectEmptyBranch
    <2>4. faults' \in 0 .. MaxFaults
        BY <1>0, <1>8 DEF ConnectEmptyBranch
    <2> QED
        BY <1>8, <2>3, <2>4 DEF ConnectEmptyBranch, TypeOK, JobType, walletFile
<1>9. CASE CommitChain
    <2>1. chain' \in Seq(Tx)
        BY <1>0, <1>9 DEF CommitChain, JobType, TypeOK
    <2>2. job' \in JobType
        BY <1>0, <1>9 DEF CommitChain, JobType
    <2>3. pool' \subseteq Tx
      <3>1. ToSet(chain) \subseteq Tx
        BY Elements DEF TypeOK
      <3> QED
        BY <1>9, <3>1 DEF CommitChain, TypeOK
    <2> QED
        BY <1>9, <2>1, <2>2, <2>3 DEF CommitChain, TypeOK, JobType, walletFile
<1>10. CASE WriteBestBlock
    <2>1. download' \in BOOLEAN /\ best' \in Seq(Tx) \cup {None}
        BY <1>10 DEF WriteBestBlock, TypeOK
    <2> QED
        BY <1>0, <1>10, <2>1 DEF WriteBestBlock, TypeOK, JobType
<1>11. CASE BackupWallet
    <2>1. backup' \in Files
        BY <1>11 DEF BackupWallet, Files, TypeOK
    <2> QED
        BY <1>11, <2>1 DEF BackupWallet, TypeOK, walletFile
<1>12. CASE Crash
    <2>1. boot' \in BootType
      <3>1. best \in Seq(Tx) \cup {None} /\ chain \in Seq(Tx) /\ boot' \in Boot(best)
        BY <1>12 DEF Crash, TypeOK
      <3>2. /\ boot'.at = "scan" /\ boot'.list \in Seq(Tx) /\ boot'.visit = {}
            /\ boot'.again = FALSE
            /\ boot' = [at |-> boot'.at, list |-> boot'.list, visit |-> boot'.visit,
                        again |-> boot'.again]
        BY <3>1, BootPrefix
      <3> QED
        BY <3>2 DEF BootType
    <2>2. faults' \in 0 .. MaxFaults
        BY <1>0, <1>12 DEF Crash
    <2> QED
        BY <1>0, <1>12, <2>1, <2>2 DEF Crash, TypeOK, JobType, BootType
<1>13. CASE Restore
    <2>1. /\ backup \in Files /\ backup.built \subseteq backup.mapWallet
          /\ backup.spent \subseteq backup.mapWallet
        BY <1>13 DEF Restore, BackupInv, TypeOK
    <2>2. /\ backup.mapWallet \subseteq Tx /\ backup.lost \subseteq Tx
          /\ backup.best \in Seq(Tx) \cup {None}
        BY <2>1 DEF Files
    <2>3. boot' \in BootType
      <3>1. backup.best \in Seq(Tx) \cup {None} /\ chain \in Seq(Tx) /\ boot' \in Boot(backup.best)
        BY <1>13, <2>2 DEF Restore, TypeOK
      <3>2. /\ boot'.at = "scan" /\ boot'.list \in Seq(Tx) /\ boot'.visit = {}
            /\ boot'.again = FALSE
            /\ boot' = [at |-> boot'.at, list |-> boot'.list, visit |-> boot'.visit,
                        again |-> boot'.again]
        BY <3>1, BootPrefix
      <3> QED
        BY <3>2 DEF BootType
    <2>4. faults' \in 0 .. MaxFaults
        BY <1>0, <1>13 DEF Restore
    <2>5. restored' \in {"located", "bare"}
        BY <1>13 DEF Restore
    <2> QED
        BY <1>0, <1>13, <2>1, <2>2, <2>3, <2>4, <2>5 DEF Restore, TypeOK, JobType, BootType
<1>14. CASE ScanTx
    <2>1. Head(boot.list) \in Tx /\ Tail(boot.list) \in Seq(Tx) /\ boot.list \in Seq(Tx)
        BY <1>14, SignedTail DEF ScanTx, PayInv, SourcesInv
    <2>2. /\ mapWallet \subseteq mapWallet' /\ mapWallet' \subseteq mapWallet \cup {Head(boot.list)}
          /\ todo' \subseteq mapWallet \ spent
        BY <1>14, <2>1, SyncTypes DEF ScanTx
    <2>3. boot' \in BootType
        BY <1>0, <1>14, <2>1 DEF ScanTx, BootType
    <2> QED
        BY <1>14, <2>1, <2>2, <2>3 DEF ScanTx, TypeOK, BootType
<1>15. CASE StartThreads
    <2>1. boot' \in BootType
        BY <1>0, <1>15 DEF StartThreads, BootType
    <2> QED
        BY <1>15, <2>1 DEF StartThreads, TypeOK, BootType, walletFile
<1>16. CASE ReacceptWalletTransactions
    <2>1. boot' \in BootType
      <3>1. <<>> \in Seq(Tx)
        OBVIOUS
      <3> QED
        BY <1>0, <1>16, <3>1 DEF ReacceptWalletTransactions, BootType, TypeOK
    <2> QED
        BY <1>16, <2>1 DEF ReacceptWalletTransactions, TypeOK, BootType, walletFile
<1>17. ASSUME NEW t \in Tx, Reaccept(t) PROVE TypeOK'
    <2>1. boot' \in BootType
        BY <1>0, <1>17 DEF Reaccept, BootType
    <2>2. pool' \subseteq Tx
        BY <1>17, AncestorsOf DEF Reaccept, AcceptWalletTransaction, TypeOK
    <2>3. todo = {} /\ t \in mapWallet /\ spent' \subseteq spent \cup {t}
        BY <1>17 DEF Reaccept, JobInv
    <2> QED
        BY <1>17, <2>1, <2>2, <2>3 DEF Reaccept, TypeOK, BootType
<1>18. CASE RoundDone
    <2>1. boot' \in BootType
        BY <1>0, <1>18 DEF RoundDone, BootType, TypeOK
    <2> QED
        BY <1>18, <2>1 DEF RoundDone, TypeOK, BootType, walletFile
<1>19. CASE ScanDone
    <2>1. boot' \in BootType
        BY <1>0, <1>19 DEF ScanDone, BootType
    <2> QED
        BY <1>19, <2>1 DEF ScanDone, TypeOK, BootType, walletFile
<1>20. CASE UNCHANGED vars
    BY <1>20 DEF vars, TypeOK
<1> QED
    BY <1>1, <1>2, <1>3, <1>4, <1>5, <1>6, <1>7, <1>8, <1>9, <1>10, <1>11, <1>12,
       <1>13, <1>14, <1>15, <1>16, <1>17, <1>18, <1>19, <1>20 DEF Next

-----------------------------------------------------------------------------
(* The thread that holds cs_main *)

LEMMA InitJob == Init => JobInv /\ BackupInv
<1> SUFFICES ASSUME Init PROVE JobInv /\ BackupInv
    OBVIOUS
<1>1. Ordered(<<>>)
    BY DEF Ordered
<1>2. boot.at = "up" /\ Ordered(chain)
    BY UpIs, WalletAssumption DEF Init
<1> QED
    BY <1>1, <1>2, IdleIs DEF Init, JobInv, BackupInv

LEMMA NextJob == PayInv /\ TypeOK /\ JobInv /\ [Next]_vars => JobInv'
<1> SUFFICES ASSUME PayInv, TypeOK, JobInv, [Next]_vars PROVE JobInv'
    OBVIOUS
<1>0. /\ job \in JobType /\ boot \in BootType /\ chain \in Seq(Tx) /\ Ordered(<<>>)
      /\ Idle.kind = "idle" /\ Idle.tx = None /\ Idle.base = <<>> /\ Up.at = "up"
    BY RecordsAre, IdleIs, UpIs DEF TypeOK, Ordered
<1>1. ASSUME NEW o \in Tx, MarkSpent(o) PROVE JobInv'
    BY <1>1 DEF MarkSpent, JobInv
<1>2. ASSUME NEW t \in Tx, CommitTransaction(t) PROVE JobInv'
    BY <1>0, <1>2 DEF CommitTransaction, WalletFree, JobInv
<1>3. CASE Broadcast
    BY <1>0, <1>3 DEF Broadcast, JobInv
<1>4. ASSUME NEW t \in Tx, MessageTx(t) PROVE JobInv'
    BY <1>0, <1>4 DEF MessageTx, Accept, JobInv, walletFile
<1>5. CASE AddUnchecked
    BY <1>0, <1>5 DEF AddUnchecked, JobInv, JobType, walletFile
<1>6. CASE SyncTx
    BY <1>0, <1>6 DEF SyncTx, WalletFree, JobInv
<1>7. ASSUME NEW n \in Len(Genesis) .. Len(chain) PROVE
          /\ SubSeq(chain, 1, n) \in Seq(Tx) /\ Ordered(SubSeq(chain, 1, n))
          /\ ToSet(SubSeq(chain, 1, n)) \subseteq ToSet(chain)
    <2>1. Len(Genesis) \in Nat /\ chain \in Seq(Tx) /\ Ordered(chain)
        BY <1>0, WalletAssumption DEF JobInv
    <2>2. n \in 0 .. Len(chain)
        BY <2>1
    <2> QED
        BY <2>1, <2>2, OrderedPrefix
<1>8. ASSUME NEW n \in Len(Genesis) .. Len(chain), NEW t \in Tx, ConnectBlock(t, n)
      PROVE  JobInv'
    BY <1>7, <1>8 DEF ConnectBlock, WalletFree, JobInv
<1>9. ASSUME NEW n \in Len(Genesis) .. Len(chain), ConnectEmptyBranch(n) PROVE JobInv'
    BY <1>7, <1>9 DEF ConnectEmptyBranch, WalletFree, JobInv, walletFile
<1>10. CASE CommitChain
    <2>1. Ordered(chain')
        <3>1. CASE job.tx = None
            BY <1>10, <3>1 DEF CommitChain, JobInv
        <3>2. CASE job.tx # None
            <4>1. job.tx \in Tx /\ job.base \in Seq(Tx) /\ In[job.tx] \subseteq ToSet(job.base)
                BY <1>0, <1>10, <3>2 DEF CommitChain, JobInv, JobType
            <4> QED
                BY <1>10, <3>2, <4>1, OrderedAppend DEF CommitChain, JobInv
        <3> QED
            BY <3>1, <3>2
    <2> QED
        BY <1>0, <1>10, <2>1 DEF CommitChain, JobInv, JobType, walletFile
<1>11. CASE WriteBestBlock
    BY <1>0, <1>11 DEF WriteBestBlock, JobInv
<1>12. CASE BackupWallet
    BY <1>12 DEF BackupWallet, JobInv, walletFile
<1>13. CASE Crash
    <2>1. boot'.at = "scan"
        BY <1>13, BootPrefix DEF Crash, TypeOK
    <2> QED
        BY <1>0, <1>13, <2>1 DEF Crash, JobInv
<1>14. CASE Restore
    <2>1. backup.best \in Seq(Tx) \cup {None}
        BY <1>14 DEF Restore, TypeOK, Files
    <2>2. boot'.at = "scan"
        BY <1>0, <1>14, <2>1, BootPrefix DEF Restore
    <2> QED
        BY <1>0, <1>14, <2>2 DEF Restore, JobInv
<1>15. CASE ScanTx
    <2>1. boot'.at = boot.at /\ boot.at # "reaccept" /\ mapWallet \subseteq mapWallet'
        BY <1>0, <1>15 DEF ScanTx, AddToWalletIfInvolvingMe, BootType
    <2> QED
        BY <1>15, <2>1 DEF ScanTx, JobInv
<1>16. CASE StartThreads
    <2>1. boot'.at = "ready"
        BY <1>0, <1>16 DEF StartThreads, BootType
    <2> QED
        BY <1>16, <2>1 DEF StartThreads, JobInv, walletFile
<1>17. CASE ReacceptWalletTransactions
    <2>1. boot'.at = "reaccept" /\ boot'.visit = mapWallet
        BY <1>17 DEF ReacceptWalletTransactions
    <2> QED
        BY <1>17, <2>1 DEF ReacceptWalletTransactions, JobInv, walletFile
<1>18. ASSUME NEW t \in Tx, Reaccept(t) PROVE JobInv'
    <2>1. boot'.at = "reaccept" /\ boot'.visit \subseteq boot.visit
        BY <1>0, <1>18 DEF Reaccept, BootType
    <2> QED
        BY <1>18, <2>1 DEF Reaccept, JobInv
<1>19. CASE RoundDone
    <2>1. boot'.at \in {"rescan", "up"}
        BY <1>0, <1>19 DEF RoundDone, BootType
    <2> QED
        BY <1>19, <2>1 DEF RoundDone, JobInv, walletFile
<1>20. CASE ScanDone
    <2>1. boot'.at \in {"ready", "up"}
        BY <1>0, <1>20 DEF ScanDone, BootType
    <2> QED
        BY <1>20, <2>1 DEF ScanDone, JobInv, walletFile
<1>21. CASE UNCHANGED vars
    BY <1>21 DEF vars, JobInv
<1> QED
    BY <1>1, <1>2, <1>3, <1>4, <1>5, <1>6, <1>8, <1>9, <1>10, <1>11, <1>12,
       <1>13, <1>14, <1>15, <1>16, <1>17, <1>18, <1>19, <1>20, <1>21 DEF Next

\* The copy is made once, of a wallet that was never replaced.
LEMMA NextBackup == TypeOK /\ JobInv /\ BackupInv /\ LocatedInv /\ [Next]_vars => BackupInv'
<1> SUFFICES ASSUME TypeOK, JobInv, BackupInv, LocatedInv, [Next]_vars PROVE BackupInv'
    OBVIOUS
<1>1. CASE BackupWallet
    <2>1. restored = "no" /\ todo = {}
        BY <1>1 DEF BackupWallet, BackupInv, WalletFree
    <2>2. lost \cup todo = lost
        BY <2>1
    <2>3. FileInv(mapWallet, built, spent, lost, best)
        BY <2>1, <2>2 DEF LocatedInv, Located
    <2>4. /\ backup'.mapWallet = mapWallet /\ backup'.built = built
          /\ backup'.spent = spent /\ backup'.lost = lost /\ backup'.best = best
        BY <1>1 DEF BackupWallet
    <2>5. built \subseteq mapWallet /\ spent \subseteq mapWallet
        BY DEF TypeOK
    <2>6. restored' = restored
        BY <1>1 DEF BackupWallet
    <2> QED
        BY <2>1, <2>3, <2>4, <2>5, <2>6 DEF BackupInv
<1>2. CASE Restore
    BY <1>2 DEF Restore, BackupInv
<1>3. CASE ReacceptWalletTransactions
    <2>1. backup' = backup /\ (restored = "no" => restored' = "no")
        BY <1>3 DEF ReacceptWalletTransactions
    <2> QED
        BY <2>1 DEF BackupInv
<1>4. CASE ~BackupWallet /\ ~Restore /\ ~ReacceptWalletTransactions
    <2>1. UNCHANGED <<backup, restored>>
        BY <1>4 DEF Next, vars, walletFile, MarkSpent, CommitTransaction, Broadcast, MessageTx,
           AddUnchecked, SyncTx, ConnectBlock, ConnectEmptyBranch, CommitChain,
           WriteBestBlock, Crash, ScanTx, StartThreads, Reaccept, RoundDone, ScanDone
    <2> QED
        BY <2>1 DEF BackupInv
<1> QED
    BY <1>1, <1>2, <1>3, <1>4

-----------------------------------------------------------------------------
(* Wallets that kept their locator *)

LEMMA NotedGrows ==
    ASSUME NEW m, NEW n, m \subseteq n, NEW t, Noted(t, m)
    PROVE  Noted(t, n)
BY DEF Noted

\* What the file says stays true while flags are set, coins move from the ones to
\* mark to the marked or lost ones, and transactions that fit are recorded.
LEMMA FileGrows ==
    ASSUME NEW m, NEW bu, NEW s, NEW l, NEW p, FileInv(m, bu, s, l, p),
           NEW m2, NEW s2, NEW l2, m \subseteq m2, s \subseteq s2, s \cup l \subseteq s2 \cup l2,
           \A t \in m2 \ m : MyInputs(t) \subseteq m2 /\ MyInputs(t) \subseteq s2 \cup l2
    PROVE  FileInv(m2, bu, s2, l2, p)
<1>1. ASSUME NEW t \in m2 PROVE MyInputs(t) \subseteq m2 /\ MyInputs(t) \subseteq s2 \cup l2
    BY DEF FileInv
<1>2. ASSUME NEW t \in bu, NEW u \in Ancestors(t) PROVE Noted(u, m2)
    BY NotedGrows DEF FileInv
<1>3. ASSUME p # None, NEW i \in 1 .. Len(p) PROVE Noted(p[i], m2) /\ MyInputs(p[i]) \subseteq s2
    BY <1>3, NotedGrows DEF FileInv
<1> QED
    BY <1>1, <1>2, <1>3 DEF FileInv

\* Once the first scan is over the wallet has been through the chain.
LEMMA ChainNoted ==
    ASSUME TypeOK, LocatedInv, Located, boot.at # "scan"
    PROVE  /\ \A t \in ToSet(chain) : Noted(t, mapWallet) /\ MyInputs(t) \subseteq spent
           /\ \A i \in 1 .. Len(chain) : Noted(chain[i], mapWallet) /\ MyInputs(chain[i]) \subseteq spent
<1>1. chain \in Seq(Tx) /\ Len(chain) \in Nat
    BY DEF TypeOK
<1>2. Scanned = Len(chain) /\ spent \cup Pending = spent
    BY <1>1 DEF Scanned, Pending
<1>3. \A i \in 1 .. Len(chain) : Noted(chain[i], mapWallet) /\ MyInputs(chain[i]) \subseteq spent
    BY <1>2 DEF LocatedInv
<1> QED
    BY <1>1, <1>3, Elements

\* A transaction that spends coins the wallet has is taken in whole.
LEMMA SyncFile ==
    ASSUME TypeOK, todo = {}, NEW t \in Tx, MyInputs(t) \subseteq mapWallet,
           FileInv(mapWallet, built, spent, lost, best), AddToWalletIfInvolvingMe(t, TRUE)
    PROVE  /\ mapWallet \subseteq mapWallet' /\ Noted(t, mapWallet')
           /\ MyInputs(t) \subseteq spent \cup todo'
           /\ FileInv(mapWallet', built, spent, lost \cup todo', best)
<1>1. todo' = MyInputs(t) \ spent
    BY DEF AddToWalletIfInvolvingMe, Unmarked, MyInputs
<1>2. /\ mapWallet \subseteq mapWallet' /\ mapWallet' \subseteq mapWallet \cup {t}
      /\ Noted(t, mapWallet')
    BY DEF AddToWalletIfInvolvingMe, IsFromMe, MyInputs, Noted
<1>3. \A x \in mapWallet' \ mapWallet :
          MyInputs(x) \subseteq mapWallet' /\ MyInputs(x) \subseteq spent \cup (lost \cup todo')
    BY <1>1, <1>2
<1>4. spent \cup lost \subseteq spent \cup (lost \cup todo')
    OBVIOUS
<1>5. FileInv(mapWallet', built, spent, lost \cup todo', best)
    BY <1>2, <1>3, <1>4, FileGrows
<1> QED
    BY <1>1, <1>2, <1>5

\* A transaction that was taken in already is passed over.
LEMMA SyncAgain ==
    ASSUME todo = {}, NEW t, Noted(t, mapWallet), MyInputs(t) \subseteq mapWallet,
           AddToWalletIfInvolvingMe(t, FALSE)
    PROVE  mapWallet' = mapWallet /\ todo' = {}
BY DEF AddToWalletIfInvolvingMe, IsFromMe, Unmarked, MyInputs, Noted

\* Steps outside the first scan that leave chain, copy and locator alone.
LEMMA LocatedStays ==
    ASSUME TypeOK, LocatedInv, Located, restored' = restored, chain' = chain,
           boot.at # "scan", boot'.at # "scan", best' = best,
           FileInv(mapWallet', built', spent', lost' \cup todo', best'),
           mapWallet \subseteq mapWallet', spent \subseteq spent',
           \/ boot' = boot
           \/ boot'.at = "rescan" =>
                \A k \in 1 .. Len(boot'.list) :
                   Noted(boot'.list[k], mapWallet) /\ MyInputs(boot'.list[k]) \subseteq mapWallet,
           \A t \in pool' : Noted(t, mapWallet') \/ (job'.kind = "sync" /\ t = job'.tx),
           job'.kind \in {"tx", "sync"} => MyInputs(job'.tx) \subseteq mapWallet',
           job'.kind = "block" /\ job'.tx # None =>
              Noted(job'.tx, mapWallet') /\ MyInputs(job'.tx) \subseteq spent' \cup todo'
    PROVE  LocatedInv'
<1>1. Scanned' = Len(chain) /\ Pending' = {} /\ Located'
    BY DEF Scanned, Pending, Located, TypeOK
<1>2. \A i \in 1 .. Len(chain) :
          Noted(chain[i], mapWallet') /\ MyInputs(chain[i]) \subseteq spent' \cup Pending'
    BY <1>1, ChainNoted, NotedGrows
<1>3. boot'.at = "rescan" =>
          \A k \in 1 .. Len(boot'.list) :
             Noted(boot'.list[k], mapWallet') /\ MyInputs(boot'.list[k]) \subseteq mapWallet'
    BY NotedGrows DEF LocatedInv
<1>4. restored' = "located" => best' # None
    BY DEF LocatedInv
<1> QED
    BY <1>1, <1>2, <1>3, <1>4 DEF LocatedInv

LEMMA InitLocated == Init => LocatedInv /\ BareInv
<1> SUFFICES ASSUME Init PROVE LocatedInv /\ BareInv
    OBVIOUS
<1>1. /\ Genesis \in Seq(Tx) /\ ToSet(Genesis) \subseteq Tx
      /\ \A i \in 1 .. Len(Genesis) : Genesis[i] \in ToSet(Genesis)
      /\ \A t \in ToSet(Genesis) : In[t] \subseteq ToSet(Genesis)
    BY Elements, OrderedInputs, WalletAssumption
<1>2. ASSUME NEW t \in ToSet(Genesis)
      PROVE  Noted(t, mapWallet) /\ MyInputs(t) \subseteq spent /\ MyInputs(t) \subseteq mapWallet
    BY <1>1 DEF Init, Noted, MyInputs, Spends
<1>3. \A t \in mapWallet : t \in ToSet(Genesis)
    BY DEF Init
<1>4. /\ chain = Genesis /\ built = {} /\ todo = {} /\ lost = {} /\ pool = {}
      /\ restored = "no" /\ boot.at = "up" /\ job.kind = "idle"
      /\ best \in {None, Genesis}
    BY IdleIs, UpIs DEF Init
<1>5. FileInv(mapWallet, built, spent, lost \cup todo, best)
    BY <1>1, <1>2, <1>3, <1>4 DEF FileInv
<1>6. Scanned = Len(Genesis) /\ spent \cup Pending = spent
    BY <1>1, <1>4 DEF Scanned, Pending
<1>7. LocatedInv
    BY <1>1, <1>2, <1>4, <1>5, <1>6 DEF LocatedInv
<1>8. BareInv
    BY <1>4 DEF BareInv
<1> QED
    BY <1>7, <1>8

\* Start-up: the file and the chain agree up to the block the scan begins with.
LEMMA LocatedBoots ==
    ASSUME chain \in Seq(Tx), chain' = chain, pool' = {}, job' = Idle, todo' = {},
           best' \in Seq(Tx) \cup {None}, boot' \in Boot(best'),
           FileInv(mapWallet', built', spent', lost' \cup todo', best'),
           restored' = "located" => best' # None,
           best' = None =>
              \A i \in 1 .. Len(chain) :
                 Noted(chain[i], mapWallet') /\ MyInputs(chain[i]) \subseteq spent'
    PROVE  LocatedInv'
<1>1. /\ boot'.at = "scan" /\ boot'.list \in Seq(Tx) /\ Len(boot'.list) <= Len(chain)
      /\ \A k \in 1 .. Len(boot'.list) : boot'.list[k] = chain[Len(chain) - Len(boot'.list) + k]
      /\ best' = None => boot'.list = <<>>
      /\ best' # None => \A k \in 1 .. Len(chain) - Len(boot'.list) :
            k \in 1 .. Len(best') /\ chain[k] = best'[k]
    BY BootPrefix
<1>2. Scanned' = Len(chain) - Len(boot'.list) /\ Pending' = {}
    BY <1>1 DEF Scanned, Pending
<1>3. ASSUME NEW i \in 1 .. Scanned'
      PROVE  Noted(chain[i], mapWallet') /\ MyInputs(chain[i]) \subseteq spent'
    <2>1. CASE best' = None
        <3>1. Scanned' = Len(chain)
            BY <1>1, <1>2, <2>1
        <3> QED
            BY <1>3, <2>1, <3>1
    <2>2. CASE best' # None
        <3>1. i \in 1 .. Len(best') /\ chain[i] = best'[i]
            BY <1>1, <1>2, <2>2
        <3> QED
            BY <2>2, <3>1 DEF FileInv
    <2> QED
        BY <2>1, <2>2
<1>4. job'.kind = "idle"
    BY IdleIs
<1> QED
    BY <1>1, <1>2, <1>3, <1>4 DEF LocatedInv

LEMMA NextLocated ==
    PayInv /\ TypeOK /\ JobInv /\ BackupInv /\ LocatedInv /\ [Next]_vars => LocatedInv'
<1> SUFFICES ASSUME PayInv, TypeOK, JobInv, BackupInv, LocatedInv, [Next]_vars, Located'
             PROVE  LocatedInv'
    BY DEF LocatedInv
<1>0. /\ job \in JobType /\ boot \in BootType /\ chain \in Seq(Tx) /\ Len(chain) \in Nat
      /\ Idle.kind = "idle" /\ Idle.tx = None /\ Idle.base = <<>> /\ Up.at = "up"
      /\ Ordered(chain) /\ mapWallet \subseteq Tx /\ spent \subseteq mapWallet
    BY RecordsAre, IdleIs, UpIs DEF TypeOK, JobInv
<1>f. Located => FileInv(mapWallet, built, spent, lost \cup todo, best)
    BY DEF LocatedInv
<1>p. /\ Located => \A x \in pool : Noted(x, mapWallet) \/ (job.kind = "sync" /\ x = job.tx)
      /\ Located /\ job.kind \in {"tx", "sync"} => MyInputs(job.tx) \subseteq mapWallet
      /\ Located /\ job.kind = "block" /\ job.tx # None =>
            Noted(job.tx, mapWallet) /\ MyInputs(job.tx) \subseteq spent \cup todo
    BY DEF LocatedInv
<1>c. Located /\ boot.at # "scan" =>
          /\ \A x \in ToSet(chain) : Noted(x, mapWallet) /\ MyInputs(x) \subseteq spent
          /\ \A i \in 1 .. Len(chain) : Noted(chain[i], mapWallet) /\ MyInputs(chain[i]) \subseteq spent
    BY ChainNoted
<1>1. ASSUME NEW o \in Tx, MarkSpent(o) PROVE LocatedInv'
    <2>1. Located /\ o \in todo /\ todo' = todo \ {o} /\ spent' = spent \cup {o}
        BY <1>1 DEF MarkSpent, Located
    <2>2. UNCHANGED <<mapWallet, built, best, lost, boot, chain, restored, pool, job>>
        BY <1>1 DEF MarkSpent
    <2>3. spent' \cup (lost' \cup todo') = spent \cup (lost \cup todo) /\ spent \subseteq spent'
        BY <2>1, <2>2
    <2>4. FileInv(mapWallet', built', spent', lost' \cup todo', best')
        BY <1>f, <2>1, <2>2, <2>3, FileGrows
    <2>5. CASE boot.at = "scan"
        <3>1. best # None
            BY <2>1, <2>5 DEF LocatedInv
        <3>2. Scanned' = Scanned /\ spent' \cup Pending' = spent \cup Pending
            BY <2>1, <2>2, <2>5 DEF Scanned, Pending
        <3>3. \A i \in 1 .. Scanned' :
                  Noted(chain'[i], mapWallet') /\ MyInputs(chain'[i]) \subseteq spent' \cup Pending'
            BY <2>1, <2>2, <3>2 DEF LocatedInv
        <3>4. boot'.at = "scan" =>
                /\ Len(boot'.list) <= Len(chain')
                /\ \A k \in 1 .. Len(boot'.list) : boot'.list[k] = chain'[Scanned' + k]
                /\ best' = None => boot'.list = <<>> /\ todo' = {}
            BY <2>1, <2>2, <3>1, <3>2 DEF LocatedInv
        <3>5. job'.kind = "idle"
            BY <2>2, <2>5 DEF JobInv
        <3>6. boot'.at # "rescan" /\ (restored' = "located" => best' # None)
            BY <2>1, <2>2, <2>5 DEF LocatedInv
        <3>7. \A x \in pool' : Noted(x, mapWallet') \/ (job'.kind = "sync" /\ x = job'.tx)
            BY <1>p, <2>1, <2>2
        <3> QED
            BY <2>4, <3>3, <3>4, <3>5, <3>6, <3>7 DEF LocatedInv
    <2>6. CASE boot.at # "scan"
        <3>1. /\ \A x \in pool' : Noted(x, mapWallet') \/ (job'.kind = "sync" /\ x = job'.tx)
              /\ job'.kind \in {"tx", "sync"} => MyInputs(job'.tx) \subseteq mapWallet'
              /\ job'.kind = "block" /\ job'.tx # None =>
                    Noted(job'.tx, mapWallet') /\ MyInputs(job'.tx) \subseteq spent' \cup todo'
            BY <1>p, <2>1, <2>2
        <3> QED
            BY <2>1, <2>2, <2>4, <2>6, <3>1, LocatedStays
    <2> QED
        BY <2>5, <2>6
<1>2. ASSUME NEW t \in Tx, CommitTransaction(t) PROVE LocatedInv'
    <2>1. /\ Located /\ todo = {} /\ boot.at # "scan" /\ job = Idle
          /\ mapWallet' = mapWallet \cup {t} /\ built' = built \cup {t} /\ todo' = In[t]
          /\ job'.kind = "commit"
        BY <1>2 DEF CommitTransaction, Located, WalletFree
    <2>2. UNCHANGED <<spent, best, lost, boot, chain, restored, pool>>
        BY <1>2 DEF CommitTransaction
    <2>3. ASSUME NEW o \in In[t]
          PROVE  o \in mapWallet /\ (o \in ToSet(chain) \/ o \in built)
        BY <1>2 DEF CommitTransaction, Available, IsConfirmed
    <2>4. FileInv(mapWallet, built, spent, lost, best)
        <3>1. lost \cup todo = lost
            BY <2>1
        <3> QED
            BY <1>f, <2>1, <3>1
    <2>5. MyInputs(t) \subseteq mapWallet' /\ MyInputs(t) \subseteq todo'
        BY <2>1, <2>3 DEF MyInputs
    <2>6. FileInv(mapWallet', built, spent', lost' \cup todo', best')
        <3>1. \A x \in mapWallet' \ mapWallet :
                  MyInputs(x) \subseteq mapWallet' /\ MyInputs(x) \subseteq spent' \cup (lost' \cup todo')
            BY <2>1, <2>5
        <3>2. /\ mapWallet \subseteq mapWallet' /\ spent \subseteq spent'
              /\ spent \cup lost \subseteq spent' \cup (lost' \cup todo') /\ best' = best
            BY <2>1, <2>2
        <3> QED
            BY <2>4, <3>1, <3>2, FileGrows
    <2>7. ASSUME NEW u \in Ancestors(t) PROVE Noted(u, mapWallet)
        <3>1. u \in In[t] \/ \E o \in In[t] : u \in Ancestors(o)
            BY AncestorsOf
        <3>2. CASE u \in In[t]
            BY <2>3, <3>2 DEF Noted
        <3>3. ASSUME NEW o \in In[t], u \in Ancestors(o) PROVE Noted(u, mapWallet)
            <4>1. CASE o \in ToSet(chain)
                <5>1. u \in ToSet(chain)
                    BY <1>0, <3>3, <4>1, ChainAncestors
                <5> QED
                    BY <1>c, <2>1, <5>1
            <4>2. CASE o \in built
                BY <2>4, <3>3, <4>2 DEF FileInv
            <4> QED
                BY <2>3, <4>1, <4>2
        <3> QED
            BY <3>1, <3>2, <3>3
    <2>8. FileInv(mapWallet', built', spent', lost' \cup todo', best')
        <3>1. \A x \in built' : \A u \in Ancestors(x) : Noted(u, mapWallet')
            BY <2>1, <2>4, <2>7, NotedGrows DEF FileInv
        <3> QED
            BY <2>6, <3>1 DEF FileInv
    <2>9. \A x \in pool' : Noted(x, mapWallet')
        BY <1>0, <1>p, <2>1, <2>2, NotedGrows
    <2> QED
        BY <2>1, <2>2, <2>8, <2>9, LocatedStays
<1>3. CASE Broadcast
    <2>1. /\ Located /\ todo = {} /\ boot.at # "scan" /\ job' = Idle /\ pool' \subseteq pool \cup {job.tx}
          /\ job.tx \in mapWallet /\ job.kind = "commit"
        BY <1>3 DEF Broadcast, JobInv, Located
    <2>2. UNCHANGED <<mapWallet, built, spent, best, lost, todo, boot, chain, restored>>
        BY <1>3 DEF Broadcast
    <2>3. FileInv(mapWallet', built', spent', lost' \cup todo', best')
        BY <1>f, <2>1, <2>2
    <2>4. \A x \in pool' : Noted(x, mapWallet')
        BY <1>p, <2>1, <2>2 DEF Noted
    <2> QED
        BY <1>0, <2>1, <2>2, <2>3, <2>4, LocatedStays
<1>4. ASSUME NEW t \in Tx, MessageTx(t) PROVE LocatedInv'
    <2>1. /\ Located /\ boot.at # "scan" /\ job = Idle
          /\ job' = [kind |-> "tx", tx |-> t, base |-> <<>>] /\ In[t] \subseteq pool \cup ToSet(chain)
        BY <1>4 DEF MessageTx, Accept, Located
    <2>2. UNCHANGED <<mapWallet, built, spent, best, lost, todo, boot, chain, restored, pool>>
        BY <1>4 DEF MessageTx, walletFile
    <2>3. FileInv(mapWallet', built', spent', lost' \cup todo', best')
        BY <1>f, <2>1, <2>2
    <2>4. \A x \in pool' : Noted(x, mapWallet')
        BY <1>0, <1>p, <2>1, <2>2
    <2>5. MyInputs(t) \subseteq mapWallet'
        BY <1>c, <2>1, <2>2, <2>4 DEF MyInputs, Noted
    <2>6. job'.kind = "tx" /\ job'.tx = t
        BY <2>1
    <2> HIDE DEF Located
    <2> QED
        BY <2>1, <2>2, <2>3, <2>4, <2>5, <2>6, LocatedStays
<1>5. CASE AddUnchecked
    <2>1. /\ Located /\ boot.at # "scan" /\ pool' = pool \cup {job.tx}
          /\ job.kind = "tx" /\ job'.kind = "sync" /\ job'.tx = job.tx
        BY <1>0, <1>5 DEF AddUnchecked, Located, JobInv, JobType
    <2>2. UNCHANGED <<mapWallet, built, spent, best, lost, todo, boot, chain, restored>>
        BY <1>5 DEF AddUnchecked, walletFile
    <2>3. FileInv(mapWallet', built', spent', lost' \cup todo', best')
        BY <1>f, <2>1, <2>2
    <2>4. \A x \in pool' : Noted(x, mapWallet') \/ (job'.kind = "sync" /\ x = job'.tx)
        BY <1>p, <2>1, <2>2
    <2>5. MyInputs(job'.tx) \subseteq mapWallet'
        BY <1>p, <2>1, <2>2
    <2> QED
        BY <2>1, <2>2, <2>3, <2>4, <2>5, LocatedStays
<1>6. CASE SyncTx
    <2>1. /\ Located /\ todo = {} /\ boot.at # "scan" /\ job' = Idle /\ job.kind = "sync"
          /\ job.tx \in Tx /\ AddToWalletIfInvolvingMe(job.tx, TRUE)
        BY <1>6 DEF SyncTx, Located, WalletFree, PayInv, SourcesInv
    <2>2. UNCHANGED <<built, spent, best, lost, boot, chain, restored, pool>>
        BY <1>6 DEF SyncTx
    <2>3. FileInv(mapWallet, built, spent, lost, best)
        <3>1. lost \cup todo = lost
            BY <2>1
        <3> QED
            BY <1>f, <2>1, <3>1
    <2>4. /\ mapWallet \subseteq mapWallet' /\ Noted(job.tx, mapWallet')
          /\ FileInv(mapWallet', built, spent, lost \cup todo', best)
        BY <1>p, <2>1, <2>3, SyncFile
    <2>5. \A x \in pool' : Noted(x, mapWallet')
        BY <1>p, <2>1, <2>2, <2>4, NotedGrows
    <2> QED
        BY <1>0, <2>1, <2>2, <2>4, <2>5, LocatedStays
<1>7. ASSUME NEW n \in Len(Genesis) .. Len(chain)
      PROVE  ToSet(SubSeq(chain, 1, n)) \subseteq ToSet(chain)
    <2>1. Len(Genesis) \in Nat
        BY WalletAssumption
    <2>2. n \in 0 .. Len(chain)
        BY <1>0, <2>1
    <2> QED
        BY <1>0, <2>2, OrderedPrefix
<1>8. ASSUME NEW n \in Len(Genesis) .. Len(chain), NEW t \in Tx, ConnectBlock(t, n)
      PROVE  LocatedInv'
    <2>1. /\ Located /\ todo = {} /\ boot.at # "scan" /\ job = Idle
          /\ AddToWalletIfInvolvingMe(t, TRUE) /\ job'.kind = "block" /\ job'.tx = t
          /\ In[t] \subseteq ToSet(chain)
        BY <1>7, <1>8 DEF ConnectBlock, Located, WalletFree
    <2>2. UNCHANGED <<built, spent, best, lost, boot, chain, restored, pool>>
        BY <1>8 DEF ConnectBlock
    <2>3. FileInv(mapWallet, built, spent, lost, best)
        <3>1. lost \cup todo = lost
            BY <2>1
        <3> QED
            BY <1>f, <2>1, <3>1
    <2>4. MyInputs(t) \subseteq mapWallet
        BY <1>c, <2>1 DEF MyInputs, Noted
    <2>5. /\ mapWallet \subseteq mapWallet' /\ Noted(t, mapWallet')
          /\ MyInputs(t) \subseteq spent \cup todo'
          /\ FileInv(mapWallet', built, spent, lost \cup todo', best)
        BY <2>1, <2>3, <2>4, SyncFile
    <2>6. \A x \in pool' : Noted(x, mapWallet')
        BY <1>0, <1>p, <2>1, <2>2, <2>5, NotedGrows
    <2> QED
        BY <2>1, <2>2, <2>5, <2>6, LocatedStays
<1>9. ASSUME NEW n \in Len(Genesis) .. Len(chain), ConnectEmptyBranch(n) PROVE LocatedInv'
    <2>1. /\ Located /\ todo = {} /\ boot.at # "scan" /\ job = Idle
          /\ job'.kind = "block" /\ job'.tx = None
        BY <1>9 DEF ConnectEmptyBranch, Located, WalletFree
    <2>2. UNCHANGED <<mapWallet, built, spent, best, lost, todo, boot, chain, restored, pool>>
        BY <1>9 DEF ConnectEmptyBranch, walletFile
    <2>3. FileInv(mapWallet', built', spent', lost' \cup todo', best')
        BY <1>f, <2>1, <2>2
    <2>4. \A x \in pool' : Noted(x, mapWallet')
        BY <1>0, <1>p, <2>1, <2>2
    <2> QED
        BY <2>1, <2>2, <2>3, <2>4, LocatedStays

<1>10. CASE CommitChain
    <2>1. /\ Located /\ todo = {} /\ boot.at # "scan" /\ job.kind = "block"
          /\ job.base \in Seq(Tx) /\ ToSet(job.base) \subseteq ToSet(chain)
          /\ job'.kind = "locator"
        BY <1>0, <1>10 DEF CommitChain, Located, JobInv, JobType
    <2>2. UNCHANGED <<mapWallet, built, spent, best, lost, todo, boot, restored>>
        BY <1>10 DEF CommitChain, walletFile
    <2>3. chain' \in Seq(Tx) /\ \A x \in ToSet(chain') : x \in ToSet(job.base) \/ (x = job.tx /\ x # None)
        <3>1. CASE job.tx = None
            BY <1>10, <2>1, <3>1 DEF CommitChain
        <3>2. CASE job.tx # None
            <4>1. job.tx \in Tx /\ In[job.tx] \subseteq ToSet(job.base) /\ Ordered(job.base)
                BY <1>0, <2>1, <3>2 DEF JobInv, JobType
            <4>2. chain' = Append(job.base, job.tx)
                BY <1>10, <3>2 DEF CommitChain
            <4> QED
                BY <2>1, <3>2, <4>1, <4>2, OrderedAppend
        <3> QED
            BY <3>1, <3>2
    <2>4. \A x \in ToSet(chain') : Noted(x, mapWallet) /\ MyInputs(x) \subseteq spent
        BY <1>c, <1>p, <2>1, <2>3
    <2>5. Len(chain') \in Nat /\ \A i \in 1 .. Len(chain') : chain'[i] \in ToSet(chain')
        BY <2>3, Elements
    <2>6. Scanned' = Len(chain') /\ Pending' = {} /\ boot'.at # "scan"
        BY <2>1, <2>2, <2>5 DEF Scanned, Pending
    <2>7. \A i \in 1 .. Scanned' :
              Noted(chain'[i], mapWallet') /\ MyInputs(chain'[i]) \subseteq spent' \cup Pending'
        BY <2>2, <2>4, <2>5, <2>6
    <2>8. \A x \in pool' : Noted(x, mapWallet')
        <3>1. \A x \in pool' : x \in pool \/ x \in ToSet(chain)
            BY <1>10 DEF CommitChain
        <3>2. job.kind # "sync"
            BY <2>1
        <3> QED
            BY <1>c, <1>p, <2>1, <2>2, <3>1, <3>2
    <2>9. FileInv(mapWallet', built', spent', lost' \cup todo', best')
        BY <1>f, <2>1, <2>2
    <2>10. boot'.at = "rescan" =>
            \A k \in 1 .. Len(boot'.list) :
                Noted(boot'.list[k], mapWallet') /\ MyInputs(boot'.list[k]) \subseteq mapWallet'
        BY <2>1, <2>2 DEF LocatedInv
    <2>11. restored' = "located" => best' # None
        BY <2>1, <2>2 DEF LocatedInv
    <2>12. job'.kind \notin {"tx", "sync", "block"}
        BY <2>1
    <2> QED
        BY <2>6, <2>7, <2>8, <2>9, <2>10, <2>11, <2>12 DEF LocatedInv
<1>11. CASE WriteBestBlock
    <2>1. Located /\ boot.at # "scan" /\ job' = Idle /\ best' \in {best, chain} /\ job.kind = "locator"
        BY <1>11 DEF WriteBestBlock, Located, JobInv
    <2>2. UNCHANGED <<mapWallet, built, spent, lost, todo, boot, chain, restored, pool>>
        BY <1>11 DEF WriteBestBlock
    <2>3. FileInv(mapWallet', built', spent', lost' \cup todo', best')
        BY <1>c, <1>f, <2>1, <2>2 DEF FileInv
    <2>4. \A x \in pool' : Noted(x, mapWallet')
        BY <1>p, <2>1, <2>2
    <2>5. CASE best' = best
        BY <1>0, <2>1, <2>2, <2>3, <2>4, <2>5, LocatedStays
    <2>6. CASE best' = chain
        <3>1. Scanned' = Scanned /\ Scanned = Len(chain) /\ Pending' = {} /\ boot'.at # "scan"
            BY <1>0, <2>1, <2>2 DEF Scanned, Pending
        <3>2. \A i \in 1 .. Scanned' :
                Noted(chain'[i], mapWallet') /\ MyInputs(chain'[i]) \subseteq spent' \cup Pending'
            BY <1>c, <2>1, <2>2, <3>1
        <3>3. boot'.at = "rescan" =>
                \A k \in 1 .. Len(boot'.list) :
                    Noted(boot'.list[k], mapWallet') /\ MyInputs(boot'.list[k]) \subseteq mapWallet'
            BY <2>1, <2>2 DEF LocatedInv
        <3>4. restored' = "located" => best' # None
            BY <1>0, <2>6, WalletAssumption
        <3>5. job'.kind = "idle"
            BY <1>0, <2>1
        <3> QED
            BY <2>3, <2>4, <3>1, <3>2, <3>3, <3>4, <3>5 DEF LocatedInv
    <2> QED
        BY <2>1, <2>5, <2>6
<1>12. CASE BackupWallet
    <2>1. UNCHANGED <<mapWallet, built, spent, best, lost, todo, boot, chain, restored, pool, job>>
        BY <1>12 DEF BackupWallet, walletFile
    <2> QED
        BY <2>1 DEF LocatedInv, Located, Scanned, Pending
<1>13. CASE Crash
    <2>1. /\ Located /\ UNCHANGED <<mapWallet, built, spent, best, chain, restored>>
          /\ pool' = {} /\ job' = Idle /\ todo' = {} /\ lost' = lost \cup todo
          /\ boot' \in Boot(best)
        BY <1>13 DEF Crash, Located
    <2>2. lost' \cup todo' = lost \cup todo
        BY <2>1
    <2>3. FileInv(mapWallet', built', spent', lost' \cup todo', best')
        BY <1>f, <2>1, <2>2
    <2>4. best' \in Seq(Tx) \cup {None} /\ boot' \in Boot(best')
        BY <2>1 DEF TypeOK
    <2>5. restored' = "located" => best' # None
        BY <2>1 DEF LocatedInv
    <2>6. ASSUME best' = None, NEW i \in 1 .. Len(chain)
          PROVE  Noted(chain[i], mapWallet') /\ MyInputs(chain[i]) \subseteq spent'
        <3>1. CASE boot.at = "scan"
            <4>1. Scanned = Len(chain) /\ Pending = {}
                BY <1>0, <2>1, <2>6, <3>1 DEF LocatedInv, Scanned, Pending
            <4> QED
                BY <2>1, <4>1 DEF LocatedInv
        <3>2. CASE boot.at # "scan"
            BY <1>c, <2>1, <3>2
        <3> QED
            BY <3>1, <3>2
    <2> QED
        BY <1>0, <2>1, <2>3, <2>4, <2>5, <2>6, LocatedBoots
<1>14. CASE Restore
    <2>1. /\ restored' = "located" /\ backup # None /\ backup.best # None
          /\ mapWallet' = backup.mapWallet /\ built' = backup.built /\ spent' = backup.spent
          /\ lost' = backup.lost /\ best' = backup.best
          /\ pool' = {} /\ job' = Idle /\ todo' = {} /\ boot' \in Boot(backup.best) /\ chain' = chain
        BY <1>14 DEF Restore, Located
    <2>2. lost' \cup todo' = backup.lost
        BY <2>1
    <2>3. FileInv(mapWallet', built', spent', lost' \cup todo', best')
        BY <2>1, <2>2 DEF BackupInv
    <2>4. best' \in Seq(Tx) \cup {None} /\ boot' \in Boot(best')
        BY <2>1 DEF TypeOK, Files
    <2> QED
        BY <1>0, <2>1, <2>3, <2>4, LocatedBoots
<1>15. CASE ScanTx
    <2>1. /\ Located /\ todo = {} /\ boot.list # <<>> /\ boot.at \in {"scan", "rescan"}
          /\ AddToWalletIfInvolvingMe(Head(boot.list), boot.at = "scan")
          /\ boot'.at = boot.at /\ boot'.list = Tail(boot.list)
        BY <1>0, <1>15 DEF ScanTx, Located, BootType
    <2>2. UNCHANGED <<built, spent, best, lost, chain, restored, pool, job>>
        BY <1>15 DEF ScanTx
    <2>3. /\ boot.list \in Seq(Tx) /\ Len(boot.list) \in Nat /\ Len(boot.list) > 0
          /\ Head(boot.list) = boot.list[1] /\ Head(boot.list) \in Tx
          /\ Len(Tail(boot.list)) = Len(boot.list) - 1
          /\ \A k \in 1 .. Len(Tail(boot.list)) :
                Tail(boot.list)[k] = boot.list[k + 1] /\ k + 1 \in 1 .. Len(boot.list)
        <3>1. boot.list \in Seq(Tx)
            BY <1>0 DEF BootType
        <3> QED
            BY <2>1, <3>1
    <2>4. FileInv(mapWallet, built, spent, lost, best)
        <3>1. lost \cup todo = lost
            BY <2>1
        <3> QED
            BY <1>f, <2>1, <3>1
    <2>5. CASE boot.at = "scan"
        <3> DEFINE t == Head(boot.list)
        <3>1. /\ Len(boot.list) <= Len(chain) /\ Scanned = Len(chain) - Len(boot.list)
              /\ \A k \in 1 .. Len(boot.list) : boot.list[k] = chain[Scanned + k]
              /\ best # None /\ spent \cup Pending = spent
              /\ \A i \in 1 .. Scanned :
                    Noted(chain[i], mapWallet) /\ MyInputs(chain[i]) \subseteq spent \cup Pending
            BY <2>1, <2>5 DEF LocatedInv, Scanned, Pending
        <3>2. /\ Scanned \in Nat /\ Scanned + 1 \in 1 .. Len(chain) /\ t = chain[Scanned + 1]
              /\ 1 \in 1 .. Len(boot.list)
            <4>1. Scanned \in Nat /\ Scanned + 1 \in 1 .. Len(chain) /\ 1 \in 1 .. Len(boot.list)
                <5> DEFINE a == Scanned  b == Len(boot.list)  c == Len(chain)
                <5>1. b \in Nat /\ b > 0 /\ c \in Nat /\ b <= c /\ a = c - b
                    BY <1>0, <2>3, <3>1
                <5> HIDE DEF a, b, c
                <5>2. a \in Nat /\ a + 1 \in 1 .. c /\ 1 \in 1 .. b
                    BY <5>1
                <5> QED
                    BY <5>2 DEF a, b, c
            <4>2. boot.list[1] = chain[Scanned + 1]
                BY <3>1, <4>1
            <4> QED
                BY <2>3, <4>1, <4>2
        <3>3. MyInputs(t) \subseteq mapWallet
            <4>1. ASSUME NEW o \in MyInputs(t) PROVE o \in mapWallet
                <5>1. o \in In[chain[Scanned + 1]] /\ o \in Mine
                    BY <3>2, <4>1 DEF MyInputs
                <5>2. PICK j \in 1 .. (Scanned + 1) - 1 : chain[j] = o
                    BY <1>0, <3>2, <5>1, OrderedInputs
                <5>3. j \in 1 .. Scanned
                    BY <3>2
                <5> QED
                    BY <3>1, <5>1, <5>2, <5>3 DEF Noted
            <4> QED
                BY <4>1
        <3>4. AddToWalletIfInvolvingMe(t, TRUE)
            BY <2>1, <2>5 DEF AddToWalletIfInvolvingMe
        <3>5. /\ mapWallet \subseteq mapWallet' /\ Noted(t, mapWallet')
              /\ MyInputs(t) \subseteq spent \cup todo'
              /\ FileInv(mapWallet', built, spent, lost \cup todo', best)
            BY <2>1, <2>3, <2>4, <3>3, <3>4, SyncFile
        <3>6. Scanned' = Scanned + 1 /\ Pending' = todo'
            <4>1. Scanned' = Len(chain) - Len(boot'.list) /\ Pending' = todo'
                BY <2>1, <2>2, <2>5 DEF Scanned, Pending
            <4>2. Len(boot'.list) = Len(boot.list) - 1
                BY <2>1, <2>3
            <4>3. Scanned = Len(chain) - Len(boot.list)
                BY <3>1
            <4> HIDE DEF t
            <4>4. Len(chain) - (Len(boot.list) - 1) = Len(chain) - Len(boot.list) + 1
                BY <1>0, <2>3
            <4> QED
                BY <4>1, <4>2, <4>3, <4>4
        <3>7. ASSUME NEW i \in 1 .. Scanned'
              PROVE  Noted(chain[i], mapWallet') /\ MyInputs(chain[i]) \subseteq spent' \cup Pending'
            <4>1. CASE i = Scanned + 1
                BY <2>2, <3>2, <3>5, <3>6, <4>1
            <4>2. CASE i # Scanned + 1
                <5>1. i \in 1 .. Scanned
                    BY <3>2, <3>6, <4>2
                <5>2. Noted(chain[i], mapWallet) /\ MyInputs(chain[i]) \subseteq spent
                    BY <3>1, <5>1
                <5> QED
                    BY <2>2, <3>5, <5>2, NotedGrows
            <4> QED
                BY <4>1, <4>2
        <3>8. Len(boot'.list) <= Len(chain)
              /\ \A k \in 1 .. Len(boot'.list) : boot'.list[k] = chain[Scanned' + k]
            <4>1. Len(boot'.list) <= Len(chain)
                BY <1>0, <2>1, <2>3, <3>1
            <4>2. ASSUME NEW k \in 1 .. Len(boot'.list) PROVE boot'.list[k] = chain[Scanned' + k]
                <5>1. boot'.list[k] = boot.list[k + 1] /\ k + 1 \in 1 .. Len(boot.list)
                    BY <2>1, <2>3
                <5>2. boot.list[k + 1] = chain[Scanned + (k + 1)]
                    BY <3>1, <5>1
                <5>3. Scanned + (k + 1) = Scanned' + k
                    BY <2>1, <2>3, <3>2, <3>6
                <5> QED
                    BY <5>1, <5>2, <5>3
            <4> QED
                BY <4>1, <4>2
        <3>9. job'.kind = "idle"
            BY <2>2, <2>5 DEF JobInv
        <3>10. \A x \in pool' : Noted(x, mapWallet')
            BY <1>p, <2>1, <2>2, <3>5, <3>9, NotedGrows
        <3>11. best' # None /\ boot'.at # "rescan" /\ boot'.at = "scan"
            BY <2>1, <2>2, <2>5, <3>1
        <3>12. FileInv(mapWallet', built', spent', lost' \cup todo', best')
            BY <2>2, <3>5
        <3> HIDE DEF t
        <3> QED
            BY <2>2, <3>7, <3>8, <3>9, <3>10, <3>11, <3>12 DEF LocatedInv
    <2>6. CASE boot.at = "rescan"
        <3>1. 1 \in 1 .. Len(boot.list)
            BY <2>3
        <3>2. \A k \in 1 .. Len(boot.list) :
                Noted(boot.list[k], mapWallet) /\ MyInputs(boot.list[k]) \subseteq mapWallet
            BY <2>1, <2>6 DEF LocatedInv
        <3>3. AddToWalletIfInvolvingMe(Head(boot.list), FALSE)
            BY <2>1, <2>6 DEF AddToWalletIfInvolvingMe
        <3>4. mapWallet' = mapWallet /\ todo' = {}
            BY <2>1, <2>3, <3>1, <3>2, <3>3, SyncAgain
        <3>5. \A k \in 1 .. Len(boot'.list) :
                Noted(boot'.list[k], mapWallet) /\ MyInputs(boot'.list[k]) \subseteq mapWallet
            BY <2>1, <2>3, <3>2
        <3>6. FileInv(mapWallet', built', spent', lost' \cup todo', best')
            BY <1>f, <2>1, <2>2, <3>4
        <3>7. boot.at # "scan" /\ boot'.at # "scan"
            BY <2>1, <2>6
        <3>8. /\ \A x \in pool' : Noted(x, mapWallet') \/ (job'.kind = "sync" /\ x = job'.tx)
              /\ job'.kind \in {"tx", "sync"} => MyInputs(job'.tx) \subseteq mapWallet'
              /\ job'.kind = "block" /\ job'.tx # None =>
                    Noted(job'.tx, mapWallet') /\ MyInputs(job'.tx) \subseteq spent' \cup todo'
            BY <1>p, <2>1, <2>2, <3>4
        <3> QED
            BY <2>1, <2>2, <3>4, <3>5, <3>6, <3>7, <3>8, LocatedStays
    <2> QED
        BY <2>1, <2>5, <2>6
<1>16. CASE StartThreads
    <2>1. /\ Located /\ boot.at = "scan" /\ todo = {} /\ boot.list = <<>> /\ boot'.at = "ready"
        BY <1>0, <1>16 DEF StartThreads, Located, BootType
    <2>2. UNCHANGED <<mapWallet, built, spent, best, lost, todo, chain, restored, pool, job>>
        BY <1>16 DEF StartThreads, walletFile
    <2>3. Scanned' = Len(chain) /\ Scanned = Len(chain) /\ Pending' = {} /\ Pending = {}
        BY <1>0, <2>1, <2>2 DEF Scanned, Pending
    <2>4. \A i \in 1 .. Scanned' :
            Noted(chain'[i], mapWallet') /\ MyInputs(chain'[i]) \subseteq spent' \cup Pending'
        BY <2>1, <2>2, <2>3 DEF LocatedInv
    <2>5. FileInv(mapWallet', built', spent', lost' \cup todo', best')
        BY <1>f, <2>1, <2>2
    <2>6. restored' = "located" => best' # None
        BY <2>1, <2>2 DEF LocatedInv
    <2>7. /\ \A x \in pool' : Noted(x, mapWallet') \/ (job'.kind = "sync" /\ x = job'.tx)
          /\ job'.kind = "idle"
        BY <1>p, <2>1, <2>2 DEF JobInv
    <2>8. boot'.at # "scan" /\ boot'.at # "rescan"
        BY <2>1
    <2> QED
        BY <2>4, <2>5, <2>6, <2>7, <2>8 DEF LocatedInv
<1> DEFINE Same == UNCHANGED <<mapWallet, built, best, lost, todo, chain, job>>
<1>s. ASSUME Same, Located, restored' = restored, boot.at # "scan", boot'.at # "scan",
             spent \subseteq spent',
             \A x \in pool' : Noted(x, mapWallet) \/ (job.kind = "sync" /\ x = job.tx),
             boot'.at = "rescan" =>
                \A k \in 1 .. Len(boot'.list) :
                   Noted(boot'.list[k], mapWallet) /\ MyInputs(boot'.list[k]) \subseteq mapWallet
      PROVE  LocatedInv'
    <2>1. spent \cup (lost \cup todo) \subseteq spent' \cup (lost' \cup todo')
        BY <1>s
    <2>2. FileInv(mapWallet', built', spent', lost' \cup todo', best')
        BY <1>f, <1>s, <2>1, FileGrows
    <2>3. /\ \A x \in pool' : Noted(x, mapWallet') \/ (job'.kind = "sync" /\ x = job'.tx)
          /\ job'.kind \in {"tx", "sync"} => MyInputs(job'.tx) \subseteq mapWallet'
          /\ job'.kind = "block" /\ job'.tx # None =>
                Noted(job'.tx, mapWallet') /\ MyInputs(job'.tx) \subseteq spent' \cup todo'
        BY <1>p, <1>s
    <2> QED
        BY <1>s, <2>2, <2>3, LocatedStays
<1>17. CASE ReacceptWalletTransactions
    <2>1. restored' = restored /\ Located /\ boot'.at = "reaccept" /\ boot.at = "ready"
        BY <1>17 DEF ReacceptWalletTransactions, Located
    <2>2. Same /\ spent' = spent /\ pool' = pool
        BY <1>17 DEF ReacceptWalletTransactions, walletFile
    <2> HIDE DEF Same
    <2> QED
        BY <1>p, <1>s, <2>1, <2>2
<1>18. ASSUME NEW t \in Tx, Reaccept(t) PROVE LocatedInv'
    <2>1. /\ restored' = restored /\ Located /\ boot'.at = "reaccept" /\ boot.at = "reaccept"
          /\ spent \subseteq spent' /\ t \in mapWallet /\ Same
        BY <1>0, <1>18 DEF Reaccept, Located, JobInv, BootType
    <2>2. \A x \in pool' : x \in pool \/ x = t \/ (t \in built /\ x \in Ancestors(t))
        BY <1>18 DEF Reaccept, AcceptWalletTransaction
    <2>3. Noted(t, mapWallet) /\ (t \in built => \A u \in Ancestors(t) : Noted(u, mapWallet))
        BY <1>f, <2>1 DEF Noted, FileInv
    <2>4. \A x \in pool' : Noted(x, mapWallet) \/ (job.kind = "sync" /\ x = job.tx)
        BY <1>p, <2>1, <2>2, <2>3
    <2> HIDE DEF Same
    <2> QED
        BY <1>s, <2>1, <2>4
<1>19. CASE RoundDone
    <2>1. /\ restored' = restored /\ Located /\ boot'.at \in {"rescan", "up"} /\ boot.at = "reaccept"
          /\ boot'.at = "rescan" => boot'.list = chain
        BY <1>0, <1>19 DEF RoundDone, Located, BootType
    <2>2. Same /\ spent' = spent /\ pool' = pool
        BY <1>19 DEF RoundDone, walletFile
    <2>3. \A i \in 1 .. Len(chain) : Noted(chain[i], mapWallet) /\ MyInputs(chain[i]) \subseteq mapWallet
        BY <1>0, <1>c, <2>1
    <2> HIDE DEF Same
    <2> QED
        BY <1>p, <1>s, <2>1, <2>2, <2>3
<1>20. CASE ScanDone
    <2>1. restored' = restored /\ Located /\ boot'.at \in {"ready", "up"} /\ boot.at = "rescan"
        BY <1>0, <1>20 DEF ScanDone, Located, BootType
    <2>2. Same /\ spent' = spent /\ pool' = pool
        BY <1>20 DEF ScanDone, walletFile
    <2> HIDE DEF Same
    <2> QED
        BY <1>p, <1>s, <2>1, <2>2
<1>21. CASE UNCHANGED vars
    BY <1>21 DEF vars, LocatedInv, Located, Scanned, Pending
<1> QED
    BY <1>1, <1>2, <1>3, <1>4, <1>5, <1>6, <1>8, <1>9, <1>10, <1>11, <1>12,
       <1>13, <1>14, <1>15, <1>16, <1>17, <1>18, <1>19, <1>20, <1>21 DEF Next

-----------------------------------------------------------------------------
(* Wallets put back without a locator *)

\* Nothing in the chain spends a transaction that is not in it.
LEMMA Unspent ==
    ASSUME NEW s \in Seq(Tx), Ordered(s), NEW o, o \notin ToSet(s)
    PROVE  \A x \in ToSet(s) : o \notin In[x]
BY OrderedInputs

LEMMA NextBare == PayInv /\ TypeOK /\ JobInv /\ BareInv /\ [Next]_vars => BareInv'
<1> SUFFICES ASSUME PayInv, TypeOK, JobInv, BareInv, [Next]_vars, restored' = "bare"
             PROVE  BareInv'
    BY DEF BareInv
<1>0. /\ job \in JobType /\ boot \in BootType /\ chain \in Seq(Tx) /\ Ordered(chain)
      /\ Idle.kind = "idle" /\ Up.at = "up" /\ Up.again = FALSE
      /\ None \notin Tx
    BY RecordsAre, IdleIs, UpIs, WalletAssumption DEF TypeOK, JobInv
<1>b. restored = "bare" =>
          /\ boot.at = "up" /\ job.kind # "block" => Flagged(ToSet(chain), spent \cup todo)
          /\ boot.at = "up" /\ job.kind = "block" =>
                Flagged(ToSet(job.base) \cup ({job.tx} \ {None}), spent \cup todo)
          /\ boot.at \in {"reaccept", "rescan"} => job.kind # "block"
          /\ boot.at = "reaccept" => Flagged(ToSet(chain), spent \cup boot.visit)
          /\ boot.at = "rescan" /\ ~boot.again => Flagged(ToSet(chain), spent)
    BY DEF BareInv
<1>1. CASE Restore
    <2>1. boot'.at = "scan"
        <3>1. backup.best \in Seq(Tx) \cup {None} /\ boot' \in Boot(backup.best)
            BY <1>1 DEF Restore, TypeOK, Files
        <3> QED
            BY <1>0, <3>1, BootPrefix
    <2> QED
        BY <2>1 DEF BareInv
<1>2. CASE Crash
    <2>1. boot'.at = "scan"
        BY <1>0, <1>2, BootPrefix DEF Crash, TypeOK
    <2> QED
        BY <2>1 DEF BareInv
<1>3. CASE StartThreads
    <2>1. boot'.at = "ready"
        BY <1>0, <1>3 DEF StartThreads, BootType
    <2> QED
        BY <2>1 DEF BareInv
<1>4. CASE ReacceptWalletTransactions
    <2>1. /\ boot'.at = "reaccept" /\ boot'.visit = mapWallet /\ job.kind # "block"
          /\ UNCHANGED <<chain, mapWallet, spent, job>>
        BY <1>4 DEF ReacceptWalletTransactions, walletFile
    <2>2. Flagged(ToSet(chain), spent \cup boot.visit)'
        BY <2>1 DEF Flagged
    <2> QED
        BY <2>1, <2>2 DEF BareInv
<1>5. ASSUME NEW o \in Tx, MarkSpent(o) PROVE BareInv'
    <2>1. /\ restored = "bare" /\ spent' \cup todo' = spent \cup todo /\ spent \subseteq spent'
          /\ UNCHANGED <<chain, mapWallet, job, boot>>
        BY <1>5 DEF MarkSpent
    <2> QED
        BY <1>b, <2>1 DEF BareInv, Flagged
<1>6. ASSUME NEW t \in Tx, CommitTransaction(t) PROVE BareInv'
    <2>1. /\ restored = "bare" /\ job = Idle /\ boot.at \in {"ready", "up"} /\ t \in Own \ made
          /\ mapWallet' = mapWallet \cup {t} /\ todo = {} /\ job'.kind = "commit"
          /\ UNCHANGED <<chain, spent, boot>>
        BY <1>6 DEF CommitTransaction, WalletFree
    <2>2. t \notin ToSet(chain)
        BY <1>0, <2>1, Elements DEF PayInv, SourcesInv, Signed
    <2>3. \A o \in mapWallet' \ mapWallet : \A x \in ToSet(chain) : o \notin In[x]
        BY <1>0, <2>1, <2>2, Unspent
    <2>4. boot.at = "up" => Flagged(ToSet(chain), spent \cup todo)'
        <3>1. spent \cup todo \subseteq spent' \cup todo' /\ chain' = chain
            BY <2>1
        <3>2. boot.at = "up" => Flagged(ToSet(chain), spent \cup todo)
            BY <1>0, <1>b, <2>1
        <3> QED
            BY <2>3, <3>1, <3>2 DEF Flagged, MyInputs
    <2> QED
        BY <2>1, <2>4 DEF BareInv
<1>7. CASE SyncTx
    <2>1. /\ restored = "bare" /\ job.kind = "sync" /\ boot.at \in {"ready", "up"}
          /\ mapWallet' \subseteq mapWallet \cup {job.tx} /\ todo = {} /\ job' = Idle
          /\ UNCHANGED <<chain, spent, boot>>
        BY <1>7 DEF SyncTx, WalletFree, AddToWalletIfInvolvingMe
    <2>2. job.tx \notin ToSet(chain)
        BY <2>1 DEF JobInv
    <2>3. \A o \in mapWallet' \ mapWallet : \A x \in ToSet(chain) : o \notin In[x]
        BY <1>0, <2>1, <2>2, Unspent
    <2>4. boot.at = "up" => Flagged(ToSet(chain), spent \cup todo)'
        <3>1. spent \cup todo \subseteq spent' \cup todo' /\ chain' = chain
            BY <2>1
        <3>2. boot.at = "up" => Flagged(ToSet(chain), spent \cup todo)
            BY <1>b, <2>1
        <3> QED
            BY <2>3, <3>1, <3>2 DEF Flagged, MyInputs
    <2> QED
        BY <1>0, <2>1, <2>4 DEF BareInv
<1>8. ASSUME NEW n \in Len(Genesis) .. Len(chain) PROVE
          /\ SubSeq(chain, 1, n) \in Seq(Tx) /\ Ordered(SubSeq(chain, 1, n))
          /\ ToSet(SubSeq(chain, 1, n)) \subseteq ToSet(chain)
    <2>1. Len(Genesis) \in Nat
        BY WalletAssumption
    <2>2. n \in 0 .. Len(chain)
        BY <1>0, <2>1
    <2> QED
        BY <1>0, <2>2, OrderedPrefix
<1>9. ASSUME NEW n \in Len(Genesis) .. Len(chain), NEW t \in Tx, ConnectBlock(t, n)
      PROVE  BareInv'
    <2> DEFINE base == SubSeq(chain, 1, n)
    <2>1. base \in Seq(Tx) /\ Ordered(base) /\ ToSet(base) \subseteq ToSet(chain)
        BY <1>8
    <2> HIDE DEF base
    <2>2. /\ restored = "bare" /\ job = Idle /\ boot.at \in {"ready", "up"}
          /\ mapWallet' \subseteq mapWallet \cup {t} /\ todo = {}
          /\ todo' = (In[t] \cap mapWallet \cap Mine) \ spent
          /\ job'.kind = "block" /\ job'.tx = t /\ job'.base = base
          /\ t \notin ToSet(base) /\ In[t] \subseteq ToSet(base)
          /\ UNCHANGED <<chain, spent, boot>>
        BY <1>9 DEF ConnectBlock, WalletFree, AddToWalletIfInvolvingMe, Unmarked, base
    <2>3. \A x \in ToSet(base) \cup {t} : t \notin In[x]
        BY <2>1, <2>2, Unspent
    <2>4. boot.at = "up" => Flagged(ToSet(chain), spent)
        <3>1. spent \cup todo = spent
            BY <2>2
        <3> QED
            BY <1>0, <1>b, <2>2, <3>1
    <2>5. ASSUME boot.at = "up", NEW x \in ToSet(base) \cup {t}
          PROVE  MyInputs(x) \cap mapWallet' \subseteq spent \cup todo'
        <3>1. CASE x = t
            BY <2>2, <2>3, <3>1 DEF MyInputs
        <3>2. CASE x \in ToSet(base)
            <4>1. MyInputs(x) \cap mapWallet \subseteq spent
                BY <2>1, <2>4, <2>5, <3>2 DEF Flagged
            <4> QED
                BY <2>2, <2>3, <4>1 DEF MyInputs
        <3> QED
            BY <3>1, <3>2
    <2>6. boot.at = "up" => Flagged(ToSet(job.base) \cup ({job.tx} \ {None}), spent \cup todo)'
        BY <2>2, <2>5 DEF Flagged
    <2> QED
        BY <2>2, <2>6 DEF BareInv
<1>10. ASSUME NEW n \in Len(Genesis) .. Len(chain), ConnectEmptyBranch(n) PROVE BareInv'
    <2> DEFINE base == SubSeq(chain, 1, n)
    <2>1. ToSet(base) \subseteq ToSet(chain)
        BY <1>8
    <2> HIDE DEF base
    <2>2. /\ restored = "bare" /\ job = Idle /\ boot.at \in {"ready", "up"}
          /\ job'.kind = "block" /\ job'.tx = None /\ job'.base = base
          /\ UNCHANGED <<chain, mapWallet, spent, todo, boot>>
        BY <1>10 DEF ConnectEmptyBranch, WalletFree, walletFile, base
    <2>3. boot.at = "up" => Flagged(ToSet(chain), spent \cup todo)
        BY <1>0, <1>b, <2>2
    <2>4. boot.at = "up" => Flagged(ToSet(job.base) \cup ({job.tx} \ {None}), spent \cup todo)'
        BY <2>1, <2>2, <2>3 DEF Flagged
    <2> QED
        BY <2>2, <2>4 DEF BareInv
<1>11. CASE CommitChain
    <2>1. /\ restored = "bare" /\ job.kind = "block" /\ job.base \in Seq(Tx)
          /\ job'.kind = "locator"
          /\ UNCHANGED <<mapWallet, spent, todo, boot>>
        BY <1>0, <1>11 DEF CommitChain, walletFile, JobType
    <2>2. ToSet(chain') \subseteq ToSet(job.base) \cup ({job.tx} \ {None})
        <3>1. CASE job.tx = None
            BY <1>11, <3>1 DEF CommitChain
        <3>2. CASE job.tx # None
            <4>1. job.tx \in Tx /\ In[job.tx] \subseteq ToSet(job.base) /\ Ordered(job.base)
                BY <1>0, <2>1, <3>2 DEF JobInv, JobType
            <4>2. chain' = Append(job.base, job.tx)
                BY <1>11, <3>2 DEF CommitChain
            <4>3. ToSet(Append(job.base, job.tx)) = ToSet(job.base) \cup {job.tx}
                BY <2>1, <4>1, OrderedAppend
            <4> QED
                BY <3>2, <4>2, <4>3
        <3> QED
            BY <3>1, <3>2
    <2>3. boot.at = "up" => Flagged(ToSet(chain), spent \cup todo)'
        BY <1>b, <2>1, <2>2 DEF Flagged
    <2>4. boot'.at \notin {"reaccept", "rescan"}
        BY <1>b, <2>1
    <2> QED
        BY <2>1, <2>3, <2>4 DEF BareInv
<1>12. CASE Broadcast \/ (\E t \in Tx : MessageTx(t)) \/ AddUnchecked \/ WriteBestBlock \/ BackupWallet
    <2>1. /\ restored = "bare" /\ UNCHANGED <<chain, mapWallet, spent, todo, boot>>
          /\ job.kind # "block" /\ job'.kind # "block"
        <3>1. CASE Broadcast
            BY <1>0, <3>1 DEF Broadcast
        <3>2. ASSUME NEW t \in Tx, MessageTx(t)
              PROVE  /\ restored = "bare" /\ UNCHANGED <<chain, mapWallet, spent, todo, boot>>
                     /\ job.kind # "block" /\ job'.kind # "block"
            BY <1>0, <3>2 DEF MessageTx, walletFile
        <3>3. CASE AddUnchecked
            BY <1>0, <3>3 DEF AddUnchecked, walletFile, JobType
        <3>4. CASE WriteBestBlock
            BY <1>0, <3>4 DEF WriteBestBlock
        <3>5. CASE BackupWallet
            BY <1>0, <3>5 DEF BackupWallet, walletFile
        <3> QED
            BY <1>12, <3>1, <3>2, <3>3, <3>4, <3>5
    <2> QED
        BY <1>b, <2>1 DEF BareInv, Flagged
<1>13. CASE ScanTx
    <2>1. /\ restored = "bare" /\ boot.at \in {"scan", "rescan"} /\ boot'.at = boot.at
          /\ boot'.again = (boot.again \/ (boot.at = "rescan" /\ mapWallet' # mapWallet))
          /\ UNCHANGED <<chain, spent, job>>
        BY <1>0, <1>13 DEF ScanTx, BootType
    <2>2. boot'.at = "rescan" /\ ~boot'.again => boot.at = "rescan" /\ ~boot.again /\ mapWallet' = mapWallet
        BY <2>1
    <2> QED
        BY <1>b, <2>1, <2>2 DEF BareInv, Flagged
<1>14. ASSUME NEW t \in Tx, Reaccept(t) PROVE BareInv'
    <2>1. /\ restored = "bare" /\ boot.at = "reaccept" /\ boot'.at = "reaccept"
          /\ boot'.visit = boot.visit \ {t} /\ spent \subseteq spent'
          /\ UNCHANGED <<chain, mapWallet, job>>
        BY <1>0, <1>14 DEF Reaccept, BootType
    <2>2. ASSUME NEW x \in ToSet(chain), t \in MyInputs(x) PROVE t \in spent'
        <3>1. t \in Mine /\ t \in ToSet(chain) /\ Spends(ToSet(chain), t)
            BY <1>0, <2>2, OrderedInputs DEF MyInputs, Spends
        <3> QED
            BY <1>14, <3>1 DEF Reaccept
    <2>3. Flagged(ToSet(chain), spent \cup boot.visit)
        BY <1>b, <2>1
    <2>4. Flagged(ToSet(chain), spent \cup boot.visit)'
        BY <2>1, <2>2, <2>3 DEF Flagged
    <2> QED
        BY <1>b, <2>1, <2>4 DEF BareInv
<1>15. CASE RoundDone
    <2>1. /\ restored = "bare" /\ boot.at = "reaccept" /\ boot.visit = {}
          /\ boot'.at \in {"rescan", "up"} /\ UNCHANGED <<chain, mapWallet, spent, todo, job>>
        BY <1>0, <1>15 DEF RoundDone, walletFile, BootType
    <2>2. spent \cup boot.visit = spent
        BY <2>1
    <2>3. Flagged(ToSet(chain), spent) /\ job.kind # "block"
        BY <1>b, <2>1, <2>2
    <2> QED
        BY <2>1, <2>3 DEF BareInv, Flagged
<1>16. CASE ScanDone
    <2>1. /\ restored = "bare" /\ boot.at = "rescan"
          /\ boot'.at \in {"ready", "up"} /\ (boot'.at = "up" => ~boot.again)
          /\ UNCHANGED <<chain, mapWallet, spent, todo, job>>
        BY <1>0, <1>16 DEF ScanDone, walletFile, BootType
    <2>2. ~boot.again => Flagged(ToSet(chain), spent)
        BY <1>b, <2>1
    <2>3. job.kind # "block"
        BY <1>b, <2>1
    <2> QED
        BY <2>1, <2>2, <2>3 DEF BareInv, Flagged
<1>17. CASE UNCHANGED vars
    BY <1>17 DEF vars, BareInv, Flagged
<1> QED
    BY <1>1, <1>2, <1>3, <1>4, <1>5, <1>6, <1>7, <1>9, <1>10, <1>11, <1>12,
       <1>13, <1>14, <1>15, <1>16, <1>17 DEF Next

LEMMA NextWInv == WInv /\ [Next]_vars => WInv'
BY NextPays, NextTypes, NextJob, NextBackup, NextLocated, NextBare DEF WInv

LEMMA InitWInv == Init => WInv
BY InitPays, InitTypes, InitJob, InitLocated DEF WInv

\* What is proved of the whole wallet, as one invariant: payments, types, the block
\* or transaction in work, the copy, and what start-up has brought into agreement.
THEOREM Agreement == Spec => []WInv
BY InitWInv, NextWInv, PTL DEF Spec

\* Records and flags keep their types, also when the file is replaced by a copy: only
\* a recorded transaction carries a spent flag or supporting transactions.
THEOREM TypesHold == Spec => []TypeOK
<1>1. WInv => TypeOK
    BY DEF WInv
<1> QED
    BY <1>1, Agreement, PTL

\* After any crash, restored copy and reorganisation, a wallet whose start-up is over
\* offers no coin that the chain spends, nor, unless a crash or a copy without a
\* locator lost the mark, one that the pool spends.
THEOREM MarksSpent == Spec => []SpentIsMarked
<1>1. WInv => ChainSpentIsMarked
    <2> SUFFICES ASSUME WInv, boot.at = "up", todo = {}, restored # "raced",
                        restored = "bare" => job.kind # "block", NEW t \in ToSet(chain)
                 PROVE  In[t] \cap mapWallet \cap Mine \subseteq spent
        BY DEF ChainSpentIsMarked, Settled
    <2>1. restored \in {"no", "located", "bare"}
        BY DEF WInv, TypeOK
    <2>2. CASE Located
        BY <2>2, ChainNoted DEF WInv, MyInputs
    <2>3. CASE restored = "bare"
        <3>1. Flagged(ToSet(chain), spent \cup todo)
            BY <2>3 DEF WInv, BareInv
        <3> QED
            BY <3>1 DEF Flagged, MyInputs
    <2> QED
        BY <2>1, <2>2, <2>3 DEF Located
<1>2. WInv => PoolSpentIsMarked
    <2> SUFFICES ASSUME WInv, todo = {}, job.kind # "sync", Located, NEW t \in pool
                 PROVE  In[t] \cap mapWallet \cap Mine \subseteq spent \cup lost
        BY DEF PoolSpentIsMarked, Settled, Located
    <2>1. Noted(t, mapWallet) /\ FileInv(mapWallet, built, spent, lost \cup todo, best)
        BY DEF WInv, LocatedInv
    <2> QED
        BY <2>1 DEF Noted, FileInv, MyInputs
<1>3. WInv => SpentIsMarked
    BY <1>1, <1>2 DEF SpentIsMarked
<1> QED
    BY <1>3, Agreement, PTL

\* Start-up's scan finds every transaction of the chain that concerns the wallet,
\* whatever it missed: the locator is never ahead of what the records contain.
THEOREM Remembers == Spec => []NothingForgotten
<1>1. WInv => NothingForgotten
    <2> SUFFICES ASSUME WInv, boot.at = "up", Located, NEW t \in ToSet(chain), t \in Mine \/ IsFromMe(t)
                 PROVE  t \in mapWallet
        BY DEF NothingForgotten, Settled, Located
    <2>1. Noted(t, mapWallet)
        BY ChainNoted DEF WInv
    <2> QED
        BY <2>1 DEF Noted, IsFromMe, MyInputs
<1> QED
    BY <1>1, Agreement, PTL

-----------------------------------------------------------------------------
(* Payments and the pool *)

\* The payments of a wallet that was never replaced: all that is known of them
\* was signed here, from coins of the wallet.
PaymentsInv ==
    restored = "no" =>
      /\ mapWallet \cap Own \subseteq made /\ pool \cap Own \subseteq made
      /\ built \subseteq Own
      /\ \A t \in made : In[t] # {} /\ In[t] \subseteq Mine
      /\ \A t \in built : Ancestors(t) \cap Own \subseteq made
      /\ job.kind = "commit" =>
            /\ job.tx \in Own /\ job.tx \notin pool \cup ToSet(chain)
            /\ boot.at \in {"ready", "up"}

\* another copy of the wallet has spent a coin of it
Foreign ==
    \/ \E t \in mapWallet \ Own : IsFromMe(t)
    \/ job.kind = "sync" /\ job.tx \notin Own /\ IsFromMe(job.tx)

\* Every payment that start-up has visited is in the pool or in the chain.
OfferedInv ==
    restored = "no" /\ lost = {} /\ ~Foreign =>
      /\ boot.at = "up" /\ job.kind = "commit" => In[job.tx] \subseteq pool \cup ToSet(chain)
      /\ boot.at \in {"up", "rescan"} =>
            \A t \in mapWallet \cap Own :
                t \in pool \cup ToSet(chain) \/ (job.kind = "commit" /\ t = job.tx)
      /\ boot.at = "reaccept" =>
            (mapWallet \cap Own) \ boot.visit \subseteq pool \cup ToSet(chain)

\* Unless a copy replaces the file, nothing recorded is dropped.
LEMMA RecordsGrow ==
    ASSUME [Next]_vars, restored' = "no"
    PROVE  restored = "no" /\ mapWallet \subseteq mapWallet' /\ lost \subseteq lost' /\ made \subseteq made'
<1>1. ~Restore
    BY DEF Restore
<1>2. CASE Crash
    BY <1>2 DEF Crash
<1>3. CASE ReacceptWalletTransactions
    BY <1>3 DEF ReacceptWalletTransactions, walletFile
<1>4. CASE SyncTx \/ ScanTx \/ \E n \in Len(Genesis) .. Len(chain) : \E t \in Tx : ConnectBlock(t, n)
    BY <1>4 DEF SyncTx, ScanTx, ConnectBlock, AddToWalletIfInvolvingMe
<1>5. CASE ~Crash /\ ~ReacceptWalletTransactions /\ ~SyncTx /\ ~ScanTx
           /\ ~\E n \in Len(Genesis) .. Len(chain) : \E t \in Tx : ConnectBlock(t, n)
    BY <1>1, <1>5 DEF Next, vars, walletFile, MarkSpent, CommitTransaction, Broadcast, MessageTx,
       AddUnchecked, ConnectEmptyBranch, CommitChain, WriteBestBlock, BackupWallet,
       StartThreads, Reaccept, RoundDone, ScanDone
<1> QED
    BY <1>2, <1>3, <1>4, <1>5

LEMMA InitPayments == Init => PaymentsInv /\ OfferedInv /\ CommitAccepted
<1> SUFFICES ASSUME Init PROVE PaymentsInv /\ OfferedInv /\ CommitAccepted
    OBVIOUS
<1>1. /\ mapWallet \cap Own = {} /\ pool = {} /\ built = {} /\ made = {}
      /\ job.kind = "idle" /\ boot.at = "up" /\ refused = FALSE
    BY IdleIs, UpIs, WalletAssumption DEF Init
<1> QED
    BY <1>1 DEF PaymentsInv, OfferedInv, CommitAccepted

LEMMA NextPayments == WInv /\ PaymentsInv /\ [Next]_vars => PaymentsInv'
<1> SUFFICES ASSUME WInv, PaymentsInv, [Next]_vars, restored' = "no" PROVE PaymentsInv'
    BY DEF PaymentsInv
<1>0. /\ restored = "no" /\ mapWallet \subseteq mapWallet' /\ made \subseteq made'
      /\ made \subseteq mapWallet
    BY RecordsGrow DEF WInv, PayInv
<1>1. /\ mapWallet \cap Own \subseteq made /\ pool \cap Own \subseteq made
      /\ built \subseteq Own
      /\ \A t \in made : In[t] # {} /\ In[t] \subseteq Mine
      /\ \A t \in built : Ancestors(t) \cap Own \subseteq made
      /\ job.kind = "commit" =>
            /\ job.tx \in Own /\ job.tx \notin pool \cup ToSet(chain)
            /\ boot.at \in {"ready", "up"}
    BY <1>0 DEF PaymentsInv
<1>2. /\ job \in JobType /\ boot \in BootType /\ chain \in Seq(Tx) /\ Ordered(chain)
      /\ Idle.kind = "idle" /\ built \subseteq mapWallet
    BY RecordsAre, IdleIs DEF WInv, TypeOK, JobInv
<1>3. /\ \A t \in ToSet(chain) : t \in Own => t \in made
      /\ job.tx \in Own => job.tx \in made
    BY <1>2, Elements DEF WInv, PayInv, SourcesInv, Signed
<1>k. ASSUME made' = made, built' = built,
             mapWallet' \cap Own \subseteq made, pool' \cap Own \subseteq made,
             job'.kind = "commit" =>
                job' = job /\ pool' = pool /\ chain' = chain /\ boot'.at = boot.at
      PROVE  PaymentsInv'
    BY <1>1, <1>k DEF PaymentsInv
<1>t. ASSUME NEW t, t \in Own => t \in made, NEW f, AddToWalletIfInvolvingMe(t, f)
      PROVE  mapWallet' \cap Own \subseteq made
    BY <1>1, <1>t DEF AddToWalletIfInvolvingMe
<1>4. ASSUME NEW o \in Tx, MarkSpent(o) PROVE PaymentsInv'
    BY <1>1, <1>4, <1>k DEF MarkSpent
<1>5. ASSUME NEW t \in Tx, CommitTransaction(t) PROVE PaymentsInv'
    <2>1. /\ job.kind = "idle" /\ boot.at \in {"ready", "up"} /\ t \in Own /\ t \notin made
          /\ In[t] # {} /\ made' = made \cup {t} /\ mapWallet' = mapWallet \cup {t}
          /\ built' = built \cup {t} /\ job'.kind = "commit" /\ job'.tx = t
          /\ UNCHANGED <<pool, chain, boot>>
        BY <1>2, <1>5 DEF CommitTransaction, WalletFree
    <2>2. ASSUME NEW o \in In[t]
          PROVE  o \in mapWallet /\ o \in Mine /\ (o \in ToSet(chain) \/ o \in built)
        BY <1>5 DEF CommitTransaction, Available, IsConfirmed
    <2>3. ASSUME NEW u \in Ancestors(t) \cap Own PROVE u \in made
        <3>1. u \in In[t] \/ \E o \in In[t] : u \in Ancestors(o)
            BY AncestorsOf
        <3>2. CASE u \in In[t]
            BY <1>1, <2>2, <3>2
        <3>3. ASSUME NEW o \in In[t], u \in Ancestors(o) PROVE u \in made
            <4>1. CASE o \in ToSet(chain)
                BY <1>2, <1>3, <3>3, <4>1, ChainAncestors
            <4>2. CASE o \in built
                BY <1>1, <3>3, <4>2
            <4> QED
                BY <2>2, <4>1, <4>2
        <3> QED
            BY <3>1, <3>2, <3>3
    <2>4. t \notin pool \cup ToSet(chain)
        BY <1>1, <1>3, <2>1
    <2>5. /\ mapWallet' \cap Own \subseteq made' /\ pool' \cap Own \subseteq made'
          /\ built' \subseteq Own
        BY <1>1, <2>1
    <2>6. \A x \in made' : In[x] # {} /\ In[x] \subseteq Mine
        BY <1>1, <2>1, <2>2
    <2>7. \A x \in built' : Ancestors(x) \cap Own \subseteq made'
        BY <1>1, <2>1, <2>3
    <2> QED
        BY <2>1, <2>4, <2>5, <2>6, <2>7 DEF PaymentsInv
<1>6. CASE Broadcast
    <2>1. pool' \subseteq pool \cup {job.tx} /\ job'.kind = "idle"
        BY <1>2, <1>6 DEF Broadcast
    <2> QED
        BY <1>1, <1>3, <1>6, <1>k, <2>1 DEF Broadcast
<1>7. ASSUME NEW t \in Tx, MessageTx(t) PROVE PaymentsInv'
    <2>1. job'.kind = "tx"
        BY <1>7 DEF MessageTx
    <2> QED
        BY <1>1, <1>7, <1>k, <2>1 DEF MessageTx, walletFile
<1>8. CASE AddUnchecked
    <2>1. job'.kind = "sync"
        BY <1>2, <1>8 DEF AddUnchecked, JobType
    <2> QED
        BY <1>1, <1>3, <1>8, <1>k, <2>1 DEF AddUnchecked, walletFile
<1>9. CASE SyncTx
    <2>1. mapWallet' \cap Own \subseteq made /\ job'.kind = "idle"
        BY <1>2, <1>3, <1>9, <1>t DEF SyncTx
    <2> QED
        BY <1>1, <1>9, <1>k, <2>1 DEF SyncTx
<1>10. ASSUME NEW n \in Len(Genesis) .. Len(chain), NEW t \in Tx, ConnectBlock(t, n)
       PROVE  PaymentsInv'
    <2>1. mapWallet' \cap Own \subseteq made /\ job'.kind = "block"
        BY <1>10, <1>t DEF ConnectBlock, Known
    <2> QED
        BY <1>1, <1>10, <1>k, <2>1 DEF ConnectBlock
<1>11. ASSUME NEW n \in Len(Genesis) .. Len(chain), ConnectEmptyBranch(n) PROVE PaymentsInv'
    <2>1. job'.kind = "block"
        BY <1>11 DEF ConnectEmptyBranch
    <2> QED
        BY <1>1, <1>11, <1>k, <2>1 DEF ConnectEmptyBranch, walletFile
<1>12. CASE CommitChain
    <2>1. job'.kind = "locator" /\ \A x \in pool' : x \in pool \/ x \in ToSet(chain)
        BY <1>2, <1>12 DEF CommitChain, JobType
    <2> QED
        BY <1>1, <1>3, <1>12, <1>k, <2>1 DEF CommitChain, walletFile
<1>13. CASE WriteBestBlock
    BY <1>1, <1>2, <1>13, <1>k DEF WriteBestBlock
<1>14. CASE BackupWallet
    BY <1>1, <1>14, <1>k DEF BackupWallet, walletFile
<1>15. CASE Crash
    BY <1>1, <1>2, <1>15, <1>k DEF Crash
<1>16. CASE ScanTx
    <2>1. mapWallet' \cap Own \subseteq made
        <3>1. Head(boot.list) \in Own => Head(boot.list) \in made
            BY <1>16, SignedTail DEF ScanTx, WInv, PayInv, SourcesInv
        <3> QED
            BY <1>16, <1>t, <3>1 DEF ScanTx
    <2>2. boot'.at = boot.at
        BY <1>2, <1>16 DEF ScanTx, BootType
    <2> QED
        BY <1>1, <1>16, <1>k, <2>1, <2>2 DEF ScanTx
<1>17. CASE StartThreads
    <2>1. job'.kind = "idle"
        BY <1>17 DEF StartThreads, WInv, JobInv
    <2> QED
        BY <1>1, <1>17, <1>k, <2>1 DEF StartThreads, walletFile
<1>18. CASE ReacceptWalletTransactions
    BY <1>1, <1>18, <1>k DEF ReacceptWalletTransactions, walletFile
<1>19. ASSUME NEW t \in Tx, Reaccept(t) PROVE PaymentsInv'
    <2>1. boot.at = "reaccept" /\ t \in mapWallet /\ job' = job
        BY <1>19 DEF Reaccept, WInv, JobInv
    <2>2. \A x \in pool' : x \in pool \/ x = t \/ (t \in built /\ x \in Ancestors(t))
        BY <1>19 DEF Reaccept, AcceptWalletTransaction
    <2>3. pool' \cap Own \subseteq made
        BY <1>1, <2>1, <2>2
    <2> QED
        BY <1>1, <1>19, <1>k, <2>1, <2>3 DEF Reaccept
<1>20. CASE RoundDone
    BY <1>1, <1>20, <1>k DEF RoundDone, walletFile
<1>21. CASE ScanDone
    BY <1>1, <1>21, <1>k DEF ScanDone, walletFile
<1>22. CASE UNCHANGED vars
    BY <1>1, <1>22, <1>k DEF vars
<1>23. ~Restore
    BY DEF Restore
<1> QED
    BY <1>4, <1>5, <1>6, <1>7, <1>8, <1>9, <1>10, <1>11, <1>12, <1>13, <1>14, <1>15,
       <1>16, <1>17, <1>18, <1>19, <1>20, <1>21, <1>22, <1>23 DEF Next

\* No transaction that the pool or the chain has conflicts with a payment.
LEMMA NoConflict ==
    ASSUME WInv, PaymentsInv, restored = "no", lost = {}, ~Foreign, boot.at # "scan", todo = {},
           NEW t \in mapWallet \cap Own, NEW u \in pool \cup ToSet(chain), u # t
    PROVE  In[t] \cap In[u] = {}
<1>1. /\ In[t] \subseteq Mine /\ made \subseteq mapWallet /\ mapWallet \cap Own \subseteq made
      /\ FileInv(mapWallet, built, spent, lost \cup todo, best)
    BY DEF WInv, PayInv, PaymentsInv, LocatedInv, Located
<1>2. \A x, y \in mapWallet \cap Own : x # y => In[x] \cap In[y] = {}
    BY DEF WInv, PayInv, PaysOnce
<1>3. CASE u \in mapWallet
    <2>1. CASE u \in Own
        BY <1>2, <1>3, <2>1
    <2>2. CASE u \notin Own
        <3>1. ~IsFromMe(u) /\ MyInputs(u) \subseteq mapWallet
            BY <1>1, <1>3, <2>2 DEF Foreign, FileInv
        <3> QED
            BY <1>1, <3>1 DEF IsFromMe, MyInputs
    <2> QED
        BY <2>1, <2>2
<1>4. CASE u \notin mapWallet
    <2>1. u \notin Own
        <3>1. u \in ToSet(chain) => (u \in Own => u \in made)
            BY Elements DEF WInv, TypeOK, PayInv, SourcesInv, Signed
        <3> QED
            BY <1>1, <1>4, <3>1 DEF PaymentsInv
    <2>2. Noted(u, mapWallet) \/ (job.kind = "sync" /\ u = job.tx)
        BY ChainNoted DEF WInv, LocatedInv, Located
    <2>3. CASE Noted(u, mapWallet)
        BY <1>1, <1>4, <2>3 DEF Noted, MyInputs
    <2>4. CASE job.kind = "sync" /\ u = job.tx
        <3>1. MyInputs(u) \subseteq mapWallet /\ ~IsFromMe(u)
            BY <2>1, <2>4 DEF WInv, LocatedInv, Located, Foreign
        <3> QED
            BY <1>1, <3>1 DEF IsFromMe, MyInputs
    <2> QED
        BY <2>2, <2>3, <2>4
<1> QED
    BY <1>3, <1>4

\* A payment that is in neither passes the pool's checks.
LEMMA Resubmitted ==
    ASSUME WInv, PaymentsInv, restored = "no", lost = {}, ~Foreign, boot.at # "scan", todo = {},
           NEW t \in mapWallet \cap Own, t \notin pool
    PROVE  Accept(t, FALSE)
<1>1. In[t] # {}
    BY DEF PaymentsInv
<1>2. \A u \in pool : In[t] \cap In[u] = {}
    BY NoConflict
<1> QED
    BY <1>1, <1>2 DEF Accept, Spends

\* Only a crash makes a wallet forget the transaction of another copy.
LEMMA ForeignStays ==
    ASSUME WInv, [Next]_vars, ~Crash, restored' = "no", ~Foreign'
    PROVE  ~Foreign
<1>0. restored = "no" /\ mapWallet \subseteq mapWallet' /\ job \in JobType
    BY RecordsGrow, RecordsAre DEF WInv
<1>1. \A t \in mapWallet \ Own : ~IsFromMe(t)
    BY <1>0 DEF Foreign, IsFromMe
<1>2. ASSUME job.kind = "sync", job.tx \notin Own, IsFromMe(job.tx) PROVE FALSE
    <2>1. CASE SyncTx
        <3>1. job.tx \in mapWallet'
            BY <1>2, <2>1 DEF SyncTx, AddToWalletIfInvolvingMe
        <3> QED
            BY <1>0, <1>2, <3>1 DEF Foreign, IsFromMe
    <2>2. CASE ~SyncTx
        <3>1. ~Restore
            BY DEF Restore
        <3>2. Idle.kind = "idle"
            BY IdleIs
        <3>3. /\ \A t \in Tx : ~CommitTransaction(t) /\ ~MessageTx(t)
              /\ \A n \in Len(Genesis) .. Len(chain) :
                    ~ConnectEmptyBranch(n) /\ \A t \in Tx : ~ConnectBlock(t, n)
            BY <1>2, <3>2 DEF CommitTransaction, MessageTx, ConnectBlock, ConnectEmptyBranch
        <3>4. ~Broadcast /\ ~AddUnchecked /\ ~CommitChain /\ ~WriteBestBlock
            BY <1>2 DEF Broadcast, AddUnchecked, CommitChain, WriteBestBlock
        <3>5. job' = job
            BY <2>2, <3>1, <3>3, <3>4 DEF Next, vars, MarkSpent, BackupWallet, ScanTx,
               StartThreads, ReacceptWalletTransactions, Reaccept, RoundDone, ScanDone
        <3> QED
            BY <1>0, <1>2, <3>5 DEF Foreign, IsFromMe
    <2> QED
        BY <2>1, <2>2
<1> QED
    BY <1>1, <1>2 DEF Foreign

LEMMA NextOffered == WInv /\ PaymentsInv /\ OfferedInv /\ [Next]_vars => OfferedInv'
<1> SUFFICES ASSUME WInv, PaymentsInv, OfferedInv, [Next]_vars,
                    restored' = "no", lost' = {}, ~Foreign'
             PROVE  OfferedInv'
    BY DEF OfferedInv
<1>0. /\ restored = "no" /\ lost = {} /\ mapWallet \subseteq mapWallet'
      /\ made \subseteq mapWallet
      /\ job \in JobType /\ boot \in BootType /\ chain \in Seq(Tx) /\ Ordered(chain)
      /\ Idle.kind = "idle" /\ Up.at = "up" /\ built \subseteq mapWallet
    BY RecordsGrow, RecordsAre, IdleIs, UpIs DEF WInv, PayInv, TypeOK, JobInv
<1>1. CASE Crash
    <2>1. boot'.at = "scan"
        BY <1>0, <1>1, BootPrefix DEF Crash, WInv, TypeOK
    <2> QED
        BY <2>1 DEF OfferedInv
<1> SUFFICES ASSUME ~Crash PROVE OfferedInv'
    BY <1>1
<1>2. /\ ~Foreign
      /\ boot.at = "up" /\ job.kind = "commit" => In[job.tx] \subseteq pool \cup ToSet(chain)
      /\ boot.at \in {"up", "rescan"} =>
            \A t \in mapWallet \cap Own :
                t \in pool \cup ToSet(chain) \/ (job.kind = "commit" /\ t = job.tx)
      /\ boot.at = "reaccept" =>
            (mapWallet \cap Own) \ boot.visit \subseteq pool \cup ToSet(chain)
    BY <1>0, ForeignStays DEF OfferedInv
<1>3. job.kind = "commit" => /\ job.tx \in Own /\ job.tx \in mapWallet /\ boot.at \in {"ready", "up"}
                             /\ job.tx \notin pool \cup ToSet(chain)
    BY <1>0 DEF PaymentsInv, WInv, JobInv
\* steps that record no payment and take none from the pool or the chain
<1>k. ASSUME mapWallet' \cap Own = mapWallet \cap Own, boot' = boot,
             \A t \in mapWallet \cap Own :
                t \in pool \cup ToSet(chain) => t \in (pool \cup ToSet(chain))',
             job.kind = "commit" => job' = job, job'.kind = "commit" => job' = job /\ pool' = pool /\ chain' = chain
      PROVE  OfferedInv'
    BY <1>2, <1>k DEF OfferedInv
<1>t. ASSUME NEW t, t \in Own => t \in made, NEW f, AddToWalletIfInvolvingMe(t, f)
      PROVE  mapWallet' \cap Own = mapWallet \cap Own
    BY <1>0, <1>t DEF AddToWalletIfInvolvingMe
<1>4. ASSUME NEW o \in Tx, MarkSpent(o) PROVE OfferedInv'
    BY <1>4, <1>k DEF MarkSpent
<1>5. ASSUME NEW t \in Tx, CommitTransaction(t) PROVE OfferedInv'
    <2>1. /\ job.kind = "idle" /\ boot.at \in {"ready", "up"} /\ mapWallet' = mapWallet \cup {t}
          /\ job'.kind = "commit" /\ job'.tx = t /\ UNCHANGED <<pool, chain, boot>>
        BY <1>0, <1>5 DEF CommitTransaction, WalletFree
    <2>2. \A o \in In[t] : o \in ToSet(chain) \/ o \in mapWallet \cap Own
        BY <1>0, <1>5 DEF CommitTransaction, Available, IsConfirmed, PaymentsInv
    <2>3. boot.at = "up" => In[t] \subseteq pool \cup ToSet(chain)
        BY <1>2, <2>1, <2>2
    <2> QED
        BY <1>2, <2>1, <2>3 DEF OfferedInv
<1>6. CASE Broadcast
    <2>1. /\ job.kind = "commit" /\ todo = {} /\ job'.kind = "idle" /\ boot.at \in {"ready", "up"}
          /\ pool \subseteq pool' /\ UNCHANGED <<mapWallet, chain, boot>>
          /\ Accept(job.tx, TRUE) => job.tx \in pool'
        BY <1>0, <1>3, <1>6 DEF Broadcast
    <2>2. boot.at = "up" => Accept(job.tx, TRUE)
        <3> SUFFICES ASSUME boot.at = "up" PROVE Accept(job.tx, TRUE)
            OBVIOUS
        <3>1. job.tx \in mapWallet \cap Own /\ job.tx \notin pool \cup ToSet(chain)
            BY <1>3, <2>1
        <3>2. \A u \in pool \cup ToSet(chain) : In[job.tx] \cap In[u] = {}
            BY <1>0, <1>2, <2>1, <3>1, NoConflict
        <3>3. In[job.tx] # {}
            BY <1>0, <3>1 DEF PaymentsInv
        <3> QED
            BY <1>2, <2>1, <3>1, <3>2, <3>3 DEF Accept, Spends
    <2> QED
        BY <1>2, <2>1, <2>2 DEF OfferedInv
<1>7. ASSUME NEW t \in Tx, MessageTx(t) PROVE OfferedInv'
    BY <1>0, <1>7, <1>k DEF MessageTx, walletFile
<1>8. CASE AddUnchecked
    <2>1. job.kind = "tx" /\ job'.kind = "sync" /\ pool \subseteq pool'
        BY <1>0, <1>8 DEF AddUnchecked, JobType
    <2> QED
        BY <1>8, <1>k, <2>1 DEF AddUnchecked, walletFile
<1>9. CASE SyncTx
    <2>1. mapWallet' \cap Own = mapWallet \cap Own
        BY <1>9, <1>t DEF SyncTx, WInv, PayInv, SourcesInv
    <2> QED
        BY <1>0, <1>9, <1>k, <2>1 DEF SyncTx
<1>10. ASSUME NEW n \in Len(Genesis) .. Len(chain), NEW t \in Tx, ConnectBlock(t, n)
       PROVE  OfferedInv'
    <2>1. mapWallet' \cap Own = mapWallet \cap Own /\ job.kind = "idle" /\ job'.kind = "block"
        BY <1>0, <1>10, <1>t DEF ConnectBlock, Known
    <2> QED
        BY <1>10, <1>k, <2>1 DEF ConnectBlock
<1>11. ASSUME NEW n \in Len(Genesis) .. Len(chain), ConnectEmptyBranch(n) PROVE OfferedInv'
    BY <1>0, <1>11, <1>k DEF ConnectEmptyBranch, walletFile
<1>12. CASE CommitChain
    <2>1. /\ job.kind = "block" /\ job'.kind = "locator" /\ todo = {} /\ boot.at # "scan"
          /\ UNCHANGED <<mapWallet, boot>>
        BY <1>0, <1>12 DEF CommitChain, walletFile, JobType, WInv, JobInv
    <2>2. ToSet(job.base) \subseteq ToSet(chain')
          /\ (job.tx # None => job.tx \in ToSet(chain'))
        <3>1. CASE job.tx = None
            BY <1>12, <3>1 DEF CommitChain
        <3>2. CASE job.tx # None
            <4>1. /\ job.tx \in Tx /\ job.base \in Seq(Tx) /\ Ordered(job.base)
                  /\ In[job.tx] \subseteq ToSet(job.base)
                BY <1>0, <2>1, <3>2 DEF WInv, JobInv, JobType
            <4>2. chain' = Append(job.base, job.tx)
                BY <1>12, <3>2 DEF CommitChain
            <4>3. ToSet(Append(job.base, job.tx)) = ToSet(job.base) \cup {job.tx}
                BY <4>1, OrderedAppend
            <4> QED
                BY <4>2, <4>3
        <3> QED
            BY <3>1, <3>2
    <2>3. ASSUME NEW t \in mapWallet \cap Own, t \in pool \cup ToSet(chain)
          PROVE  t \in (pool \cup ToSet(chain))'
        <3>1. CASE t = job.tx
            <4>1. t # None
                BY WalletAssumption
            <4> QED
                BY <2>2, <3>1, <4>1
        <3>2. CASE t \in ToSet(job.base)
            BY <2>2, <3>2
        <3>3. CASE t # job.tx /\ t \notin ToSet(job.base)
            <4>1. t \in pool \/ Accept(t, FALSE)
                BY <1>0, <1>2, <2>1, Resubmitted
            <4> QED
                BY <1>12, <2>3, <3>3, <4>1 DEF CommitChain
        <3> QED
            BY <3>1, <3>2, <3>3
    <2> QED
        BY <1>k, <2>1, <2>3
<1>13. CASE WriteBestBlock
    BY <1>0, <1>13, <1>k DEF WriteBestBlock
<1>14. CASE BackupWallet
    BY <1>14, <1>k DEF BackupWallet, walletFile
<1>15. CASE ScanTx
    <2>1. mapWallet' \cap Own = mapWallet \cap Own
        <3>1. Head(boot.list) \in Own => Head(boot.list) \in made
            BY <1>15, SignedTail DEF ScanTx, WInv, PayInv, SourcesInv
        <3> QED
            BY <1>15, <1>t, <3>1 DEF ScanTx
    <2>2. boot'.at = boot.at /\ boot.at \in {"scan", "rescan"} /\ UNCHANGED <<pool, chain, job>>
        BY <1>0, <1>15 DEF ScanTx, BootType
    <2> QED
        BY <1>2, <2>1, <2>2 DEF OfferedInv
<1>16. CASE StartThreads
    <2>1. boot'.at = "ready"
        BY <1>0, <1>16 DEF StartThreads, BootType
    <2> QED
        BY <2>1 DEF OfferedInv
<1>17. CASE ReacceptWalletTransactions
    <2>1. boot'.at = "reaccept" /\ boot'.visit = mapWallet /\ mapWallet' = mapWallet
        BY <1>17 DEF ReacceptWalletTransactions, walletFile
    <2> QED
        BY <2>1 DEF OfferedInv
<1>18. ASSUME NEW t \in Tx, Reaccept(t) PROVE OfferedInv'
    <2>1. /\ boot.at = "reaccept" /\ boot'.at = "reaccept" /\ boot'.visit = boot.visit \ {t}
          /\ UNCHANGED <<mapWallet, chain>> /\ pool \subseteq pool' /\ todo = {}
        BY <1>0, <1>18 DEF Reaccept, AcceptWalletTransaction, BootType, WInv, JobInv
    <2>2. t \in mapWallet \cap Own => t \in pool' \cup ToSet(chain)
        <3>1. CASE t \in ToSet(chain)
            BY <3>1
        <3>2. CASE t \notin ToSet(chain) /\ t \in mapWallet \cap Own
            <4>1. t \in pool \/ Accept(t, FALSE)
                BY <1>0, <1>2, <2>1, <3>2, Resubmitted
            <4> QED
                BY <1>18, <3>2, <4>1 DEF Reaccept, AcceptWalletTransaction
        <3> QED
            BY <3>1, <3>2
    <2>3. (mapWallet \cap Own)' \ boot'.visit \subseteq (pool \cup ToSet(chain))'
        BY <1>2, <2>1, <2>2
    <2> QED
        BY <2>1, <2>3 DEF OfferedInv
<1>19. CASE RoundDone
    <2>1. /\ boot.at = "reaccept" /\ boot.visit = {} /\ boot'.at \in {"up", "rescan"}
          /\ UNCHANGED <<mapWallet, pool, chain, job>>
        BY <1>0, <1>19 DEF RoundDone, walletFile, BootType
    <2>2. mapWallet \cap Own \subseteq pool \cup ToSet(chain) /\ job.kind # "commit"
        BY <1>2, <1>3, <2>1
    <2> QED
        BY <2>1, <2>2 DEF OfferedInv
<1>20. CASE ScanDone
    <2>1. /\ boot.at = "rescan" /\ boot'.at \in {"up", "ready"}
          /\ UNCHANGED <<mapWallet, pool, chain, job>>
        BY <1>0, <1>20 DEF ScanDone, walletFile, BootType
    <2>2. job.kind # "commit"
        BY <1>3, <2>1
    <2> QED
        BY <1>2, <2>1, <2>2 DEF OfferedInv
<1>21. CASE UNCHANGED vars
    BY <1>21, <1>k DEF vars
<1>22. ~Restore
    BY DEF Restore
<1> QED
    BY <1>4, <1>5, <1>6, <1>7, <1>8, <1>9, <1>10, <1>11, <1>12, <1>13, <1>14, <1>15,
       <1>16, <1>17, <1>18, <1>19, <1>20, <1>21, <1>22 DEF Next

\* The exceptions of CommitAccepted stay true, and a payment that none of them
\* concerns is accepted.
LEMMA NextAccepted ==
    WInv /\ PaymentsInv /\ OfferedInv /\ CommitAccepted /\ [Next]_vars => CommitAccepted'
<1> SUFFICES ASSUME WInv, PaymentsInv, OfferedInv, CommitAccepted, [Next]_vars,
                    refused', restored' = "no", lost' = {},
                    ~\E t \in mapWallet' \ Own : IsFromMe(t)'
             PROVE  FALSE
    BY DEF CommitAccepted
<1>0. /\ restored = "no" /\ lost = {} /\ mapWallet \subseteq mapWallet'
      /\ job \in JobType /\ Idle.kind = "idle"
    BY RecordsGrow, RecordsAre, IdleIs DEF WInv
<1>1. ~\E t \in mapWallet \ Own : IsFromMe(t)
    BY <1>0 DEF IsFromMe
<1>2. ~refused
    BY <1>0, <1>1 DEF CommitAccepted
<1>3. Broadcast
    BY <1>2 DEF Next, vars, MarkSpent, CommitTransaction, Broadcast, MessageTx, AddUnchecked,
       SyncTx, ConnectBlock, ConnectEmptyBranch, CommitChain, WriteBestBlock, BackupWallet,
       Crash, Restore, ScanTx, StartThreads, ReacceptWalletTransactions, Reaccept,
       RoundDone, ScanDone
<1>4. job.kind = "commit" /\ todo = {} /\ boot.at = "up" /\ ~Accept(job.tx, TRUE)
    BY <1>2, <1>3 DEF Broadcast
<1>5. ~Foreign
    BY <1>1, <1>4 DEF Foreign
<1>6. job.tx \in mapWallet \cap Own /\ job.tx \notin pool \cup ToSet(chain)
    BY <1>0, <1>4 DEF PaymentsInv, WInv, JobInv
<1>7. \A u \in pool \cup ToSet(chain) : In[job.tx] \cap In[u] = {}
    BY <1>0, <1>4, <1>5, <1>6, NoConflict
<1>8. In[job.tx] # {} /\ In[job.tx] \subseteq pool \cup ToSet(chain)
    BY <1>0, <1>4, <1>5, <1>6 DEF PaymentsInv, OfferedInv
<1> QED
    BY <1>4, <1>6, <1>7, <1>8 DEF Accept, Spends

\* "This must not fail": with start-up complete the pool accepts every payment that the
\* wallet signs, unless a marking was cut short, an older copy was put back, or another
\* copy of the wallet has spent its coins.
THEOREM AlwaysAccepted == Spec => []CommitAccepted
<1> DEFINE All == WInv /\ PaymentsInv /\ OfferedInv /\ CommitAccepted
<1>1. Init => All
    BY InitWInv, InitPayments
<1>2. All /\ [Next]_vars => All'
    BY NextWInv, NextPayments, NextOffered, NextAccepted
<1>3. All => CommitAccepted
    OBVIOUS
<1> HIDE DEF All
<1> QED
    BY <1>1, <1>2, <1>3, PTL DEF Spec
=============================================================================
