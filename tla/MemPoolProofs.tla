--------------------------- MODULE MemPoolProofs -----------------------------
(***************************************************************************)
(* The two indexes that the pool code keeps next to its maps are exact in  *)
(* every reachable state: mapNextTx for the pool, the parent index for the *)
(* orphans.  These two invariants do not mention the chain.  The others    *)
(* do: whatever a block or a reorganisation puts into the index is out of  *)
(* the pool by the time that cs_main is free again, and what it took out   *)
(* of the chain is in the pool, or has a rival.  At the end of the tx      *)
(* handler no orphan is left that one of its transactions has made         *)
(* acceptable, and a template for the best block connects.                 *)
(***************************************************************************)
EXTENDS MemPool, FiniteSetTheorems, SequenceTheorems, WellFoundedInduction, TLAPS

PoolInv ==
    /\ mapTx \subseteq Tx /\ mapTx \cap Coinbase = {}
    /\ mapNextTx \in [Spendings -> Tx \cup {NoTx}]
    /\ PoolSpendsOnce

\* adding a transaction whose inputs nobody in the pool spends
LEMMA AddKeepsPool ==
    ASSUME PoolInv, NEW t \in Tx, t \notin Coinbase, AddToPool(t),
           \A o \in In[t] : mapNextTx[o] = NoTx
    PROVE  PoolInv'
BY MemPoolAssumption DEF PoolInv, AddToPool, PoolSpendsOnce, Spendings

\* removing anything at all, in the pool or not
LEMMA RemoveKeepsPool ==
    ASSUME PoolInv, NEW t, RemoveFromPool(t)
    PROVE  PoolInv'
<1>1. mapTx' \subseteq Tx /\ mapTx' \cap Coinbase = {} /\ mapNextTx' \in [Spendings -> Tx \cup {NoTx}]
  BY DEF PoolInv, RemoveFromPool
<1>2. PoolSpendsOnce'
  BY MemPoolAssumption DEF PoolInv, RemoveFromPool, PoolSpendsOnce, Spendings
<1> QED BY <1>1, <1>2 DEF PoolInv

LEMMA SamePool ==
    ASSUME PoolInv, UNCHANGED poolVars
    PROVE  PoolInv'
BY DEF PoolInv, poolVars, PoolSpendsOnce

LEMMA NextKeepsPool ==
    ASSUME PoolInv, [Next]_vars
    PROVE  PoolInv'
<1>1. ASSUME NEW t \in Tx, Accepts(t), AddToPool(t) PROVE PoolInv'
  BY <1>1, AddKeepsPool DEF Accepts, Admissible
<1>2. CASE \E t \in Tx : ReceiveTx(t) \/ SubmitTx(t) \/ RetryAccepts(t)
  BY <1>1, <1>2 DEF ReceiveTx, SubmitTx, RetryAccepts
<1>3. CASE ResurrectNext
  <2>1. CASE Admissible(Head(resurrect), FALSE)
    <3>1. AddToPool(Head(resurrect))
      BY <1>3, <2>1 DEF ResurrectNext
    <3>2. Head(resurrect) \in Tx \ Coinbase /\ \A o \in In[Head(resurrect)] : mapNextTx[o] = NoTx
      BY <2>1, MemPoolAssumption DEF Admissible
    <3> QED BY <3>1, <3>2, AddKeepsPool
  <2>2. CASE ~Admissible(Head(resurrect), FALSE)
    BY <1>3, <2>2, SamePool DEF ResurrectNext
  <2> QED BY <2>1, <2>2
<1>4. CASE DeleteNext
  BY <1>4, RemoveKeepsPool DEF DeleteNext
<1>5. CASE UNCHANGED poolVars
  BY <1>5, SamePool
<1>6. \/ \E t \in Tx : ReceiveTx(t) \/ SubmitTx(t) \/ RetryAccepts(t)
      \/ ResurrectNext \/ DeleteNext
      \/ UNCHANGED poolVars
  <2>1. CASE UNCHANGED vars
    BY <2>1 DEF vars
  <2>2. CASE TxStep
    <3>1. ASSUME NEW t \in visit, RetryAccepts(t) PROVE t \in Tx
      BY <3>1, MemPoolAssumption DEF RetryAccepts, Accepts, Admissible
    <3> QED
      BY <2>2, <3>1 DEF TxStep, NextPrev, EndOfTx, RetryMisses, RetryRejects
  <2>3. CASE ChainStep
    BY <2>3 DEF ChainStep, NewBestBlock
  <2>4. CASE PeerStep
    BY <2>4 DEF PeerStep, ReceiveOrphan, Extend, Reorganize
  <2>5. CASE MinerStep
    BY <2>5 DEF MinerStep, ReadBest, CreateNewBlock, CheckWork, GiveUp
  <2> QED BY <2>1, <2>2, <2>3, <2>4, <2>5 DEF Next
<1> QED BY <1>2, <1>3, <1>4, <1>5, <1>6

LEMMA PoolHolds == Spec => []PoolInv
<1>1. Init => PoolInv
  BY MemPoolAssumption DEF Init, PoolInv, PoolSpendsOnce, Spendings
<1>2. PoolInv /\ [Next]_vars => PoolInv'
  BY NextKeepsPool
<1> QED BY <1>1, <1>2, PTL DEF Spec

\* mapNextTx of CTxMemPool names, for every outpoint, exactly the pool
\* transaction that spends it: no double spend ever enters the pool, through
\* accept with or without input checks.
THEOREM PoolCorrect == Spec => []PoolSpendsOnce
<1>1. PoolInv => PoolSpendsOnce
  BY DEF PoolInv
<1> QED BY PoolHolds, <1>1, PTL

-----------------------------------------------------------------------------
OrphanInv ==
    /\ orphans \subseteq Tx /\ IsFiniteSet(orphans)
    /\ OrphansIndexed
    /\ OrphansBounded
    /\ visit \subseteq orphans
    /\ work \in Seq(Tx) /\ reached \in 0..Len(work)
    /\ erase = {} => visit = {} /\ work = <<>> /\ reached = 0

\* the handlers that leave the orphans and the state of the tx handler alone
LEMMA SameOrphans ==
    ASSUME OrphanInv, UNCHANGED <<orphanVars, retryVars>>
    PROVE  OrphanInv'
BY DEF OrphanInv, orphanVars, retryVars, OrphansIndexed, OrphansBounded

LEMMA AddKeepsOrphans ==
    ASSUME OrphanInv, NEW t \in Tx, ReceiveOrphan(t)
    PROVE  OrphanInv'
<1>1. PICK evicted \in {{}} \cup {{u} : u \in orphans \cup {t}} :
          /\ (evicted # {}) <=> Overflows(t)
          /\ orphans' = (orphans \cup {t}) \ evicted
          /\ byPrev' = {pair \in byPrev \cup (Parents(t) \X {t}) : pair[2] \notin evicted}
          /\ prevKeys' = (prevKeys \cup Parents(t)) \
                            {p \in UNION {Parents(u) : u \in evicted} :
                                ~\E u \in Tx : <<p, u>> \in byPrev'}
  BY DEF ReceiveOrphan, AddOrphan, PairsWithout
<1>2. orphans' \subseteq Tx
  BY <1>1 DEF OrphanInv
<1>3. /\ IsFiniteSet(orphans \cup {t}) /\ Cardinality(orphans \cup {t}) \in Nat
      /\ Cardinality(orphans \cup {t}) <= MaxOrphans + 1
  <2>1. IsFiniteSet(orphans) /\ Cardinality(orphans) \in Nat
    BY FS_CardinalityType DEF OrphanInv
  <2>2. /\ IsFiniteSet(orphans \cup {t})
        /\ Cardinality(orphans \cup {t}) =
              IF t \in orphans THEN Cardinality(orphans) ELSE Cardinality(orphans) + 1
    BY <2>1, FS_AddElement
  <2> QED BY <2>1, <2>2, MemPoolAssumption DEF OrphanInv, OrphansBounded
<1>4. IsFiniteSet(orphans') /\ Cardinality(orphans') <= MaxOrphans
  <2>1. CASE evicted = {}
    BY <1>1, <1>3, <2>1, MemPoolAssumption DEF Overflows
  <2>2. CASE \E u \in orphans \cup {t} : evicted = {u}
    <3>1. PICK u \in orphans \cup {t} : evicted = {u}
      BY <2>2
    <3>2. orphans' = (orphans \cup {t}) \ {u}
      BY <1>1, <3>1
    <3>3. /\ IsFiniteSet(orphans')
          /\ Cardinality(orphans') = Cardinality(orphans \cup {t}) - 1
      BY <1>3, <3>1, <3>2, FS_RemoveElement
    <3> QED BY <1>3, <3>3, MemPoolAssumption
  <2> QED BY <2>1, <2>2
<1>5. byPrev' = UNION {Parents(u) \X {u} : u \in orphans'}
  BY <1>1 DEF OrphanInv, OrphansIndexed
<1>6. \A pair \in byPrev' : pair[1] \in prevKeys'
  <2>1. ASSUME NEW pair \in byPrev' PROVE pair[1] \in prevKeys'
    <3>1. pair = <<pair[1], pair[2]>> /\ pair[2] \in Tx
      BY <1>2, <1>5
    <3>2. pair[1] \in prevKeys \cup Parents(t)
      BY <1>1 DEF OrphanInv, OrphansIndexed
    <3> QED BY <1>1, <3>1, <3>2
  <2> QED BY <2>1
<1>7. visit' = {} /\ UNCHANGED <<erase, work, reached>>
  BY DEF ReceiveOrphan, Idle, OrphanInv, retryVars
<1> QED
  BY <1>2, <1>4, <1>5, <1>6, <1>7 DEF OrphanInv, OrphansIndexed, OrphansBounded

LEMMA EraseKeepsOrphans ==
    ASSUME OrphanInv, EndOfTx
    PROVE  OrphanInv'
<1> DEFINE gone == erase \cap orphans
<1>1. /\ orphans' = orphans \ gone
      /\ byPrev' = {pair \in byPrev : pair[2] \notin gone}
      /\ prevKeys' = prevKeys \ {p \in UNION {Parents(t) : t \in gone} :
                                    ~\E t \in Tx : <<p, t>> \in byPrev'}
  BY DEF EndOfTx, EraseOrphans, PairsWithout, KeysWithout
<1>2. orphans' \subseteq Tx
  BY <1>1 DEF OrphanInv
<1>3. IsFiniteSet(orphans') /\ Cardinality(orphans') <= MaxOrphans
  <2>1. /\ IsFiniteSet(orphans) /\ orphans' \subseteq orphans
        /\ Cardinality(orphans) <= MaxOrphans
    BY <1>1 DEF OrphanInv, OrphansBounded
  <2>2. /\ IsFiniteSet(orphans') /\ Cardinality(orphans') <= Cardinality(orphans)
        /\ Cardinality(orphans) \in Nat /\ Cardinality(orphans') \in Nat
    BY <2>1, FS_Subset, FS_CardinalityType
  <2> QED BY <2>1, <2>2, MemPoolAssumption
<1>4. byPrev' = UNION {Parents(u) \X {u} : u \in orphans'}
  BY <1>1 DEF OrphanInv, OrphansIndexed
<1>5. \A pair \in byPrev' : pair[1] \in prevKeys'
  <2>1. ASSUME NEW pair \in byPrev' PROVE pair[1] \in prevKeys'
    <3>1. pair = <<pair[1], pair[2]>> /\ pair[2] \in Tx
      BY <1>2, <1>4
    <3>2. pair[1] \in prevKeys
      BY <1>1 DEF OrphanInv, OrphansIndexed
    <3> QED BY <1>1, <3>1, <3>2
  <2> QED BY <2>1
<1>6. visit' = {} /\ work' = <<>> /\ reached' = 0 /\ work' \in Seq(Tx) /\ reached' \in 0..Len(work')
  BY EmptySeq DEF EndOfTx
<1> QED
  BY <1>2, <1>3, <1>4, <1>5, <1>6 DEF OrphanInv, OrphansIndexed, OrphansBounded

LEMMA NextKeepsOrphans ==
    ASSUME OrphanInv, [Next]_vars
    PROVE  OrphanInv'
<1>1. CASE UNCHANGED <<orphanVars, retryVars>>
  BY <1>1, SameOrphans
<1>2. ASSUME NEW t \in Tx, ReceiveTx(t) PROVE OrphanInv'
  <2>1. <<t>> \in Seq(Tx) /\ reached = 0
    BY <1>2 DEF ReceiveTx, Idle, OrphanInv
  <2> QED BY <1>2, <2>1 DEF ReceiveTx, OrphanInv, orphanVars, OrphansIndexed, OrphansBounded
<1>3. ASSUME NEW t \in Tx, ReceiveOrphan(t) PROVE OrphanInv'
  BY <1>3, AddKeepsOrphans
<1>4. CASE NextPrev
  <2>1. erase' = erase /\ erase # {}
    BY <1>4 DEF NextPrev, OrphanInv
  <2>2. visit' \subseteq orphans' /\ reached' \in 0..Len(work')
    BY <1>4 DEF NextPrev, OrphanInv, OrphansIndexed
  <2> QED BY <1>4, <2>1, <2>2 DEF NextPrev, OrphanInv, OrphansIndexed, OrphansBounded
<1>5. CASE EndOfTx
  BY <1>5, EraseKeepsOrphans
<1>6. ASSUME NEW t \in visit, RetryAccepts(t) \/ RetryMisses(t) \/ RetryRejects(t)
      PROVE  OrphanInv'
  <2>1. UNCHANGED orphanVars /\ visit' \subseteq visit /\ erase \subseteq erase'
    BY <1>6 DEF RetryAccepts, RetryMisses, RetryRejects
  <2>2. erase # {} /\ t \in Tx
    BY <1>6 DEF OrphanInv
  <2>3. work' \in Seq(Tx) /\ Len(work) <= Len(work') /\ reached' = reached
    <3>1. work \in Seq(Tx) /\ Len(work) \in Nat
      BY DEF OrphanInv
    <3>2. work' = work \/ work' = Append(work, t)
      BY <1>6 DEF RetryAccepts, RetryMisses, RetryRejects, Enqueued
    <3>3. reached' = reached
      BY <1>6 DEF RetryAccepts, RetryMisses, RetryRejects
    <3> QED BY <2>2, <3>1, <3>2, <3>3
  <2>4. reached' \in 0..Len(work')
    BY <2>3 DEF OrphanInv
  <2>5. OrphansIndexed' /\ OrphansBounded' /\ orphans' = orphans
    BY <2>1 DEF OrphanInv, orphanVars, OrphansIndexed, OrphansBounded
  <2> QED BY <2>1, <2>2, <2>3, <2>4, <2>5 DEF OrphanInv
<1>7. CASE ChainStep
  BY <1>7, SameOrphans DEF ChainStep, ResurrectNext, DeleteNext, NewBestBlock
<1>8. CASE MinerStep
  BY <1>8, SameOrphans DEF MinerStep, ReadBest, CreateNewBlock, CheckWork, GiveUp
<1>9. CASE PeerStep
  <2>1. ASSUME NEW b \in Candidates, Extend(b) PROVE OrphanInv'
    BY <2>1, SameOrphans DEF Extend
  <2>2. ASSUME NEW k \in 1..MaxDepth, NEW branch \in [1..k+1 -> Candidates],
               Reorganize(k, branch)
        PROVE  OrphanInv'
    BY <2>2, SameOrphans DEF Reorganize
  <2> QED BY <1>2, <1>3, <1>9, <2>1, <2>2 DEF PeerStep
<1>10. CASE TxStep
  BY <1>4, <1>5, <1>6, <1>10 DEF TxStep
<1>11. ASSUME NEW t \in Tx, SubmitTx(t) PROVE OrphanInv'
  BY <1>11, SameOrphans DEF SubmitTx
<1> QED BY <1>1, <1>7, <1>8, <1>9, <1>10, <1>11 DEF Next, vars

LEMMA OrphansHold == Spec => []OrphanInv
<1>1. Init => OrphanInv
  BY FS_EmptySet, MemPoolAssumption
     DEF Init, OrphanInv, OrphansIndexed, OrphansBounded
<1>2. OrphanInv /\ [Next]_vars => OrphanInv'
  BY NextKeepsOrphans
<1> QED BY <1>1, <1>2, PTL DEF Spec

\* mapOrphanTransactionsByPrev holds exactly the stored orphans under exactly
\* their parents, so the pointers it keeps are never dangling; and the number
\* of orphans never exceeds the limit.
THEOREM OrphansCorrect == Spec => []OrphansConsistent
<1>1. OrphanInv => OrphansConsistent
  BY DEF OrphanInv, OrphansConsistent
<1> QED BY OrphansHold, <1>1, PTL

-----------------------------------------------------------------------------
(* The loops over blocks and transactions, by induction on their rounds *)

LEMMA LeastNat ==
    ASSUME NEW T, T \subseteq Nat, T # {}
    PROVE  \E x \in T : \A y \in T : x <= y
<1>1. \E x \in T : \A y \in T : ~(<<y, x>> \in OpToRel(<, Nat))
    BY NatLessThanWellFounded, WFMin
<1>2. OpToRel(<, Nat) = {ss \in Nat \X Nat : ss[1] < ss[2]}
    BY Zenon DEF OpToRel
<1>3. \E x \in T : \A y \in T : ~(<<y, x>> \in {ss \in Nat \X Nat : ss[1] < ss[2]})
    BY <1>1, <1>2, Zenon
<1>4. PICK x \in T : \A y \in T : ~(<<y, x>> \in {ss \in Nat \X Nat : ss[1] < ss[2]})
    BY <1>3
<1>5. ASSUME NEW y \in T PROVE x <= y
  <2>1. x \in Nat /\ y \in Nat
      OBVIOUS
  <2>2. ~(y < x)
      BY <1>4, <2>1
  <2> QED
      BY <2>1, <2>2
<1> QED
    BY <1>5

LEMMA NatInd ==
    ASSUME NEW S, 0 \in S, \A n \in S \cap Nat : n + 1 \in S
    PROVE  Nat \subseteq S
<1> SUFFICES ASSUME Nat \ S # {} PROVE FALSE
    OBVIOUS
<1>1. PICK x \in Nat \ S : \A y \in Nat \ S : x <= y
  <2>1. Nat \ S \subseteq Nat
      OBVIOUS
  <2> QED
      BY <2>1, LeastNat
<1>2. x # 0 /\ x - 1 \in Nat /\ x - 1 \in S
    BY <1>1
<1>3. (x - 1) + 1 \in S
    BY <1>2
<1> QED
    BY <1>1, <1>2, <1>3

\* ConnectBlock
ScanFirst(index, b, h) == [ok |-> TRUE, queue |-> NoRecords, fees |-> 0]
ScanRound(index, b, h, s, i) == ConnectTx(index, s, b[i], h)
IsScan(r, index, b, h, n) ==
    r = [i \in 0..n |-> IF i = 0 THEN ScanFirst(index, b, h) ELSE ScanRound(index, b, h, r[i - 1], i)]

LEMMA ScanExists ==
    ASSUME NEW index, NEW b, NEW h
    PROVE  \A n \in Nat : \E r : IsScan(r, index, b, h, n)
<1> DEFINE S == {n \in Nat : \E r : IsScan(r, index, b, h, n)}
<1>1. 0 \in S
  <2> DEFINE r == [i \in 0..0 |-> ScanFirst(index, b, h)]
  <2>1. IsScan(r, index, b, h, 0)
      BY DEF IsScan
  <2> QED
      BY <2>1
<1>2. ASSUME NEW n \in S \cap Nat PROVE n + 1 \in S
  <2>1. PICK r : IsScan(r, index, b, h, n)
      OBVIOUS
  <2> DEFINE new == ScanRound(index, b, h, r[n], n + 1)
             g == [i \in 0..n + 1 |-> IF i = n + 1 THEN new ELSE r[i]]
  <2>2. \A i \in 0..n : r[i] = IF i = 0 THEN ScanFirst(index, b, h) ELSE ScanRound(index, b, h, r[i - 1], i)
      BY <2>1 DEF IsScan
  <2> HIDE DEF new
  <2>3. g[n + 1] = new /\ \A i \in 0..n : g[i] = r[i]
      OBVIOUS
  <2> DEFINE s == [i \in 0..n + 1 |-> IF i = 0 THEN ScanFirst(index, b, h) ELSE ScanRound(index, b, h, g[i - 1], i)]
  <2>4. ASSUME NEW i \in 0..n + 1
        PROVE  g[i] = IF i = 0 THEN ScanFirst(index, b, h) ELSE ScanRound(index, b, h, g[i - 1], i)
    <3> HIDE DEF g
    <3>1. CASE i = n + 1
      <4>1. i - 1 = n /\ i # 0 /\ n \in 0..n
          BY <3>1
      <4>2. g[i - 1] = r[n]
          BY <2>3, <4>1
      <4> QED
          BY <2>3, <3>1, <4>1, <4>2 DEF new
    <3>2. CASE i = 0
        BY <2>2, <2>3, <3>2
    <3>3. CASE i # 0 /\ i # n + 1
      <4>1. i \in 0..n /\ i - 1 \in 0..n
          BY <3>3
      <4>2. g[i] = r[i] /\ g[i - 1] = r[i - 1]
          BY <2>3, <4>1
      <4>3. r[i] = ScanRound(index, b, h, r[i - 1], i)
          BY <2>2, <3>3, <4>1
      <4> QED
          BY <3>3, <4>2, <4>3
    <3> QED
        BY <3>1, <3>2, <3>3
  <2>5. g = s
      BY <2>4
  <2>6. IsScan(g, index, b, h, n + 1)
      BY <2>5 DEF IsScan
  <2> QED
      BY <2>6
<1>3. Nat \subseteq S
  <2> HIDE DEF S
  <2> QED
      BY <1>1, <1>2, NatInd
<1> QED
    BY <1>3

\* DisconnectBlock
UndoFirst(index, b) == [ok |-> TRUE, index |-> index]
UndoRound(index, b, s, i) == DisconnectTx(s, b[Len(b) + 1 - i])
IsUndo(r, index, b, n) ==
    r = [i \in 0..n |-> IF i = 0 THEN UndoFirst(index, b) ELSE UndoRound(index, b, r[i - 1], i)]

LEMMA UndoExists ==
    ASSUME NEW index, NEW b
    PROVE  \A n \in Nat : \E r : IsUndo(r, index, b, n)
<1> DEFINE S == {n \in Nat : \E r : IsUndo(r, index, b, n)}
<1>1. 0 \in S
  <2> DEFINE r == [i \in 0..0 |-> UndoFirst(index, b)]
  <2>1. IsUndo(r, index, b, 0)
      BY DEF IsUndo
  <2> QED
      BY <2>1
<1>2. ASSUME NEW n \in S \cap Nat PROVE n + 1 \in S
  <2>1. PICK r : IsUndo(r, index, b, n)
      OBVIOUS
  <2> DEFINE new == UndoRound(index, b, r[n], n + 1)
             g == [i \in 0..n + 1 |-> IF i = n + 1 THEN new ELSE r[i]]
  <2>2. \A i \in 0..n : r[i] = IF i = 0 THEN UndoFirst(index, b) ELSE UndoRound(index, b, r[i - 1], i)
      BY <2>1 DEF IsUndo
  <2> HIDE DEF new
  <2>3. g[n + 1] = new /\ \A i \in 0..n : g[i] = r[i]
      OBVIOUS
  <2> DEFINE s == [i \in 0..n + 1 |-> IF i = 0 THEN UndoFirst(index, b) ELSE UndoRound(index, b, g[i - 1], i)]
  <2>4. ASSUME NEW i \in 0..n + 1
        PROVE  g[i] = IF i = 0 THEN UndoFirst(index, b) ELSE UndoRound(index, b, g[i - 1], i)
    <3> HIDE DEF g
    <3>1. CASE i = n + 1
      <4>1. i - 1 = n /\ i # 0 /\ n \in 0..n
          BY <3>1
      <4>2. g[i - 1] = r[n]
          BY <2>3, <4>1
      <4> QED
          BY <2>3, <3>1, <4>1, <4>2 DEF new
    <3>2. CASE i = 0
        BY <2>2, <2>3, <3>2
    <3>3. CASE i # 0 /\ i # n + 1
      <4>1. i \in 0..n /\ i - 1 \in 0..n
          BY <3>3
      <4>2. g[i] = r[i] /\ g[i - 1] = r[i - 1]
          BY <2>3, <4>1
      <4>3. r[i] = UndoRound(index, b, r[i - 1], i)
          BY <2>2, <3>3, <4>1
      <4> QED
          BY <3>3, <4>2, <4>3
    <3> QED
        BY <3>1, <3>2, <3>3
  <2>5. g = s
      BY <2>4
  <2>6. IsUndo(g, index, b, n + 1)
      BY <2>5 DEF IsUndo
  <2> QED
      BY <2>6
<1>3. Nat \subseteq S
  <2> HIDE DEF S
  <2> QED
      BY <1>1, <1>2, NatInd
<1> QED
    BY <1>3

\* the blocks that Reorganize takes off
UnwindFirst(x, blocks) == [ok |-> TRUE, index |-> x]
UnwindRound(x, blocks, s, i) == TakeOff(s, blocks[i])
IsUnwind(r, x, blocks, n) ==
    r = [i \in 0..n |-> IF i = 0 THEN UnwindFirst(x, blocks) ELSE UnwindRound(x, blocks, r[i - 1], i)]

LEMMA UnwindExists ==
    ASSUME NEW x, NEW blocks
    PROVE  \A n \in Nat : \E r : IsUnwind(r, x, blocks, n)
<1> DEFINE S == {n \in Nat : \E r : IsUnwind(r, x, blocks, n)}
<1>1. 0 \in S
  <2> DEFINE r == [i \in 0..0 |-> UnwindFirst(x, blocks)]
  <2>1. IsUnwind(r, x, blocks, 0)
      BY DEF IsUnwind
  <2> QED
      BY <2>1
<1>2. ASSUME NEW n \in S \cap Nat PROVE n + 1 \in S
  <2>1. PICK r : IsUnwind(r, x, blocks, n)
      OBVIOUS
  <2> DEFINE new == UnwindRound(x, blocks, r[n], n + 1)
             g == [i \in 0..n + 1 |-> IF i = n + 1 THEN new ELSE r[i]]
  <2>2. \A i \in 0..n : r[i] = IF i = 0 THEN UnwindFirst(x, blocks) ELSE UnwindRound(x, blocks, r[i - 1], i)
      BY <2>1 DEF IsUnwind
  <2> HIDE DEF new
  <2>3. g[n + 1] = new /\ \A i \in 0..n : g[i] = r[i]
      OBVIOUS
  <2> DEFINE s == [i \in 0..n + 1 |-> IF i = 0 THEN UnwindFirst(x, blocks) ELSE UnwindRound(x, blocks, g[i - 1], i)]
  <2>4. ASSUME NEW i \in 0..n + 1
        PROVE  g[i] = IF i = 0 THEN UnwindFirst(x, blocks) ELSE UnwindRound(x, blocks, g[i - 1], i)
    <3> HIDE DEF g
    <3>1. CASE i = n + 1
      <4>1. i - 1 = n /\ i # 0 /\ n \in 0..n
          BY <3>1
      <4>2. g[i - 1] = r[n]
          BY <2>3, <4>1
      <4> QED
          BY <2>3, <3>1, <4>1, <4>2 DEF new
    <3>2. CASE i = 0
        BY <2>2, <2>3, <3>2
    <3>3. CASE i # 0 /\ i # n + 1
      <4>1. i \in 0..n /\ i - 1 \in 0..n
          BY <3>3
      <4>2. g[i] = r[i] /\ g[i - 1] = r[i - 1]
          BY <2>3, <4>1
      <4>3. r[i] = UnwindRound(x, blocks, r[i - 1], i)
          BY <2>2, <3>3, <4>1
      <4> QED
          BY <3>3, <4>2, <4>3
    <3> QED
        BY <3>1, <3>2, <3>3
  <2>5. g = s
      BY <2>4
  <2>6. IsUnwind(g, x, blocks, n + 1)
      BY <2>5 DEF IsUnwind
  <2> QED
      BY <2>6
<1>3. Nat \subseteq S
  <2> HIDE DEF S
  <2> QED
      BY <1>1, <1>2, NatInd
<1> QED
    BY <1>3

\* the blocks that it puts on
RewindFirst(first, m, branch) == first
RewindRound(first, m, branch, s, i) == PutOn(s, branch[i], m + i)
IsRewind(r, first, m, branch, n) ==
    r = [i \in 0..n |-> IF i = 0 THEN RewindFirst(first, m, branch) ELSE RewindRound(first, m, branch, r[i - 1], i)]

LEMMA RewindExists ==
    ASSUME NEW first, NEW m, NEW branch
    PROVE  \A n \in Nat : \E r : IsRewind(r, first, m, branch, n)
<1> DEFINE S == {n \in Nat : \E r : IsRewind(r, first, m, branch, n)}
<1>1. 0 \in S
  <2> DEFINE r == [i \in 0..0 |-> RewindFirst(first, m, branch)]
  <2>1. IsRewind(r, first, m, branch, 0)
      BY DEF IsRewind
  <2> QED
      BY <2>1
<1>2. ASSUME NEW n \in S \cap Nat PROVE n + 1 \in S
  <2>1. PICK r : IsRewind(r, first, m, branch, n)
      OBVIOUS
  <2> DEFINE new == RewindRound(first, m, branch, r[n], n + 1)
             g == [i \in 0..n + 1 |-> IF i = n + 1 THEN new ELSE r[i]]
  <2>2. \A i \in 0..n : r[i] = IF i = 0 THEN RewindFirst(first, m, branch) ELSE RewindRound(first, m, branch, r[i - 1], i)
      BY <2>1 DEF IsRewind
  <2> HIDE DEF new
  <2>3. g[n + 1] = new /\ \A i \in 0..n : g[i] = r[i]
      OBVIOUS
  <2> DEFINE s == [i \in 0..n + 1 |-> IF i = 0 THEN RewindFirst(first, m, branch) ELSE RewindRound(first, m, branch, g[i - 1], i)]
  <2>4. ASSUME NEW i \in 0..n + 1
        PROVE  g[i] = IF i = 0 THEN RewindFirst(first, m, branch) ELSE RewindRound(first, m, branch, g[i - 1], i)
    <3> HIDE DEF g
    <3>1. CASE i = n + 1
      <4>1. i - 1 = n /\ i # 0 /\ n \in 0..n
          BY <3>1
      <4>2. g[i - 1] = r[n]
          BY <2>3, <4>1
      <4> QED
          BY <2>3, <3>1, <4>1, <4>2 DEF new
    <3>2. CASE i = 0
        BY <2>2, <2>3, <3>2
    <3>3. CASE i # 0 /\ i # n + 1
      <4>1. i \in 0..n /\ i - 1 \in 0..n
          BY <3>3
      <4>2. g[i] = r[i] /\ g[i - 1] = r[i - 1]
          BY <2>3, <4>1
      <4>3. r[i] = RewindRound(first, m, branch, r[i - 1], i)
          BY <2>2, <3>3, <4>1
      <4> QED
          BY <3>3, <4>2, <4>3
    <3> QED
        BY <3>1, <3>2, <3>3
  <2>5. g = s
      BY <2>4
  <2>6. IsRewind(g, first, m, branch, n + 1)
      BY <2>5 DEF IsRewind
  <2> QED
      BY <2>6
<1>3. Nat \subseteq S
  <2> HIDE DEF S
  <2> QED
      BY <1>1, <1>2, NatInd
<1> QED
    BY <1>3

\* vResurrect
PushFirst(txs) == <<>>
PushRound(txs, s, i) == PushBack(s, txs[i])
IsPush(r, txs, n) ==
    r = [i \in 0..n |-> IF i = 0 THEN PushFirst(txs) ELSE PushRound(txs, r[i - 1], i)]

LEMMA PushExists ==
    ASSUME NEW txs
    PROVE  \A n \in Nat : \E r : IsPush(r, txs, n)
<1> DEFINE S == {n \in Nat : \E r : IsPush(r, txs, n)}
<1>1. 0 \in S
  <2> DEFINE r == [i \in 0..0 |-> PushFirst(txs)]
  <2>1. IsPush(r, txs, 0)
      BY DEF IsPush
  <2> QED
      BY <2>1
<1>2. ASSUME NEW n \in S \cap Nat PROVE n + 1 \in S
  <2>1. PICK r : IsPush(r, txs, n)
      OBVIOUS
  <2> DEFINE new == PushRound(txs, r[n], n + 1)
             g == [i \in 0..n + 1 |-> IF i = n + 1 THEN new ELSE r[i]]
  <2>2. \A i \in 0..n : r[i] = IF i = 0 THEN PushFirst(txs) ELSE PushRound(txs, r[i - 1], i)
      BY <2>1 DEF IsPush
  <2> HIDE DEF new
  <2>3. g[n + 1] = new /\ \A i \in 0..n : g[i] = r[i]
      OBVIOUS
  <2> DEFINE s == [i \in 0..n + 1 |-> IF i = 0 THEN PushFirst(txs) ELSE PushRound(txs, g[i - 1], i)]
  <2>4. ASSUME NEW i \in 0..n + 1
        PROVE  g[i] = IF i = 0 THEN PushFirst(txs) ELSE PushRound(txs, g[i - 1], i)
    <3> HIDE DEF g
    <3>1. CASE i = n + 1
      <4>1. i - 1 = n /\ i # 0 /\ n \in 0..n
          BY <3>1
      <4>2. g[i - 1] = r[n]
          BY <2>3, <4>1
      <4> QED
          BY <2>3, <3>1, <4>1, <4>2 DEF new
    <3>2. CASE i = 0
        BY <2>2, <2>3, <3>2
    <3>3. CASE i # 0 /\ i # n + 1
      <4>1. i \in 0..n /\ i - 1 \in 0..n
          BY <3>3
      <4>2. g[i] = r[i] /\ g[i - 1] = r[i - 1]
          BY <2>3, <4>1
      <4>3. r[i] = PushRound(txs, r[i - 1], i)
          BY <2>2, <3>3, <4>1
      <4> QED
          BY <3>3, <4>2, <4>3
    <3> QED
        BY <3>1, <3>2, <3>3
  <2>5. g = s
      BY <2>4
  <2>6. IsPush(g, txs, n + 1)
      BY <2>5 DEF IsPush
  <2> QED
      BY <2>6
<1>3. Nat \subseteq S
  <2> HIDE DEF S
  <2> QED
      BY <1>1, <1>2, NatInd
<1> QED
    BY <1>3

\* the transactions of several blocks
IsFlat(r, seqs, n) == r = [i \in 1..n |-> IF i = 1 THEN seqs[i] ELSE r[i - 1] \o seqs[i]]

LEMMA FlatExists ==
    ASSUME NEW seqs
    PROVE  \A n \in Nat : \E r : IsFlat(r, seqs, n)
<1> DEFINE S == {n \in Nat : \E r : IsFlat(r, seqs, n)}
           Round(s, i) == s \o seqs[i]
<1>1. 0 \in S
  <2> DEFINE r == [i \in 1..0 |-> seqs[i]]
  <2>1. IsFlat(r, seqs, 0)
      BY DEF IsFlat
  <2> QED
      BY <2>1
<1>2. ASSUME NEW n \in S \cap Nat PROVE n + 1 \in S
  <2>1. PICK r : IsFlat(r, seqs, n)
      OBVIOUS
  <2> DEFINE new == IF n = 0 THEN seqs[1] ELSE Round(r[n], n + 1)
             g == [i \in 1..n + 1 |-> IF i = n + 1 THEN new ELSE r[i]]
  <2>2. \A i \in 1..n : r[i] = IF i = 1 THEN seqs[i] ELSE Round(r[i - 1], i)
      BY <2>1 DEF IsFlat
  <2> HIDE DEF new, Round
  <2>3. g[n + 1] = new /\ \A i \in 1..n : g[i] = r[i]
      OBVIOUS
  <2> DEFINE s == [i \in 1..n + 1 |-> IF i = 1 THEN seqs[i] ELSE Round(g[i - 1], i)]
  <2>4. ASSUME NEW i \in 1..n + 1
        PROVE  g[i] = IF i = 1 THEN seqs[i] ELSE Round(g[i - 1], i)
    <3> HIDE DEF g
    <3>1. CASE i = n + 1 /\ n # 0
      <4>1. i - 1 = n /\ i # 1 /\ n \in 1..n
          BY <3>1
      <4>2. g[i - 1] = r[n]
          BY <2>3, <4>1
      <4> QED
          BY <2>3, <3>1, <4>1, <4>2 DEF new
    <3>2. CASE i = n + 1 /\ n = 0
        BY <2>3, <3>2 DEF new
    <3>3. CASE i # n + 1 /\ i = 1
        BY <2>2, <2>3, <3>3
    <3>4. CASE i # 1 /\ i # n + 1
      <4>1. i \in 1..n /\ i - 1 \in 1..n
          BY <3>4
      <4>2. g[i] = r[i] /\ g[i - 1] = r[i - 1]
          BY <2>3, <4>1
      <4>3. r[i] = Round(r[i - 1], i)
          BY <2>2, <3>4, <4>1
      <4> QED
          BY <3>4, <4>2, <4>3
    <3> QED
        BY <3>1, <3>2, <3>3, <3>4
  <2>5. g = s
      BY <2>4
  <2>6. IsFlat(g, seqs, n + 1)
      BY <2>5 DEF IsFlat, Round
  <2> QED
      BY <2>6
<1>3. Nat \subseteq S
  <2> HIDE DEF S
  <2> QED
      BY <1>1, <1>2, NatInd
<1> QED
    BY <1>3

\* what each loop computes
ScanBy(r, index, b, h) ==
    /\ Scan(index, b, h) = r[Len(b)]
    /\ r[0] = [ok |-> TRUE, queue |-> NoRecords, fees |-> 0]
    /\ \A i \in 1..Len(b) : r[i] = ConnectTx(index, r[i - 1], b[i], h)

LEMMA ScanRounds ==
    ASSUME NEW index, NEW b \in Seq(Tx), NEW h
    PROVE  \E r : ScanBy(r, index, b, h)
<1> DEFINE r == CHOOSE r : IsScan(r, index, b, h, Len(b))
<1>1. Len(b) \in Nat
    OBVIOUS
<1>2. Scan(index, b, h) = r[Len(b)]
    BY DEF Scan, IsScan, ScanFirst, ScanRound
<1>3. IsScan(r, index, b, h, Len(b))
    BY <1>1, ScanExists
<1> HIDE DEF r
<1>4. /\ r[0] = ScanFirst(index, b, h)
      /\ \A i \in 1..Len(b) : r[i] = ScanRound(index, b, h, r[i - 1], i)
    BY <1>1, <1>3 DEF IsScan
<1> QED
    BY <1>2, <1>4 DEF ScanFirst, ScanRound, ScanBy

LEMMA UndoRounds ==
    ASSUME NEW index, NEW b \in Seq(Tx)
    PROVE  \E r : /\ Undo(index, b) = r[Len(b)]
                  /\ r[0] = [ok |-> TRUE, index |-> index]
                  /\ \A i \in 1..Len(b) : r[i] = DisconnectTx(r[i - 1], b[Len(b) + 1 - i])
<1> DEFINE r == CHOOSE r : IsUndo(r, index, b, Len(b))
<1>1. Len(b) \in Nat
    OBVIOUS
<1>2. Undo(index, b) = r[Len(b)]
    BY DEF Undo, IsUndo, UndoFirst, UndoRound
<1>3. IsUndo(r, index, b, Len(b))
    BY <1>1, UndoExists
<1> HIDE DEF r
<1>4. /\ r[0] = UndoFirst(index, b)
      /\ \A i \in 1..Len(b) : r[i] = UndoRound(index, b, r[i - 1], i)
    BY <1>1, <1>3 DEF IsUndo
<1> QED
    BY <1>2, <1>4 DEF UndoFirst, UndoRound

LEMMA UnwindRounds ==
    ASSUME NEW k \in Nat
    PROVE  \E r : /\ Unwound(k) = r[k]
                  /\ r[0] = [ok |-> TRUE, index |-> txindex]
                  /\ \A i \in 1..k : r[i] = TakeOff(r[i - 1], Disconnected(k)[i])
<1> DEFINE r == CHOOSE r : IsUnwind(r, txindex, Disconnected(k), k)
<1>1. Unwound(k) = r[k]
    BY DEF Unwound, IsUnwind, UnwindFirst, UnwindRound
<1>2. IsUnwind(r, txindex, Disconnected(k), k)
    BY UnwindExists
<1> HIDE DEF r
<1>3. /\ r[0] = UnwindFirst(txindex, Disconnected(k))
      /\ \A i \in 1..k : r[i] = UnwindRound(txindex, Disconnected(k), r[i - 1], i)
    BY <1>2 DEF IsUnwind
<1> QED
    BY <1>1, <1>3 DEF UnwindFirst, UnwindRound

LEMMA RewindRounds ==
    ASSUME NEW k \in Nat, NEW branch, Len(branch) \in Nat
    PROVE  \E r : /\ Rewound(k, branch) = r[Len(branch)]
                  /\ r[0] = Unwound(k)
                  /\ \A i \in 1..Len(branch) : r[i] = PutOn(r[i - 1], branch[i], Len(chain) - k + i)
<1> DEFINE m == Len(chain) - k
           r == CHOOSE r : IsRewind(r, Unwound(k), m, branch, Len(branch))
<1>1. Rewound(k, branch) = r[Len(branch)]
    BY DEF Rewound, IsRewind, RewindFirst, RewindRound
<1>2. IsRewind(r, Unwound(k), m, branch, Len(branch))
    BY RewindExists
<1> HIDE DEF r, m
<1>3. /\ r[0] = RewindFirst(Unwound(k), m, branch)
      /\ \A i \in 1..Len(branch) : r[i] = RewindRound(Unwound(k), m, branch, r[i - 1], i)
    BY <1>2 DEF IsRewind
<1> QED
    BY <1>1, <1>3 DEF RewindFirst, RewindRound, m

LEMMA PushRounds ==
    ASSUME NEW txs \in Seq(Tx)
    PROVE  \E r : /\ Pushed(txs) = r[Len(txs)]
                  /\ r[0] = <<>>
                  /\ \A i \in 1..Len(txs) : r[i] = PushBack(r[i - 1], txs[i])
<1> DEFINE r == CHOOSE r : IsPush(r, txs, Len(txs))
<1>1. Len(txs) \in Nat
    OBVIOUS
<1>2. Pushed(txs) = r[Len(txs)]
    BY DEF Pushed, IsPush, PushFirst, PushRound
<1>3. IsPush(r, txs, Len(txs))
    BY <1>1, PushExists
<1> HIDE DEF r
<1>4. r[0] = PushFirst(txs) /\ \A i \in 1..Len(txs) : r[i] = PushRound(txs, r[i - 1], i)
    BY <1>1, <1>3 DEF IsPush
<1> QED
    BY <1>2, <1>4 DEF PushFirst, PushRound

LEMMA FlatRounds ==
    ASSUME NEW seqs, Len(seqs) \in Nat, Len(seqs) # 0
    PROVE  \E r : /\ FlattenSeq(seqs) = r[Len(seqs)]
                  /\ r[1] = seqs[1]
                  /\ \A i \in 2..Len(seqs) : r[i] = r[i - 1] \o seqs[i]
<1> DEFINE r == CHOOSE r : IsFlat(r, seqs, Len(seqs))
<1>1. FlattenSeq(seqs) = r[Len(seqs)]
    BY DEF FlattenSeq, IsFlat
<1>2. IsFlat(r, seqs, Len(seqs))
    BY FlatExists
<1> HIDE DEF r
<1>3. \A i \in 1..Len(seqs) : r[i] = IF i = 1 THEN seqs[i] ELSE r[i - 1] \o seqs[i]
    BY <1>2 DEF IsFlat
<1>4. 1 \in 1..Len(seqs) /\ \A i \in 2..Len(seqs) : i \in 1..Len(seqs) /\ i # 1
    OBVIOUS
<1>5. r[1] = seqs[1]
    BY <1>3, <1>4
<1>6. ASSUME NEW i \in 2..Len(seqs) PROVE r[i] = r[i - 1] \o seqs[i]
    BY <1>3, <1>4
<1> QED
    BY <1>1, <1>5, <1>6

-----------------------------------------------------------------------------
(* The values of a transaction's outputs add up to a number: the fold over them is *)
(* defined by choosing elements, so by induction on the size of the set *)

Pick(s) == CHOOSE x \in s : TRUE
SumRound(F, g, s) == IF s = {} THEN 0 ELSE F[Pick(s)] + g[s \ {Pick(s)}]
IsSum(g, F, S) == g = [s \in SUBSET S |-> SumRound(F, g, s)]

LEMMA PickIs == ASSUME NEW s, s # {} PROVE Pick(s) \in s
    BY DEF Pick

LEMMA Smaller ==
    ASSUME NEW S, IsFiniteSet(S), NEW s \in SUBSET S, NEW n \in Nat, Cardinality(s) <= n + 1
    PROVE  /\ Cardinality(s) \in Nat
           /\ s # {} => /\ s \ {Pick(s)} \in SUBSET S
                        /\ Cardinality(s \ {Pick(s)}) <= n
<1>1. IsFiniteSet(s) /\ Cardinality(s) \in Nat
    BY FS_Subset, FS_CardinalityType
<1>2. ASSUME s # {} PROVE Cardinality(s \ {Pick(s)}) = Cardinality(s) - 1
    BY <1>1, <1>2, PickIs, FS_RemoveElement
<1> QED
    BY <1>1, <1>2

LEMMA SumExists ==
    ASSUME NEW S, IsFiniteSet(S), NEW F
    PROVE  \E g : IsSum(g, F, S)
<1> DEFINE Good(g, n) == \A s \in SUBSET S : Cardinality(s) <= n => g[s] = SumRound(F, g, s)
           T == {n \in Nat : \E g : Good(g, n)}
<1>1. 0 \in T
  <2> DEFINE g == [s \in SUBSET S |-> 0]
  <2>1. ASSUME NEW s \in SUBSET S, Cardinality(s) <= 0 PROVE s = {}
    <3>1. IsFiniteSet(s) /\ Cardinality(s) \in Nat
        BY FS_Subset, FS_CardinalityType
    <3> QED
        BY <2>1, <3>1, FS_EmptySet
  <2>2. Good(g, 0)
      BY <2>1 DEF SumRound
  <2> QED
      BY <2>2
<1>2. ASSUME NEW n \in T \cap Nat PROVE n + 1 \in T
  <2>1. PICK g : Good(g, n)
      OBVIOUS
  <2> DEFINE h == [s \in SUBSET S |-> IF Cardinality(s) <= n THEN g[s] ELSE SumRound(F, g, s)]
  <2>2. ASSUME NEW s \in SUBSET S PROVE h[s] = IF Cardinality(s) <= n THEN g[s] ELSE SumRound(F, g, s)
      OBVIOUS
  <2> HIDE DEF h
  <2>3. ASSUME NEW s \in SUBSET S, Cardinality(s) <= n + 1 PROVE h[s] = SumRound(F, h, s)
    <3>1. h[s] = SumRound(F, g, s)
        BY <2>1, <2>2
    <3>2. ASSUME s # {} PROVE h[s \ {Pick(s)}] = g[s \ {Pick(s)}]
      <4>1. s \ {Pick(s)} \in SUBSET S /\ Cardinality(s \ {Pick(s)}) <= n
          BY <2>3, <3>2, Smaller
      <4> QED
          BY <2>2, <4>1
    <3>3. SumRound(F, g, s) = SumRound(F, h, s)
        BY <3>2 DEF SumRound
    <3> QED
        BY <3>1, <3>3
  <2>4. Good(h, n + 1)
      BY <2>3
  <2> QED
      BY <2>4
<1> HIDE DEF T
<1>3. Nat \subseteq T
    BY <1>1, <1>2, NatInd
<1>4. PICK g : Good(g, Cardinality(S))
    BY <1>3, FS_CardinalityType DEF T
<1>5. \A s \in SUBSET S : g[s] = SumRound(F, g, s)
  <2>1. \A s \in SUBSET S : Cardinality(s) <= Cardinality(S)
      BY FS_Subset
  <2> QED
      BY <1>4, <2>1
<1> DEFINE h == [s \in SUBSET S |-> g[s]]
<1>6. ASSUME NEW s \in SUBSET S PROVE SumRound(F, g, s) = SumRound(F, h, s)
  <2>1. s # {} => h[s \ {Pick(s)}] = g[s \ {Pick(s)}]
      OBVIOUS
  <2> HIDE DEF h
  <2> QED
      BY <2>1 DEF SumRound
<1>7. h = [s \in SUBSET S |-> SumRound(F, h, s)]
    BY <1>5, <1>6
<1> QED
    BY <1>7 DEF IsSum

LEMMA SumInNat ==
    ASSUME NEW S, IsFiniteSet(S), NEW F, \A x \in S : F[x] \in Nat, NEW g, IsSum(g, F, S)
    PROVE  g[S] \in Nat
<1> DEFINE Good(n) == \A s \in SUBSET S : Cardinality(s) <= n => g[s] \in Nat
           T == {n \in Nat : Good(n)}
<1>0. \A s \in SUBSET S : g[s] = SumRound(F, g, s)
    BY DEF IsSum
<1>e. g[{}] = 0
  <2>1. SumRound(F, g, {}) = 0
      BY DEF SumRound
  <2> QED
      BY <1>0, <2>1
<1>1. 0 \in T
  <2>1. ASSUME NEW s \in SUBSET S, Cardinality(s) <= 0 PROVE s = {}
    <3>1. IsFiniteSet(s) /\ Cardinality(s) \in Nat
        BY FS_Subset, FS_CardinalityType
    <3> QED
        BY <2>1, <3>1, FS_EmptySet
  <2> QED
      BY <1>e, <2>1
<1>2. ASSUME NEW n \in T \cap Nat PROVE n + 1 \in T
  <2>1. ASSUME NEW s \in SUBSET S, Cardinality(s) <= n + 1 PROVE g[s] \in Nat
    <3>1. CASE s = {}
        BY <1>e, <3>1
    <3>2. CASE s # {}
      <4>1. s \ {Pick(s)} \in SUBSET S /\ Cardinality(s \ {Pick(s)}) <= n
          BY <2>1, <3>2, Smaller
      <4>2. g[s \ {Pick(s)}] \in Nat /\ Pick(s) \in S
          BY <3>2, <4>1, PickIs
      <4>3. g[s] = F[Pick(s)] + g[s \ {Pick(s)}]
          BY <1>0, <3>2 DEF SumRound
      <4> QED
          BY <4>2, <4>3
    <3> QED
        BY <3>1, <3>2
  <2> QED
      BY <2>1
<1> HIDE DEF T
<1>3. Nat \subseteq T
    BY <1>1, <1>2, NatInd
<1>4. Good(Cardinality(S)) /\ Cardinality(S) \in Nat
    BY <1>3, FS_CardinalityType DEF T
<1> QED
    BY <1>4

LEMMA ValueOutType == ASSUME NEW t \in Tx PROVE ValueOut(t) \in Nat
<1> DEFINE S == 1..Len(Out[t])
           F == Out[t]
           g == CHOOSE g : IsSum(g, F, S)
<1>1. Len(Out[t]) \in Nat /\ \A n \in S : F[n] \in Nat
    BY TxAssumption
<1>2. IsFiniteSet(S)
    BY <1>1, FS_Interval
<1>3. ValueOut(t) = g[S]
    BY DEF ValueOut, MapThenSumSet, MapThenFoldSet, IsSum, SumRound, Pick
<1> HIDE DEF S, F
<1>4. IsSum(g, F, S)
    BY <1>2, SumExists
<1> HIDE DEF g
<1> QED
    BY <1>1, <1>2, <1>3, <1>4, SumInNat

-----------------------------------------------------------------------------
(* Which records a block adds and takes away *)

\* a record with other marks is absent only where it was
Mark(r, p, t, mark) ==
    [r EXCEPT !.spent = [n \in DOMAIN @ |-> IF <<p, n>> \in In[t] THEN mark ELSE @[n]]]

LEMMA AbsentStays == ASSUME NEW p, NEW t, NEW mark PROVE Mark(Absent, p, t, mark) = Absent
<1>1. DOMAIN Absent.spent = {}
    BY DEF Absent
<1> DEFINE f == [n \in DOMAIN Absent.spent |-> IF <<p, n>> \in In[t] THEN mark ELSE Absent.spent[n]]
<1>2. f = Absent.spent
    BY <1>1 DEF Absent
<1>3. Mark(Absent, p, t, mark) = [Absent EXCEPT !.spent = f]
    BY DEF Mark
<1> HIDE DEF f
<1> QED
    BY <1>2, <1>3 DEF Absent

LEMMA QueuedNew ==
    ASSUME NEW index, NEW queue, NEW t, NEW h, NEW p \in Tx,
           index[p] = Absent, queue[p] = Absent, p # t
    PROVE  Queued(index, queue, t, h)[p] = Absent
<1> DEFINE mark == <<h, t>>
<1>1. Fetched(index, queue, p) = Absent
    BY DEF Fetched
<1>2. Queued(index, queue, t, h)[p] =
          IF \E o \in In[t] : o[1] = p THEN Mark(Fetched(index, queue, p), p, t, mark) ELSE queue[p]
    BY DEF Queued, Mark
<1> HIDE DEF mark
<1> QED
    BY <1>1, <1>2, AbsentStays

LEMMA ConnectTxIs ==
    ASSUME NEW index, NEW r, "ok" \in DOMAIN r, NEW t, NEW h
    PROVE  LET s == ConnectTx(index, r, t, h) IN
           /\ "ok" \in DOMAIN s
           /\ s.ok => r.ok /\ s.queue = Queued(index, r.queue, t, h)
<1> DEFINE c == /\ r.ok /\ ~Overwrites(index, t)
                /\ \A o \in In[t] : Spendable(index, r.queue, o, h)
                /\ t \notin Coinbase => ValueOf(In[t]) >= ValueOut(t)
           s == ConnectTx(index, r, t, h)
           f == r.fees + IF t \in Coinbase THEN 0 ELSE ValueOf(In[t]) - ValueOut(t)
<1>1. s = IF c THEN [ok |-> TRUE, queue |-> Queued(index, r.queue, t, h), fees |-> f]
          ELSE [r EXCEPT !.ok = FALSE]
    BY Zenon DEF ConnectTx
<1>2. c => r.ok
    OBVIOUS
<1> HIDE DEF c, s, f
<1>3. CASE c
    BY <1>1, <1>2, <1>3 DEF s
<1>4. CASE ~c
  <2>1. s = [r EXCEPT !.ok = FALSE]
      BY <1>1, <1>4
  <2>2. "ok" \in DOMAIN s /\ ~s.ok
      BY <2>1
  <2> QED
      BY <2>2 DEF s
<1> QED
    BY <1>3, <1>4

\* ConnectBlock writes records of the block's own transactions, and marks others
LEMMA UpdatedAdds ==
    ASSUME NEW index, NEW b \in Seq(Tx), NEW h, Scan(index, b, h).ok,
           NEW p \in Tx, index[p] = Absent, p \notin ToSet(b)
    PROVE  Updated(index, b, h)[p] = Absent
<1>1. PICK r : /\ Scan(index, b, h) = r[Len(b)]
               /\ r[0] = [ok |-> TRUE, queue |-> NoRecords, fees |-> 0]
               /\ \A i \in 1..Len(b) : r[i] = ConnectTx(index, r[i - 1], b[i], h)
  <2>1. PICK r : ScanBy(r, index, b, h)
      BY ScanRounds
  <2> QED
      BY <2>1 DEF ScanBy
<1>2. Len(b) \in Nat /\ \A i \in 1..Len(b) : b[i] # p
    BY DEF ToSet
<1> DEFINE Good(s) == "ok" \in DOMAIN s /\ (s.ok => s.queue[p] = Absent)
           S == {n \in Nat : n <= Len(b) => Good(r[n])}
<1>3. 0 \in S
    BY <1>1 DEF NoRecords
<1>4. ASSUME NEW n \in S \cap Nat PROVE n + 1 \in S
  <2> SUFFICES ASSUME n + 1 <= Len(b) PROVE Good(r[n + 1])
      OBVIOUS
  <2>1. PICK m \in 1..Len(b) : m = n + 1 /\ m - 1 = n
      BY <1>2
  <2> DEFINE s == r[m - 1]
             t == b[m]
  <2>2. Good(s) /\ r[m] = ConnectTx(index, s, t, h) /\ t # p
      BY <1>1, <1>2, <2>1
  <2> HIDE DEF s, t
  <2> DEFINE u == ConnectTx(index, s, t, h)
  <2>3. "ok" \in DOMAIN u /\ (u.ok => s.ok /\ u.queue = Queued(index, s.queue, t, h))
      BY <2>2, ConnectTxIs
  <2>4. s.ok => Queued(index, s.queue, t, h)[p] = Absent
      BY <2>2, QueuedNew
  <2> HIDE DEF u
  <2>5. Good(u)
      BY <2>3, <2>4
  <2> QED
      BY <2>1, <2>2, <2>5 DEF u
<1> HIDE DEF S
<1>5. Nat \subseteq S
    BY <1>3, <1>4, NatInd
<1>6. Good(r[Len(b)])
    BY <1>2, <1>5 DEF S
<1>7. Scan(index, b, h).queue[p] = Absent
    BY <1>1, <1>6
<1> QED
    BY <1>7 DEF Updated, Fetched

\* the index after t, when every record that t needs is there
Erased(x, t) == [Released(x, t) EXCEPT ![t] = Absent]

LEMMA DisconnectTxIs ==
    ASSUME NEW r, "ok" \in DOMAIN r, NEW t
    PROVE  LET s == DisconnectTx(r, t) IN
           "ok" \in DOMAIN s /\ (s.ok => r.ok /\ s.index = Erased(r.index, t))
<1> DEFINE c == r.ok /\ \A o \in In[t] : o[2] \in DOMAIN r.index[o[1]].spent
           s == DisconnectTx(r, t)
<1>1. s = IF c THEN [ok |-> TRUE, index |-> Erased(r.index, t)] ELSE [r EXCEPT !.ok = FALSE]
    BY Zenon DEF DisconnectTx, Erased
<1>2. c => r.ok
    OBVIOUS
<1> HIDE DEF c, s
<1>3. CASE c
    BY <1>1, <1>2, <1>3 DEF s
<1>4. CASE ~c
  <2>1. s = [r EXCEPT !.ok = FALSE]
      BY <1>1, <1>4
  <2>2. "ok" \in DOMAIN s /\ ~s.ok
      BY <2>1
  <2> QED
      BY <2>2 DEF s
<1> QED
    BY <1>3, <1>4

LEMMA ErasedIs ==
    ASSUME NEW x, NEW t, NEW p \in Tx, x[p] = Absent \/ p = t
    PROVE  Erased(x, t)[p] = Absent
<1> DEFINE y == Released(x, t)
<1>1. DOMAIN y = Tx /\ y[p] = Mark(x[p], p, t, Unspent)
    BY DEF Released, Mark
<1>2. x[p] = Absent => y[p] = Absent
    BY <1>1, AbsentStays
<1> HIDE DEF y
<1>3. Erased(x, t) = [y EXCEPT ![t] = Absent]
    BY DEF Erased, y
<1> QED
    BY <1>1, <1>2, <1>3

\* DisconnectBlock leaves no record of the block, and adds none
LEMMA UndoDrops ==
    ASSUME NEW x, DOMAIN x = Tx, NEW b \in Seq(Tx)
    PROVE  /\ "ok" \in DOMAIN Undo(x, b)
           /\ Undo(x, b).ok =>
                 /\ DOMAIN Undo(x, b).index = Tx
                 /\ \A p \in Tx : x[p] = Absent \/ p \in ToSet(b) => Undo(x, b).index[p] = Absent
<1>1. PICK r : /\ Undo(x, b) = r[Len(b)]
               /\ r[0] = [ok |-> TRUE, index |-> x]
               /\ \A i \in 1..Len(b) : r[i] = DisconnectTx(r[i - 1], b[Len(b) + 1 - i])
    BY UndoRounds
<1>2. Len(b) \in Nat /\ \A p \in ToSet(b) : \E j \in 1..Len(b) : p = b[j]
    BY DEF ToSet
<1> DEFINE Later(p, n) == \E j \in 1..Len(b) : j > Len(b) - n /\ p = b[j]
           Gone(y, n) == DOMAIN y = Tx /\ \A p \in Tx : x[p] = Absent \/ Later(p, n) => y[p] = Absent
           Good(s, n) == "ok" \in DOMAIN s /\ (s.ok => Gone(s.index, n))
           S == {n \in Nat : n <= Len(b) => Good(r[n], n)}
<1>3. 0 \in S
  <2>1. \A p \in Tx : ~Later(p, 0)
      BY <1>2
  <2> QED
      BY <1>1, <2>1
<1>4. ASSUME NEW n \in S \cap Nat PROVE n + 1 \in S
  <2> SUFFICES ASSUME n + 1 <= Len(b) PROVE Good(r[n + 1], n + 1)
      OBVIOUS
  <2>1. PICK m \in 1..Len(b) : m = n + 1 /\ m - 1 = n
      BY <1>2
  <2> DEFINE s == r[m - 1]
             t == b[Len(b) + 1 - m]
             u == DisconnectTx(s, t)
  <2>2. r[m] = u
      BY <1>1
  <2>3. Good(s, n)
      BY <2>1, <1>2
  <2>4. \A p \in Tx : Later(p, n + 1) => Later(p, n) \/ p = t
    <3> SUFFICES ASSUME NEW j \in 1..Len(b), j > Len(b) - (n + 1)
                 PROVE  j > Len(b) - n \/ j = Len(b) + 1 - m
        OBVIOUS
    <3> QED
        BY <1>2, <2>1
  <2> HIDE DEF s, t, Later
  <2>5. "ok" \in DOMAIN u /\ (u.ok => s.ok /\ u.index = Erased(s.index, t))
      BY <2>3, DisconnectTxIs
  <2>6. ASSUME Gone(s.index, n) PROVE Gone(Erased(s.index, t), n + 1)
    <3>1. DOMAIN Erased(s.index, t) = Tx
        BY DEF Erased, Released
    <3>2. ASSUME NEW p \in Tx, x[p] = Absent \/ Later(p, n + 1)
          PROVE  Erased(s.index, t)[p] = Absent
      <4>1. s.index[p] = Absent \/ p = t
          BY <2>4, <2>6, <3>2
      <4> QED
          BY <4>1, ErasedIs
    <3> QED
        BY <3>1, <3>2
  <2> HIDE DEF u, Gone
  <2>7. Good(u, n + 1)
      BY <2>3, <2>5, <2>6
  <2> QED
      BY <2>1, <2>2, <2>7
<1> HIDE DEF S
<1>5. Nat \subseteq S
    BY <1>3, <1>4, NatInd
<1>6. Good(r[Len(b)], Len(b))
    BY <1>2, <1>5 DEF S
<1>7. \A p \in ToSet(b) : Later(p, Len(b))
    BY <1>2
<1> HIDE DEF Later
<1> QED
    BY <1>1, <1>6, <1>7

-----------------------------------------------------------------------------
(* The sequences of Reorganize *)

LEMMA ConcatSet ==
    ASSUME NEW S, NEW a \in Seq(S), NEW b \in Seq(S)
    PROVE  a \o b \in Seq(S) /\ ToSet(a \o b) = ToSet(a) \cup ToSet(b)
<1>1. /\ a \o b \in Seq(S) /\ Len(a \o b) = Len(a) + Len(b)
      /\ Len(a) \in Nat /\ Len(b) \in Nat
      /\ \A i \in 1..Len(a) + Len(b) : (a \o b)[i] = IF i <= Len(a) THEN a[i] ELSE b[i - Len(a)]
    BY ConcatProperties
<1> DEFINE c == a \o b
<1>2. ASSUME NEW i \in 1..Len(c) PROVE c[i] \in ToSet(a) \cup ToSet(b)
  <2>1. CASE i <= Len(a)
      BY <1>1, <2>1 DEF ToSet
  <2>2. CASE i > Len(a)
    <3>1. i - Len(a) \in 1..Len(b) /\ c[i] = b[i - Len(a)]
        BY <1>1, <2>2
    <3> QED
        BY <3>1 DEF ToSet
  <2> QED
      BY <1>1, <2>1, <2>2
<1>3. ASSUME NEW i \in 1..Len(a) PROVE a[i] \in ToSet(c)
  <2>1. i \in 1..Len(c) /\ c[i] = a[i]
      BY <1>1
  <2> HIDE DEF c
  <2> QED
      BY <2>1 DEF ToSet
<1>4. ASSUME NEW i \in 1..Len(b) PROVE b[i] \in ToSet(c)
  <2>1. i + Len(a) \in 1..Len(c) /\ c[i + Len(a)] = b[i]
      BY <1>1
  <2> HIDE DEF c
  <2> QED
      BY <1>1, <2>1 DEF ToSet
<1>5. c \in Seq(S)
    BY <1>1
<1> HIDE DEF c
<1>6. /\ \A x : x \in ToSet(a) <=> \E i \in 1..Len(a) : x = a[i]
      /\ \A x : x \in ToSet(b) <=> \E i \in 1..Len(b) : x = b[i]
      /\ \A x : x \in ToSet(c) <=> \E i \in 1..Len(c) : x = c[i]
    BY <1>5 DEF ToSet
<1>7. ToSet(c) = ToSet(a) \cup ToSet(b)
    BY <1>2, <1>3, <1>4, <1>6
<1> QED
    BY <1>5, <1>7 DEF c

LEMMA AppendSet ==
    ASSUME NEW S, NEW a \in Seq(S), NEW e \in S
    PROVE  Append(a, e) \in Seq(S) /\ ToSet(Append(a, e)) = ToSet(a) \cup {e}
<1> DEFINE c == Append(a, e)
<1>1. /\ c \in Seq(S) /\ Len(c) = Len(a) + 1 /\ Len(a) \in Nat
      /\ \A i \in 1..Len(a) : c[i] = a[i]
      /\ c[Len(a) + 1] = e
    OBVIOUS
<1> HIDE DEF c
<1>2. \A i \in 1..Len(c) : i \in 1..Len(a) \/ i = Len(a) + 1
    BY <1>1
<1>3. 1..Len(a) \subseteq 1..Len(c) /\ Len(a) + 1 \in 1..Len(c)
    BY <1>1
<1> QED
    BY <1>1, <1>2, <1>3 DEF ToSet, c

\* the transactions of several blocks are those of each of them
LEMMA FlatIs ==
    ASSUME NEW seqs \in Seq(Seq(Tx)), Len(seqs) # 0
    PROVE  /\ FlattenSeq(seqs) \in Seq(Tx)
           /\ \A p : p \in ToSet(FlattenSeq(seqs)) <=> \E i \in 1..Len(seqs) : p \in ToSet(seqs[i])
<1>1. Len(seqs) \in Nat /\ \A i \in 1..Len(seqs) : seqs[i] \in Seq(Tx)
    OBVIOUS
<1>2. PICK r : /\ FlattenSeq(seqs) = r[Len(seqs)]
               /\ r[1] = seqs[1]
               /\ \A i \in 2..Len(seqs) : r[i] = r[i - 1] \o seqs[i]
    BY <1>1, FlatRounds
<1> DEFINE Within(p, n) == \E i \in 1..n : p \in ToSet(seqs[i])
           Good(f, n) == f \in Seq(Tx) /\ \A p : p \in ToSet(f) <=> Within(p, n)
           S == {n \in Nat : n + 1 <= Len(seqs) => Good(r[n + 1], n + 1)}
<1>3. 0 \in S
  <2>1. \A p : Within(p, 1) <=> p \in ToSet(seqs[1])
    <3>1. 1..1 = {1}
        OBVIOUS
    <3> QED
        BY <3>1
  <2>2. 1 \in 1..Len(seqs) /\ 0 + 1 = 1
      BY <1>1
  <2> HIDE DEF Within
  <2> QED
      BY <1>1, <1>2, <2>1, <2>2
<1>4. ASSUME NEW n \in S \cap Nat PROVE n + 1 \in S
  <2> SUFFICES ASSUME n + 1 + 1 <= Len(seqs) PROVE Good(r[n + 1 + 1], n + 1 + 1)
      OBVIOUS
  <2>1. PICK m \in 2..Len(seqs) : m = n + 1 + 1 /\ m - 1 = n + 1
      BY <1>1
  <2> DEFINE f == r[m - 1]
             b == seqs[m]
  <2>2. r[m] = f \o b /\ b \in Seq(Tx)
    <3>1. r[m] = r[m - 1] \o seqs[m]
        BY <1>2
    <3>2. m \in 1..Len(seqs)
        BY <1>1
    <3> QED
        BY <1>1, <3>1, <3>2
  <2>3. Good(f, n + 1)
      BY <1>1, <2>1
  <2>4. \A p : Within(p, n + 1 + 1) <=> Within(p, n + 1) \/ p \in ToSet(b)
    <3>1. \A i \in 1..n + 1 + 1 : i \in 1..n + 1 \/ i = m
        BY <2>1
    <3>2. 1..n + 1 \subseteq 1..n + 1 + 1 /\ m \in 1..n + 1 + 1
        BY <2>1
    <3> QED
        BY <3>1, <3>2
  <2> HIDE DEF f, b, Within
  <2>5. f \o b \in Seq(Tx) /\ ToSet(f \o b) = ToSet(f) \cup ToSet(b)
      BY <2>2, <2>3, ConcatSet
  <2>6. Good(f \o b, n + 1 + 1)
      BY <2>3, <2>4, <2>5
  <2> HIDE DEF Good
  <2> QED
      BY <2>1, <2>2, <2>6
<1> HIDE DEF S
<1>5. Nat \subseteq S
    BY <1>3, <1>4, NatInd
<1>6. Len(seqs) - 1 \in S /\ Len(seqs) - 1 + 1 = Len(seqs)
    BY <1>1, <1>5
<1> HIDE DEF Good
<1>7. Good(r[Len(seqs)], Len(seqs))
    BY <1>1, <1>6 DEF S
<1> QED
    BY <1>2, <1>7 DEF Good

\* vResurrect holds transactions of the blocks taken off
LEMMA PushIs ==
    ASSUME NEW txs \in Seq(Tx)
    PROVE  Pushed(txs) \in Seq(Tx) /\ ToSet(Pushed(txs)) \subseteq ToSet(txs)
<1>1. PICK r : /\ Pushed(txs) = r[Len(txs)]
               /\ r[0] = <<>>
               /\ \A i \in 1..Len(txs) : r[i] = PushBack(r[i - 1], txs[i])
    BY PushRounds
<1>2. Len(txs) \in Nat /\ \A i \in 1..Len(txs) : txs[i] \in Tx /\ txs[i] \in ToSet(txs)
    BY DEF ToSet
<1> DEFINE Good(s) == s \in Seq(Tx) /\ ToSet(s) \subseteq ToSet(txs)
           S == {n \in Nat : n <= Len(txs) => Good(r[n])}
<1>3. 0 \in S
  <2>1. r[0] \in Seq(Tx) /\ Len(r[0]) = 0
      BY <1>1, EmptySeq
  <2>2. ToSet(r[0]) = {}
      BY <2>1 DEF ToSet
  <2> QED
      BY <2>1, <2>2
<1>4. ASSUME NEW n \in S \cap Nat PROVE n + 1 \in S
  <2> SUFFICES ASSUME n + 1 <= Len(txs) PROVE Good(r[n + 1])
      OBVIOUS
  <2>1. PICK m \in 1..Len(txs) : m = n + 1 /\ m - 1 = n
      BY <1>2
  <2> DEFINE s == r[m - 1]
             t == txs[m]
  <2>2. r[m] = PushBack(s, t) /\ Good(s) /\ t \in Tx /\ t \in ToSet(txs)
      BY <1>1, <1>2, <2>1
  <2> HIDE DEF s, t
  <2>3. Append(s, t) \in Seq(Tx) /\ ToSet(Append(s, t)) = ToSet(s) \cup {t}
      BY <2>2, AppendSet
  <2>4. Good(PushBack(s, t))
      BY <2>2, <2>3 DEF PushBack
  <2> HIDE DEF Good
  <2> QED
      BY <2>1, <2>2, <2>4
<1> HIDE DEF S
<1>5. Nat \subseteq S
    BY <1>3, <1>4, NatInd
<1> QED
    BY <1>1, <1>2, <1>5 DEF S

LEMMA DisconnectedIs ==
    ASSUME chain \in Seq(Seq(Tx)), NEW k \in Nat, k <= Len(chain)
    PROVE  Disconnected(k) \in Seq(Seq(Tx)) /\ Len(Disconnected(k)) = k
<1> DEFINE m == Len(chain) - k + 1
           s == SubSeq(chain, m, Len(chain))
<1>1. Len(chain) \in Nat /\ m \in Int /\ \A i \in m..Len(chain) : chain[i] \in Seq(Tx)
    OBVIOUS
<1> HIDE DEF m
<1>2. s \in Seq(Seq(Tx)) /\ Len(s) = IF m <= Len(chain) THEN Len(chain) - m + 1 ELSE 0
    BY <1>1, SubSeqProperties
<1>3. Len(s) = k
    BY <1>1, <1>2 DEF m
<1>4. Disconnected(k) = [i \in 1..Len(s) |-> s[Len(s) - i + 1]]
    BY DEF Disconnected, Reverse, m
<1> HIDE DEF s
<1>5. \A i \in 1..k : s[k - i + 1] \in Seq(Tx)
    BY <1>2, <1>3
<1>6. Disconnected(k) = [i \in 1..k |-> s[k - i + 1]]
    BY <1>3, <1>4
<1> QED
    BY <1>5, <1>6

\* the index without the last k blocks has no record of their transactions
LEMMA UnwoundIs ==
    ASSUME DOMAIN txindex = Tx, chain \in Seq(Seq(Tx)), NEW k \in Nat, k <= Len(chain)
    PROVE  /\ "ok" \in DOMAIN Unwound(k)
           /\ Unwound(k).ok =>
                 /\ DOMAIN Unwound(k).index = Tx
                 /\ \A p \in Tx :
                       txindex[p] = Absent \/ (\E i \in 1..k : p \in ToSet(Disconnected(k)[i]))
                       => Unwound(k).index[p] = Absent
<1>1. PICK r : /\ Unwound(k) = r[k]
               /\ r[0] = [ok |-> TRUE, index |-> txindex]
               /\ \A i \in 1..k : r[i] = TakeOff(r[i - 1], Disconnected(k)[i])
    BY UnwindRounds
<1>2. \A i \in 1..k : Disconnected(k)[i] \in Seq(Tx)
    BY DisconnectedIs
<1> DEFINE Off(p, n) == \E i \in 1..n : p \in ToSet(Disconnected(k)[i])
           Gone(y, n) == /\ DOMAIN y = Tx
                         /\ \A p \in Tx : txindex[p] = Absent \/ Off(p, n) => y[p] = Absent
           Good(s, n) == "ok" \in DOMAIN s /\ (s.ok => Gone(s.index, n))
           S == {n \in Nat : n <= k => Good(r[n], n)}
<1>3. 0 \in S
  <2>1. \A p \in Tx : ~Off(p, 0)
      OBVIOUS
  <2> QED
      BY <1>1, <2>1
<1>4. ASSUME NEW n \in S \cap Nat PROVE n + 1 \in S
  <2> SUFFICES ASSUME n + 1 <= k PROVE Good(r[n + 1], n + 1)
      OBVIOUS
  <2>1. PICK m \in 1..k : m = n + 1 /\ m - 1 = n
      OBVIOUS
  <2> DEFINE s == r[m - 1]
             b == Disconnected(k)[m]
             u == Undo(s.index, b)
  <2>2. r[m] = TakeOff(s, b) /\ b \in Seq(Tx)
      BY <1>1, <1>2
  <2>3. Good(s, n)
      BY <2>1
  <2>4. \A p \in Tx : Off(p, n + 1) => Off(p, n) \/ p \in ToSet(b)
    <3>1. \A i \in 1..n + 1 : i \in 1..n \/ i = m
        BY <2>1
    <3> QED
        BY <3>1
  <2> HIDE DEF s, b, Off
  <2>5. CASE s.ok
    <3>1. TakeOff(s, b) = u
        BY <2>5 DEF TakeOff
    <3>2. DOMAIN s.index = Tx
        BY <2>3, <2>5
    <3>3. /\ "ok" \in DOMAIN u
          /\ u.ok => /\ DOMAIN u.index = Tx
                     /\ \A p \in Tx : s.index[p] = Absent \/ p \in ToSet(b) => u.index[p] = Absent
        BY <2>2, <3>2, UndoDrops
    <3> HIDE DEF u
    <3>4. Good(u, n + 1)
        BY <2>3, <2>4, <2>5, <3>3
    <3> HIDE DEF Good
    <3> QED
        BY <2>1, <2>2, <3>1, <3>4
  <2>6. CASE ~s.ok
    <3>1. TakeOff(s, b) = s
        BY <2>6 DEF TakeOff
    <3>2. Good(s, n + 1)
        BY <2>3, <2>6
    <3> HIDE DEF Good
    <3> QED
        BY <2>1, <2>2, <3>1, <3>2
  <2> QED
      BY <2>5, <2>6
<1> HIDE DEF S
<1>5. Nat \subseteq S
    BY <1>3, <1>4, NatInd
<1>6. Good(r[k], k)
    BY <1>5 DEF S
<1> HIDE DEF Off
<1> QED
    BY <1>1, <1>6 DEF Off

LEMMA PutOnIs ==
    ASSUME NEW r, "ok" \in DOMAIN r, NEW b, NEW h
    PROVE  LET s == PutOn(r, b, h) IN
           /\ "ok" \in DOMAIN s
           /\ s.ok => r.ok /\ Connects(r.index, b, h) /\ s.index = Updated(r.index, b, h)
<1> DEFINE c == r.ok /\ Connects(r.index, b, h)
           s == PutOn(r, b, h)
<1>1. s = IF c THEN [ok |-> TRUE, index |-> Updated(r.index, b, h)] ELSE [r EXCEPT !.ok = FALSE]
    BY Zenon DEF PutOn
<1>2. c => r.ok /\ Connects(r.index, b, h)
    OBVIOUS
<1> HIDE DEF c, s
<1>3. CASE c
    BY <1>1, <1>2, <1>3 DEF s
<1>4. CASE ~c
  <2>1. s = [r EXCEPT !.ok = FALSE]
      BY <1>1, <1>4
  <2>2. "ok" \in DOMAIN s /\ ~s.ok
      BY <2>1
  <2> QED
      BY <2>2 DEF s
<1> QED
    BY <1>3, <1>4

\* after a reorganisation a record belongs to a block of the new branch, or to one
\* that both branches share
LEMMA RewoundIs ==
    ASSUME DOMAIN txindex = Tx, chain \in Seq(Seq(Tx)), NEW k \in Nat, k <= Len(chain),
           NEW branch \in Seq(Seq(Tx)), Len(branch) # 0, Rewound(k, branch).ok
    PROVE  /\ DOMAIN Rewound(k, branch).index = Tx
           /\ \A p \in Tx :
                 /\ txindex[p] = Absent \/ (\E i \in 1..k : p \in ToSet(Disconnected(k)[i]))
                 /\ \A i \in 1..Len(branch) : p \notin ToSet(branch[i])
                 => Rewound(k, branch).index[p] = Absent
<1>0. Len(branch) \in Nat /\ \A i \in 1..Len(branch) : branch[i] \in Seq(Tx)
    OBVIOUS
<1>1. PICK r : /\ Rewound(k, branch) = r[Len(branch)]
               /\ r[0] = Unwound(k)
               /\ \A i \in 1..Len(branch) : r[i] = PutOn(r[i - 1], branch[i], Len(chain) - k + i)
    BY <1>0, RewindRounds
<1> DEFINE Off(p) == txindex[p] = Absent \/ \E i \in 1..k : p \in ToSet(Disconnected(k)[i])
           New(p) == \E i \in 1..Len(branch) : p \in ToSet(branch[i])
           Gone(y) == DOMAIN y = Tx /\ \A p \in Tx : Off(p) /\ ~New(p) => y[p] = Absent
           Good(s) == "ok" \in DOMAIN s /\ (s.ok => Gone(s.index))
           S == {n \in Nat : n <= Len(branch) => Good(r[n])}
<1>2. Good(Unwound(k))
  <2>1. /\ "ok" \in DOMAIN Unwound(k)
        /\ Unwound(k).ok => /\ DOMAIN Unwound(k).index = Tx
                            /\ \A p \in Tx : Off(p) => Unwound(k).index[p] = Absent
      BY UnwoundIs
  <2> HIDE DEF Off, New
  <2> QED
      BY <2>1
<1> HIDE DEF Off
<1>3. 0 \in S
    BY <1>1, <1>2
<1>4. ASSUME NEW n \in S \cap Nat PROVE n + 1 \in S
  <2> SUFFICES ASSUME n + 1 <= Len(branch) PROVE Good(r[n + 1])
      OBVIOUS
  <2> DEFINE l == Len(branch)
  <2>0. n \in Nat /\ l \in Nat /\ n + 1 <= l /\ Good(r[n])
    <3> HIDE DEF Good
    <3> QED
        BY <1>0
  <2> HIDE DEF l, Good
  <2>m. PICK m \in 1..l : m = n + 1 /\ m - 1 = n
      BY <2>0
  <2>1. m \in 1..Len(branch) /\ m = n + 1 /\ m - 1 = n
      BY <2>m DEF l
  <2> DEFINE s == r[m - 1]
             b == branch[m]
             h == Len(chain) - k + m
             u == PutOn(s, b, h)
  <2>2. r[m] = u /\ b \in Seq(Tx)
      BY <1>0, <1>1, <2>1
  <2>3. Good(s)
      BY <2>0, <2>1
  <2>4. \A p \in Tx : ~New(p) => p \notin ToSet(b)
      BY <2>1
  <2> HIDE DEF s, b, h, New
  <2>5. /\ "ok" \in DOMAIN u
        /\ u.ok => s.ok /\ Connects(s.index, b, h) /\ u.index = Updated(s.index, b, h)
      BY <2>3, PutOnIs DEF Good
  <2>6. ASSUME s.ok, Connects(s.index, b, h) PROVE Gone(Updated(s.index, b, h))
    <3>1. Scan(s.index, b, h).ok
        BY <2>6 DEF Connects
    <3>2. DOMAIN Updated(s.index, b, h) = Tx
        BY DEF Updated
    <3>3. ASSUME NEW p \in Tx, Off(p), ~New(p) PROVE Updated(s.index, b, h)[p] = Absent
      <4>1. s.index[p] = Absent /\ p \notin ToSet(b)
          BY <2>3, <2>4, <2>6, <3>3 DEF Good
      <4> QED
          BY <2>2, <3>1, <4>1, UpdatedAdds
    <3> QED
        BY <3>2, <3>3
  <2> HIDE DEF u, Gone
  <2>7. Good(u)
      BY <2>5, <2>6 DEF Good
  <2> QED
      BY <2>1, <2>2, <2>7
<1> HIDE DEF S
<1>5. Nat \subseteq S
    BY <1>3, <1>4, NatInd
<1>6. Good(Rewound(k, branch))
    BY <1>0, <1>1, <1>5 DEF S
<1> QED
    BY <1>6 DEF Off

-----------------------------------------------------------------------------
(* The pool and the chain *)

ChainTypes ==
    /\ chain \in Seq(Seq(Tx)) /\ best \in Seq(Seq(Tx)) /\ DOMAIN txindex = Tx
    /\ IsFiniteSet(mapTx) /\ prevKeys \subseteq Tx
    /\ resurrect \in Seq(Tx) /\ delete \in Seq(Tx) /\ erase \subseteq Tx
    /\ template = None \/ template.txs \in Seq(Tx)

\* what is in the pool, or about to be put there unchecked, and in the chain is
\* also about to be removed
Covered == \A t \in mapTx \cup ToSet(resurrect) : txindex[t] # Absent => t \in ToSet(delete)

\* a chain update is over when nothing is left to be put back or removed
Settled == chain = best => resurrect = <<>> /\ delete = <<>>

ChainInv == ChainTypes /\ Covered /\ Settled

LEMMA ParentsInTx == ASSUME NEW t \in Tx PROVE Parents(t) \subseteq Tx
    BY TxAssumption DEF Parents

LEMMA ChainInit == Init => ChainInv
<1> SUFFICES ASSUME Init PROVE ChainInv
    OBVIOUS
<1>1. /\ chain = <<>> /\ best = <<>> /\ txindex = NoRecords
      /\ mapTx = {} /\ prevKeys = {} /\ resurrect = <<>> /\ delete = <<>>
      /\ erase = {} /\ template = None
    BY DEF Init
<1>2. <<>> \in Seq(Tx) /\ <<>> \in Seq(Seq(Tx)) /\ ToSet(<<>>) = {}
    BY EmptySeq DEF ToSet
<1>3. DOMAIN txindex = Tx
    BY <1>1 DEF NoRecords
<1>4. ChainTypes
    BY <1>1, <1>2, <1>3, FS_EmptySet DEF ChainTypes
<1>5. Covered /\ Settled
    BY <1>1, <1>2 DEF Covered, Settled
<1> QED
    BY <1>4, <1>5 DEF ChainInv

\* the steps that take a transaction into the pool with all checks, or none
LEMMA SameChain ==
    ASSUME ChainInv, UNCHANGED <<chainVars, updateVars>>,
           mapTx' = mapTx \/ \E t \in Tx : txindex[t] = Absent /\ mapTx' = mapTx \cup {t},
           prevKeys' \subseteq Tx, erase' \subseteq Tx,
           template' = template \/ template' = None \/ template'.txs \in Seq(Tx)
    PROVE  ChainInv'
<1>1. IsFiniteSet(mapTx')
  <2>1. IsFiniteSet(mapTx)
      BY DEF ChainInv, ChainTypes
  <2>2. \A t : IsFiniteSet(mapTx \cup {t})
      BY <2>1, FS_AddElement
  <2> QED
      BY <2>1, <2>2
<1>2. UNCHANGED <<chain, txindex, best, resurrect, delete>>
    BY DEF chainVars, updateVars
<1>3. ChainTypes'
    BY <1>1, <1>2 DEF ChainInv, ChainTypes
<1>4. Covered'
    BY <1>2 DEF ChainInv, Covered
<1>5. Settled'
    BY <1>2 DEF ChainInv, Settled
<1> QED
    BY <1>3, <1>4, <1>5 DEF ChainInv

\* a block on top: everything in the pool that it holds is removed next
LEMMA OnTop ==
    ASSUME ChainInv, PoolInv, Idle, NEW b \in Seq(Tx), Connects(txindex, b, Len(chain) + 1),
           txindex' = Updated(txindex, b, Len(chain) + 1), chain' = Append(chain, b),
           delete' = b, UNCHANGED <<best, mapTx, prevKeys, resurrect, erase>>,
           template' = template \/ template' = None
    PROVE  ChainInv'
<1> DEFINE h == Len(chain) + 1
<1>1. Scan(txindex, b, h).ok
    BY DEF Connects
<1>2. DOMAIN txindex' = Tx
    BY DEF Updated
<1>3. resurrect = <<>> /\ delete = <<>> /\ chain = best
    BY DEF ChainInv, Settled, Idle
<1>4. chain \in Seq(Seq(Tx)) /\ Len(chain) \in Nat
    BY DEF ChainInv, ChainTypes
<1>5. chain' \in Seq(Seq(Tx)) /\ Len(chain') = Len(chain) + 1
    BY <1>4
<1>6. ChainTypes'
    BY <1>2, <1>5 DEF ChainInv, ChainTypes
<1>7. Settled'
    BY <1>3, <1>4, <1>5 DEF Settled
<1>8. ToSet(<<>>) = {}
    BY DEF ToSet
<1> HIDE DEF h
<1>9. ASSUME NEW t \in mapTx, t \notin ToSet(b) PROVE txindex'[t] = Absent
  <2>1. t \in Tx /\ txindex[t] = Absent
      BY <1>3, <1>8 DEF PoolInv, ChainInv, Covered
  <2> QED
      BY <1>1, <1>9, <2>1, UpdatedAdds DEF h
<1>10. Covered'
    BY <1>3, <1>8, <1>9 DEF Covered
<1> QED
    BY <1>6, <1>7, <1>10 DEF ChainInv

\* another branch: what it took off is put back, what it put on is removed
LEMMA OtherBranch ==
    ASSUME ChainInv, PoolInv, NEW k \in 1..MaxDepth, NEW branch \in [1..k+1 -> Candidates],
           Reorganize(k, branch)
    PROVE  ChainInv'
<1>1. /\ Idle /\ k <= Len(chain) /\ Len(branch) = k + 1
      /\ Rewound(k, branch).ok /\ txindex' = Rewound(k, branch).index
      /\ chain' = SubSeq(chain, 1, Len(chain) - k) \o branch
      /\ resurrect' = Pushed(FlattenSeq(Disconnected(k)))
      /\ delete' = FlattenSeq(branch)
      /\ UNCHANGED <<best, mapTx, prevKeys, erase, template>>
    BY DEF Reorganize, Resurrected, poolVars, orphanVars, retryVars, minerVars
<1>2. k \in Nat /\ k # 0 /\ k + 1 \in Nat /\ k + 1 # 0
    BY MemPoolAssumption
<1>3. branch \in Seq(Seq(Tx)) /\ Len(branch) # 0
  <2>1. \A i \in 1..k+1 : branch[i] \in Seq(Tx)
      BY MemPoolAssumption
  <2> QED
      BY <1>1, <1>2, <2>1
<1>4. DOMAIN txindex = Tx /\ chain \in Seq(Seq(Tx)) /\ Len(chain) \in Nat
    BY DEF ChainInv, ChainTypes
<1>5. Disconnected(k) \in Seq(Seq(Tx)) /\ Len(Disconnected(k)) = k
    BY <1>1, <1>2, <1>4, DisconnectedIs
<1> DEFINE off == FlattenSeq(Disconnected(k))
<1>6. /\ off \in Seq(Tx)
      /\ \A p : p \in ToSet(off) <=> \E i \in 1..k : p \in ToSet(Disconnected(k)[i])
    BY <1>2, <1>5, FlatIs
<1>7. /\ delete' \in Seq(Tx)
      /\ \A p : p \in ToSet(delete') <=> \E i \in 1..Len(branch) : p \in ToSet(branch[i])
    BY <1>1, <1>3, FlatIs
<1> HIDE DEF off
<1>8. resurrect' \in Seq(Tx) /\ ToSet(resurrect') \subseteq ToSet(off)
    BY <1>1, <1>6, PushIs DEF off
<1>9. /\ DOMAIN txindex' = Tx
      /\ \A p \in Tx : (txindex[p] = Absent \/ p \in ToSet(off)) /\ p \notin ToSet(delete')
                       => txindex'[p] = Absent
    BY <1>1, <1>2, <1>3, <1>4, <1>6, <1>7, RewoundIs
<1>10. chain' \in Seq(Seq(Tx)) /\ Len(chain') = Len(chain) + 1
  <2> DEFINE m == Len(chain) - k
             s == SubSeq(chain, 1, m)
  <2>1. 1 \in Int /\ m \in Nat /\ \A i \in 1..m : chain[i] \in Seq(Tx)
      BY <1>1, <1>2, <1>4
  <2> HIDE DEF m
  <2>2. s \in Seq(Seq(Tx)) /\ Len(s) = IF 1 <= m THEN m - 1 + 1 ELSE 0
      BY <2>1, SubSeqProperties
  <2>3. Len(s) = m
      BY <2>1, <2>2
  <2> HIDE DEF s
  <2>4. s \o branch \in Seq(Seq(Tx)) /\ Len(s \o branch) = Len(s) + Len(branch)
      BY <1>3, <2>2, ConcatProperties
  <2>5. chain' = s \o branch
      BY <1>1 DEF s, m
  <2>6. Len(s) = Len(chain) - k /\ Len(branch) = k + 1
      BY <1>1, <2>3 DEF m
  <2>7. Len(s) + Len(branch) = Len(chain) + 1
      BY <1>2, <1>4, <2>6
  <2> QED
      BY <2>4, <2>5, <2>7
<1>11. resurrect = <<>> /\ delete = <<>> /\ chain = best
    BY <1>1 DEF ChainInv, Settled, Idle
<1>12. ChainTypes'
    BY <1>1, <1>7, <1>8, <1>9, <1>10 DEF ChainInv, ChainTypes
<1>13. Settled'
    BY <1>1, <1>4, <1>10, <1>11 DEF Settled
<1>14. ToSet(<<>>) = {}
    BY DEF ToSet
<1>15. ASSUME NEW t \in mapTx \cup ToSet(resurrect'), t \notin ToSet(delete')
       PROVE  txindex'[t] = Absent
  <2>1. CASE t \in mapTx
    <3>1. t \in Tx /\ txindex[t] = Absent
        BY <1>11, <1>14, <2>1 DEF PoolInv, ChainInv, Covered
    <3> QED
        BY <1>9, <1>15, <3>1
  <2>2. CASE t \in ToSet(resurrect')
    <3>1. \A s \in Seq(Tx) : ToSet(s) \subseteq Tx
        BY DEF ToSet
    <3>2. t \in ToSet(off) /\ t \in Tx
        BY <1>6, <1>8, <2>2, <3>1
    <3> QED
        BY <1>9, <1>15, <3>2
  <2> QED
      BY <2>1, <2>2
<1>16. Covered'
    BY <1>1, <1>15 DEF Covered
<1> QED
    BY <1>12, <1>13, <1>16 DEF ChainInv

LEMMA HeadTailSet ==
    ASSUME NEW s \in Seq(Tx), s # <<>>
    PROVE  Head(s) \in Tx /\ Tail(s) \in Seq(Tx) /\ ToSet(s) = {Head(s)} \cup ToSet(Tail(s))
<1>1. /\ Head(s) = s[1] /\ Head(s) \in Tx /\ Tail(s) \in Seq(Tx) /\ Len(s) \in Nat \ {0}
      /\ Len(Tail(s)) = Len(s) - 1
      /\ \A i \in 1..Len(Tail(s)) : Tail(s)[i] = s[i + 1]
    BY HeadTailProperties, EmptySeq
<1> DEFINE u == Tail(s)
           n == Len(s)
<1> HIDE DEF u, n
<1>2. n \in Nat \ {0} /\ Len(u) = n - 1 /\ \A i \in 1..n - 1 : u[i] = s[i + 1]
    BY <1>1 DEF u, n
<1>3. /\ \A x : x \in ToSet(s) <=> \E i \in 1..n : x = s[i]
      /\ \A x : x \in ToSet(u) <=> \E i \in 1..n - 1 : x = u[i]
  <2>1. DOMAIN s = 1..n
      BY DEF n
  <2>2. u \in Seq(Tx)
      BY <1>1 DEF u
  <2>3. DOMAIN u = 1..n - 1
      BY <1>2, <2>2
  <2> QED
      BY <2>1, <2>3 DEF ToSet
<1>4. \A i \in 1..n : i = 1 \/ (i - 1 \in 1..n - 1 /\ i - 1 + 1 = i)
    BY <1>2
<1>5. ASSUME NEW i \in 1..n PROVE s[i] = s[1] \/ s[i] \in ToSet(u)
  <2>1. CASE i = 1
      BY <2>1
  <2>2. CASE i # 1
    <3>1. i - 1 \in 1..n - 1 /\ i - 1 + 1 = i
        BY <1>4, <2>2
    <3>2. u[i - 1] = s[i]
        BY <1>2, <3>1
    <3> QED
        BY <1>3, <3>1, <3>2
  <2> QED
      BY <2>1, <2>2
<1>6. \A i \in 1..n - 1 : i + 1 \in 1..n
    BY <1>2
<1>7. 1 \in 1..n
    BY <1>2
<1>8. ToSet(s) = {s[1]} \cup ToSet(u)
    BY <1>2, <1>3, <1>5, <1>6, <1>7
<1> QED
    BY <1>1, <1>8 DEF u

\* the next call of Reorganize or SetBestChainInner to the pool
LEMMA UpdateKeepsChain ==
    ASSUME ChainInv, PoolInv, ChainStep
    PROVE  ChainInv'
<1>1. /\ resurrect \in Seq(Tx) /\ delete \in Seq(Tx) /\ IsFiniteSet(mapTx)
      /\ DOMAIN txindex = Tx /\ chain \in Seq(Seq(Tx))
    BY DEF ChainInv, ChainTypes
<1>2. ASSUME NEW s \in Seq(Tx), s # <<>>
      PROVE  /\ Head(s) \in Tx /\ Tail(s) \in Seq(Tx) /\ ToSet(s) = {Head(s)} \cup ToSet(Tail(s))
    BY <1>2, HeadTailSet
<1>3. CASE ResurrectNext
  <2> DEFINE t == Head(resurrect)
  <2>1. /\ resurrect # <<>> /\ resurrect' = Tail(resurrect)
        /\ mapTx' = mapTx \/ mapTx' = mapTx \cup {t}
        /\ UNCHANGED <<chain, txindex, best, delete, prevKeys, erase, template>>
      BY <1>3 DEF ResurrectNext, AddToPool, poolVars, chainVars, orphanVars, retryVars, minerVars
  <2>2. t \in Tx /\ resurrect' \in Seq(Tx) /\ ToSet(resurrect) = {t} \cup ToSet(resurrect')
      BY <1>1, <1>2, <2>1
  <2> HIDE DEF t
  <2>3. IsFiniteSet(mapTx')
      BY <1>1, <2>1, FS_AddElement
  <2>4. ChainTypes'
      BY <2>1, <2>2, <2>3 DEF ChainInv, ChainTypes
  <2>5. mapTx' \cup ToSet(resurrect') \subseteq mapTx \cup ToSet(resurrect)
      BY <2>1, <2>2
  <2>6. Covered'
      BY <2>1, <2>5 DEF ChainInv, Covered
  <2>7. Settled'
      BY <2>1 DEF ChainInv, Settled
  <2> QED
      BY <2>4, <2>6, <2>7 DEF ChainInv
<1>4. CASE DeleteNext
  <2> DEFINE t == Head(delete)
  <2>1. /\ resurrect = <<>> /\ delete # <<>> /\ delete' = Tail(delete)
        /\ mapTx' = mapTx \ {t}
        /\ UNCHANGED <<chain, txindex, best, resurrect, prevKeys, erase, template>>
      BY <1>4 DEF DeleteNext, RemoveFromPool, chainVars, orphanVars, retryVars, minerVars
  <2>2. t \in Tx /\ delete' \in Seq(Tx) /\ ToSet(delete) = {t} \cup ToSet(delete')
      BY <1>1, <1>2, <2>1
  <2> HIDE DEF t
  <2>3. IsFiniteSet(mapTx')
      BY <1>1, <2>1, FS_Subset
  <2>4. ChainTypes'
      BY <2>1, <2>2, <2>3 DEF ChainInv, ChainTypes
  <2>5. ToSet(resurrect') = {}
      BY <2>1 DEF ToSet
  <2>6. Covered'
      BY <2>1, <2>2, <2>5 DEF ChainInv, Covered
  <2>7. Settled'
      BY <2>1 DEF ChainInv, Settled
  <2> QED
      BY <2>4, <2>6, <2>7 DEF ChainInv
<1>5. CASE NewBestBlock
  <2>1. /\ resurrect = <<>> /\ delete = <<>> /\ best' = chain
        /\ UNCHANGED <<chain, txindex, mapTx, resurrect, delete, prevKeys, erase, template>>
      BY <1>5 DEF NewBestBlock, poolVars, orphanVars, updateVars, retryVars, minerVars
  <2>2. ChainTypes'
      BY <2>1 DEF ChainInv, ChainTypes
  <2>3. Covered' /\ Settled'
      BY <2>1 DEF ChainInv, Covered, Settled
  <2> QED
      BY <2>2, <2>3 DEF ChainInv
<1> QED
    BY <1>3, <1>4, <1>5 DEF ChainStep

LEMMA PeerKeepsChain ==
    ASSUME ChainInv, PoolInv, OrphanInv, PeerStep \/ \E t \in Tx : SubmitTx(t)
    PROVE  ChainInv'
<1>1. /\ prevKeys \subseteq Tx /\ erase \subseteq Tx /\ IsFiniteSet(mapTx)
    BY DEF ChainInv, ChainTypes
<1>2. ASSUME NEW t \in Tx, ReceiveTx(t) PROVE ChainInv'
    BY <1>1, <1>2, SameChain
       DEF ReceiveTx, Accepts, Admissible, AddToPool, orphanVars, minerVars
<1>3. ASSUME NEW t \in Tx, SubmitTx(t) PROVE ChainInv'
    BY <1>1, <1>3, SameChain
       DEF SubmitTx, Accepts, Admissible, AddToPool, orphanVars, retryVars, minerVars
<1>4. ASSUME NEW t \in Tx, ReceiveOrphan(t) PROVE ChainInv'
  <2>1. prevKeys' \subseteq prevKeys \cup Parents(t)
      BY <1>4 DEF ReceiveOrphan, AddOrphan
  <2>2. prevKeys' \subseteq Tx
      BY <1>1, <2>1, ParentsInTx
  <2> QED
      BY <1>1, <1>4, <2>2, SameChain DEF ReceiveOrphan, poolVars, retryVars, minerVars
<1>5. ASSUME NEW b \in Candidates, Extend(b) PROVE ChainInv'
  <2>1. b \in Seq(Tx)
      BY MemPoolAssumption
  <2> QED
      BY <1>5, <2>1, OnTop DEF Extend, poolVars, orphanVars, retryVars, minerVars
<1>6. ASSUME NEW k \in 1..MaxDepth, NEW branch \in [1..k+1 -> Candidates], Reorganize(k, branch)
      PROVE  ChainInv'
    BY <1>6, OtherBranch
<1> QED
    BY <1>2, <1>3, <1>4, <1>5, <1>6 DEF PeerStep

LEMMA TxKeepsChain ==
    ASSUME ChainInv, PoolInv, OrphanInv, TxStep
    PROVE  ChainInv'
<1>1. prevKeys \subseteq Tx /\ erase \subseteq Tx
    BY DEF ChainInv, ChainTypes
<1>2. CASE NextPrev
  <2>1. work[reached + 1] \in Tx
      BY <1>2 DEF NextPrev, OrphanInv
  <2> QED
      BY <1>1, <1>2, <2>1, SameChain DEF NextPrev, poolVars, minerVars
<1>3. CASE EndOfTx
  <2>1. prevKeys' \subseteq prevKeys
      BY <1>3 DEF EndOfTx, EraseOrphans, KeysWithout
  <2> QED
      BY <1>1, <1>3, <2>1, SameChain DEF EndOfTx, poolVars, minerVars
<1>4. ASSUME NEW t \in visit, RetryAccepts(t) PROVE ChainInv'
  <2>1. t \in Tx
      BY DEF OrphanInv
  <2> QED
      BY <1>1, <1>4, <2>1, SameChain
         DEF RetryAccepts, Accepts, Admissible, AddToPool, orphanVars, minerVars
<1>5. ASSUME NEW t \in visit, RetryMisses(t) \/ RetryRejects(t) PROVE ChainInv'
  <2>1. t \in Tx
      BY DEF OrphanInv
  <2> QED
      BY <1>1, <1>5, <2>1, SameChain
         DEF RetryMisses, RetryRejects, poolVars, orphanVars, minerVars
<1> QED
    BY <1>2, <1>3, <1>4, <1>5 DEF TxStep

LEMMA MinerKeepsChain ==
    ASSUME ChainInv, PoolInv, MinerStep
    PROVE  ChainInv'
<1>1. /\ prevKeys \subseteq Tx /\ erase \subseteq Tx /\ IsFiniteSet(mapTx)
      /\ template = None \/ template.txs \in Seq(Tx)
    BY DEF ChainInv, ChainTypes
<1>2. CASE ReadBest
    BY <1>1, <1>2, SameChain DEF ReadBest, poolVars, orphanVars, retryVars
<1>3. CASE CreateNewBlock
  <2>1. PICK set \in SUBSET mapTx : \E txs \in SetToSeqs(set) :
            template' = [prev |-> minerPrev, txs |-> txs, fees |-> Collected(txs).fees]
      BY <1>3 DEF CreateNewBlock
  <2>2. PICK txs \in SetToSeqs(set) :
            template' = [prev |-> minerPrev, txs |-> txs, fees |-> Collected(txs).fees]
      BY <2>1
  <2>3. Cardinality(set) \in Nat
      BY <1>1, FS_Subset, FS_CardinalityType
  <2>4. txs \in [1..Cardinality(set) -> Tx]
      BY <2>2 DEF SetToSeqs, PoolInv
  <2>5. template'.txs \in Seq(Tx)
      BY <2>2, <2>3, <2>4
  <2> QED
      BY <1>1, <1>3, <2>5, SameChain DEF CreateNewBlock, poolVars, orphanVars, retryVars
<1>4. CASE CheckWork
  <2>1. PICK c \in Coinbases :
            /\ Connects(txindex, Mined(c), Len(chain) + 1)
            /\ txindex' = Updated(txindex, Mined(c), Len(chain) + 1)
            /\ chain' = Append(chain, Mined(c))
            /\ delete' = Mined(c)
      BY <1>4 DEF CheckWork
  <2>2. c \in Tx /\ template.txs \in Seq(Tx)
      BY <1>1, <1>4, TxAssumption DEF CheckWork, Coinbases
  <2>3. Mined(c) \in Seq(Tx)
      BY <2>2 DEF Mined
  <2> QED
      BY <1>4, <2>1, <2>3, OnTop DEF CheckWork, poolVars, orphanVars, retryVars
<1>5. CASE GiveUp
    BY <1>1, <1>5, SameChain DEF GiveUp, poolVars, orphanVars, retryVars
<1> QED
    BY <1>2, <1>3, <1>4, <1>5 DEF MinerStep

LEMMA ChainHolds == Spec => []ChainInv
<1>1. ASSUME ChainInv, PoolInv, OrphanInv, [Next]_vars PROVE ChainInv'
  <2>1. CASE UNCHANGED vars
    <3>1. UNCHANGED <<chainVars, poolVars, orphanVars, updateVars, retryVars, minerVars>>
        BY <2>1 DEF vars
    <3> QED
        BY <1>1, <3>1 DEF ChainInv, ChainTypes, Covered, Settled, chainVars, poolVars,
           orphanVars, updateVars, retryVars, minerVars
  <2> QED
      BY <1>1, <2>1, TxKeepsChain, UpdateKeepsChain, PeerKeepsChain, MinerKeepsChain DEF Next
<1> QED
    BY ChainInit, PoolHolds, OrphansHold, <1>1, PTL DEF Spec

\* Every variable of the pool, the orphans and the handlers has its type, and the
\* tx handler never looks at an orphan that is no longer stored.
THEOREM TypesHold == Spec => []TypeOK
<1>1. ASSUME ChainInv, PoolInv, OrphanInv PROVE TypeOK
  <2>1. byPrev \subseteq Tx \X Tx
    <3>1. byPrev = UNION {Parents(t) \X {t} : t \in orphans} /\ orphans \subseteq Tx
        BY <1>1 DEF OrphanInv, OrphansIndexed
    <3>2. \A t \in orphans : Parents(t) \subseteq Tx
        BY <3>1, ParentsInTx
    <3> QED
        BY <3>1, <3>2
  <2> QED
      BY <1>1, <2>1 DEF TypeOK, ChainInv, ChainTypes, PoolInv, OrphanInv
<1> QED
    BY ChainHolds, PoolHolds, OrphansHold, <1>1, PTL

\* A reorganisation puts transactions back without checking them against the index,
\* but when cs_main is free again none of them is both in the pool and in the chain.
THEOREM NoneConfirmed == Spec => []PoolNotInChain
<1>1. ASSUME ChainInv, PoolInv PROVE PoolNotInChain
  <2>1. SUFFICES ASSUME Idle, NEW t \in mapTx PROVE txindex[t] = Absent
      BY DEF PoolNotInChain
  <2>2. delete = <<>>
      BY <1>1, <2>1 DEF ChainInv, Settled, Idle
  <2>3. t \notin ToSet(delete)
      BY <2>2 DEF ToSet
  <2> QED
      BY <1>1, <2>3 DEF ChainInv, Covered
<1> QED
    BY ChainHolds, PoolHolds, <1>1, PTL

-----------------------------------------------------------------------------
(* What a reorganisation takes off is put back *)

\* vResurrect has every transaction of the blocks taken off but the coinbases
LEMMA PushAll ==
    ASSUME NEW txs \in Seq(Tx), NEW t \in ToSet(txs), t \notin Coinbase
    PROVE  t \in ToSet(Pushed(txs))
<1>1. PICK r : /\ Pushed(txs) = r[Len(txs)]
               /\ r[0] = <<>>
               /\ \A i \in 1..Len(txs) : r[i] = PushBack(r[i - 1], txs[i])
    BY PushRounds
<1>2. Len(txs) \in Nat /\ \A i \in 1..Len(txs) : txs[i] \in Tx
    OBVIOUS
<1> DEFINE Good(s, n) == s \in Seq(Tx) /\ \A i \in 1..n : txs[i] \in Coinbase \cup ToSet(s)
           S == {n \in Nat : n <= Len(txs) => Good(r[n], n)}
<1>3. 0 \in S
  <2>1. r[0] \in Seq(Tx) /\ 1..0 = {}
      BY <1>1, EmptySeq
  <2> QED
      BY <2>1
<1>4. ASSUME NEW n \in S \cap Nat PROVE n + 1 \in S
  <2> SUFFICES ASSUME n + 1 <= Len(txs) PROVE Good(r[n + 1], n + 1)
      OBVIOUS
  <2>1. PICK m \in 1..Len(txs) : m = n + 1 /\ m - 1 = n
      BY <1>2
  <2> DEFINE s == r[m - 1]
             u == txs[m]
  <2>2. r[m] = PushBack(s, u) /\ Good(s, n) /\ u \in Tx
      BY <1>1, <1>2, <2>1
  <2>3. \A i \in 1..n + 1 : i \in 1..n \/ (i = m /\ txs[i] = u)
      BY <2>1
  <2> HIDE DEF s, u
  <2>4. Append(s, u) \in Seq(Tx) /\ ToSet(Append(s, u)) = ToSet(s) \cup {u}
      BY <2>2, AppendSet
  <2>5. PushBack(s, u) \in Seq(Tx) /\ ToSet(s) \cup {u} \subseteq Coinbase \cup ToSet(PushBack(s, u))
      BY <2>2, <2>4 DEF PushBack
  <2>6. Good(PushBack(s, u), n + 1)
      BY <2>2, <2>3, <2>5
  <2> HIDE DEF Good
  <2> QED
      BY <2>1, <2>2, <2>6
<1> HIDE DEF S
<1>5. Nat \subseteq S
    BY <1>3, <1>4, NatInd
<1>6. \A i \in 1..Len(txs) : txs[i] \in Coinbase \cup ToSet(Pushed(txs))
    BY <1>1, <1>2, <1>5 DEF S
<1> QED
    BY <1>6 DEF ToSet

\* the last k blocks are all among those taken off
LEMMA DisconnectedAll ==
    ASSUME chain \in Seq(Seq(Tx)), NEW k \in Nat, k <= Len(chain),
           NEW i \in 1..Len(chain), i > Len(chain) - k
    PROVE  \E j \in 1..k : Disconnected(k)[j] = chain[i]
<1> DEFINE m == Len(chain) - k + 1
           s == SubSeq(chain, m, Len(chain))
           j == Len(chain) - i + 1
<1>1. Len(chain) \in Nat /\ m \in Int /\ \A x \in m..Len(chain) : chain[x] \in Seq(Tx)
    OBVIOUS
<1>2. /\ j \in 1..k /\ k - j + 1 \in 1..k /\ m + (k - j + 1) - 1 = i
      /\ m <= Len(chain) /\ Len(chain) - m + 1 = k
    OBVIOUS
<1> HIDE DEF m, j
<1>3. /\ s \in Seq(Seq(Tx)) /\ Len(s) = k
      /\ \A x \in 1..Len(s) : s[x] = chain[m + x - 1]
  <2>1. /\ s \in Seq(Seq(Tx)) /\ Len(s) = Len(chain) - m + 1
        /\ \A x \in 1..Len(chain) - m + 1 : s[x] = chain[m + x - 1]
      BY <1>1, <1>2, SubSeqProperties
  <2> QED
      BY <1>2, <2>1
<1>4. Disconnected(k) = [x \in 1..Len(s) |-> s[Len(s) - x + 1]]
    BY DEF Disconnected, Reverse, m
<1> HIDE DEF s
<1>5. Disconnected(k)[j] = s[k - j + 1]
    BY <1>2, <1>3, <1>4
<1>6. s[k - j + 1] = chain[i]
    BY <1>2, <1>3
<1> QED
    BY <1>2, <1>5, <1>6

TxsIn(blocks, t) == \E i \in 1..Len(blocks) : t \in ToSet(blocks[i])

LEMMA TxsOfIs ==
    ASSUME NEW blocks \in Seq(Seq(Tx)), NEW t
    PROVE  t \in TxsOf(blocks) <=> TxsIn(blocks, t)
<1>1. ToSet(blocks) = {blocks[i] : i \in 1..Len(blocks)}
    BY DEF ToSet
<1> QED
    BY <1>1 DEF TxsOf, TxsIn

\* what was in the chain that other threads still see, and is in no block of the new
\* one, is not forgotten; what is to be removed from the pool is in the new one
KeptInv ==
    /\ \A t \in (TxsOf(best) \cap Standard) \ (Coinbase \cup TxsOf(chain)) :
          \/ t \in mapTx \cup ToSet(resurrect)
          \/ \E o \in In[t] : mapNextTx[o] # NoTx \/ SpentInChain(o)
    /\ ToSet(delete) \subseteq TxsOf(chain)

LEMMA SamePoolKept ==
    ASSUME KeptInv, PoolInv, UNCHANGED <<chain, best, updateVars>>,
           UNCHANGED poolVars \/ \E t \in Tx : AddToPool(t)
    PROVE  KeptInv'
<1>1. UNCHANGED <<TxsOf(best), TxsOf(chain), resurrect, delete>>
    BY DEF updateVars
<1>2. \A o : SpentInChain(o)' <=> SpentInChain(o)
    BY <1>1 DEF SpentInChain
<1>3. /\ mapTx \subseteq mapTx'
      /\ \A t \in Tx : \A o \in In[t] : mapNextTx[o] # NoTx => mapNextTx'[o] # NoTx
  <2>1. CASE UNCHANGED poolVars
      BY <2>1 DEF poolVars
  <2>2. ASSUME NEW t \in Tx, AddToPool(t)
        PROVE  /\ mapTx \subseteq mapTx'
               /\ \A u \in Tx : \A o \in In[u] : mapNextTx[o] # NoTx => mapNextTx'[o] # NoTx
      BY <2>2, MemPoolAssumption DEF AddToPool, Spendings
  <2> QED
      BY <2>1, <2>2
<1>4. Standard \subseteq Tx
    BY MemPoolAssumption
<1> QED
    BY <1>1, <1>2, <1>3, <1>4 DEF KeptInv

\* a block on top takes nothing off
LEMMA OnTopKept ==
    ASSUME ChainInv, Idle, NEW b \in Seq(Tx), chain' = Append(chain, b), delete' = b,
           UNCHANGED best
    PROVE  KeptInv'
<1>1. chain \in Seq(Seq(Tx)) /\ best = chain
    BY DEF ChainInv, ChainTypes, Idle
<1>2. ToSet(chain') = ToSet(chain) \cup {b}
    BY <1>1, AppendSet
<1>3. TxsOf(best') \subseteq TxsOf(chain') /\ ToSet(b) \subseteq TxsOf(chain')
    BY <1>1, <1>2 DEF TxsOf
<1> QED
    BY <1>3 DEF KeptInv

LEMMA OtherBranchKept ==
    ASSUME ChainInv, PoolInv, NEW k \in 1..MaxDepth, NEW branch \in [1..k+1 -> Candidates],
           Reorganize(k, branch)
    PROVE  KeptInv'
<1>1. /\ Idle /\ k <= Len(chain) /\ Len(branch) = k + 1
      /\ chain' = SubSeq(chain, 1, Len(chain) - k) \o branch
      /\ resurrect' = Pushed(FlattenSeq(Disconnected(k)))
      /\ delete' = FlattenSeq(branch)
      /\ UNCHANGED best
  <2>1. resurrect' = Resurrected(k)
      BY DEF Reorganize
  <2>2. Resurrected(k) = Pushed(FlattenSeq(Disconnected(k)))
      BY DEF Resurrected
  <2>3. chain' = SubSeq(chain, 1, Len(chain) - k) \o branch /\ delete' = FlattenSeq(branch)
      BY DEF Reorganize
  <2>4. Idle /\ k <= Len(chain) /\ Len(branch) = k + 1 /\ UNCHANGED best
      BY DEF Reorganize
  <2> QED
      BY <2>1, <2>2, <2>3, <2>4
<1>2. /\ k \in Nat /\ k # 0 /\ k + 1 \in Nat /\ k + 1 # 0
      /\ chain \in Seq(Seq(Tx)) /\ Len(chain) \in Nat /\ best = chain
  <2>1. MaxDepth \in Nat
      BY MemPoolAssumption
  <2>2. k \in Nat /\ k # 0 /\ k + 1 \in Nat /\ k + 1 # 0
      BY <2>1
  <2>3. chain \in Seq(Seq(Tx)) /\ best = chain
      BY <1>1 DEF ChainInv, ChainTypes, Idle
  <2> QED
      BY <2>2, <2>3
<1>3. branch \in Seq(Seq(Tx)) /\ Len(branch) # 0
  <2>1. \A i \in 1..k+1 : branch[i] \in Seq(Tx)
      BY MemPoolAssumption
  <2>2. branch \in [1..k+1 -> Seq(Tx)] /\ k + 1 \in Nat
      BY <1>2, <2>1
  <2>3. branch \in Seq(Seq(Tx))
      BY <2>2
  <2> QED
      BY <1>1, <1>2, <2>3
<1> DEFINE m == Len(chain) - k
           s == SubSeq(chain, 1, m)
           off == FlattenSeq(Disconnected(k))
<1>4. m \in Nat /\ m <= Len(chain)
    BY <1>1, <1>2
<1>5. s \in Seq(Seq(Tx)) /\ \A i \in 1..m : i \in DOMAIN s /\ s[i] = chain[i]
  <2>1. 1 \in Int /\ \A i \in 1..m : chain[i] \in Seq(Tx)
      BY <1>2, <1>4
  <2> HIDE DEF m
  <2>2. /\ s \in Seq(Seq(Tx)) /\ Len(s) = IF 1 <= m THEN m - 1 + 1 ELSE 0
        /\ \A i \in 1..m - 1 + 1 : s[i] = chain[1 + i - 1]
      BY <1>4, <2>1, SubSeqProperties
  <2>3. Len(s) = m /\ m - 1 + 1 = m /\ \A i \in 1..m : 1 + i - 1 = i
      BY <1>4, <2>2
  <2> HIDE DEF s
  <2> QED
      BY <2>2, <2>3
<1>6. ToSet(chain') = ToSet(s) \cup ToSet(branch)
  <2>1. chain' = s \o branch
      BY <1>1
  <2> HIDE DEF s
  <2> QED
      BY <1>3, <1>5, <2>1, ConcatSet
<1>7. ToSet(delete') \subseteq TxsOf(chain')
  <2>1. \A p \in ToSet(delete') : \E i \in 1..Len(branch) : p \in ToSet(branch[i])
      BY <1>1, <1>3, FlatIs
  <2>2. \A i \in 1..Len(branch) : branch[i] \in ToSet(branch)
      BY <1>3 DEF ToSet
  <2> QED
      BY <1>6, <2>1, <2>2 DEF TxsOf
<1>8. Disconnected(k) \in Seq(Seq(Tx)) /\ Len(Disconnected(k)) = k
    BY <1>1, <1>2, DisconnectedIs
<1>9. /\ off \in Seq(Tx)
      /\ \A p : p \in ToSet(off) <=> \E i \in 1..k : p \in ToSet(Disconnected(k)[i])
    BY <1>2, <1>8, FlatIs
<1> HIDE DEF off
<1>10. ASSUME NEW t \in TxsOf(best), t \notin Coinbase, t \notin TxsOf(chain')
       PROVE  t \in ToSet(resurrect')
  <2>1. PICK i \in 1..Len(chain) : t \in ToSet(chain[i])
      BY <1>2, TxsOfIs DEF TxsIn
  <2>2. i > m
    <3>1. SUFFICES ASSUME i \in 1..m PROVE FALSE
        BY <1>4
    <3>2. chain[i] \in ToSet(s)
        BY <1>5, <3>1 DEF ToSet
    <3> QED
        BY <1>6, <1>10, <2>1, <3>2 DEF TxsOf
  <2>3. PICK j \in 1..k : Disconnected(k)[j] = chain[i]
      BY <1>1, <1>2, <2>2, DisconnectedAll
  <2>4. t \in ToSet(off)
      BY <1>9, <2>1, <2>3
  <2> QED
      BY <1>1, <1>9, <1>10, <2>4, PushAll DEF off
<1>11. best' = best
    BY <1>1
<1> QED
    BY <1>7, <1>10, <1>11 DEF KeptInv

\* the next call of Reorganize or SetBestChainInner to the pool
LEMMA UpdateKept ==
    ASSUME KeptInv, ChainInv, PoolInv, ChainStep
    PROVE  KeptInv'
<1>1. /\ resurrect \in Seq(Tx) /\ delete \in Seq(Tx)
      /\ Standard \subseteq Tx /\ NoTx \notin Tx
    BY MemPoolAssumption DEF ChainInv, ChainTypes
<1>2. CASE ResurrectNext
  <2> DEFINE h == Head(resurrect)
  <2>1. /\ h \in Tx /\ ToSet(resurrect) = {h} \cup ToSet(resurrect')
        /\ UNCHANGED <<chain, best, delete>>
      BY <1>1, <1>2, HeadTailSet DEF ResurrectNext, chainVars
  <2>2. IF Admissible(h, FALSE) THEN AddToPool(h) ELSE UNCHANGED poolVars
      BY <1>2 DEF ResurrectNext
  <2> HIDE DEF h
  <2>3. UNCHANGED <<TxsOf(best), TxsOf(chain)>> /\ \A o : SpentInChain(o)' <=> SpentInChain(o)
      BY <2>1 DEF SpentInChain
  <2>4. /\ mapTx \subseteq mapTx'
        /\ \A t \in Tx : \A o \in In[t] : mapNextTx[o] # NoTx => mapNextTx'[o] # NoTx
    <3>1. CASE Admissible(h, FALSE)
        BY <1>1, <2>1, <2>2, <3>1 DEF AddToPool, Spendings
    <3>2. CASE ~Admissible(h, FALSE)
        BY <2>2, <3>2 DEF poolVars
    <3> QED
        BY <3>1, <3>2
  <2>5. \/ h \notin Standard \ Coinbase
        \/ h \in mapTx'
        \/ \E o \in In[h] : mapNextTx'[o] # NoTx
    <3>1. CASE Admissible(h, FALSE)
        BY <2>2, <3>1 DEF AddToPool
    <3>2. CASE ~Admissible(h, FALSE)
        BY <2>1, <2>4, <3>2 DEF Admissible
    <3> QED
        BY <3>1, <3>2
  <2> QED
      BY <1>1, <2>1, <2>3, <2>4, <2>5 DEF KeptInv
<1>3. CASE DeleteNext
  <2> DEFINE h == Head(delete)
  <2>1. /\ h \in Tx /\ ToSet(delete) = {h} \cup ToSet(delete')
        /\ UNCHANGED <<chain, best, resurrect>>
      BY <1>1, <1>3, HeadTailSet DEF DeleteNext, chainVars
  <2>2. /\ mapTx' = mapTx \ {h}
        /\ \A o \in Spendings : \/ mapNextTx'[o] = mapNextTx[o]
                                \/ h \in mapTx /\ o \in In[h]
      BY <1>3 DEF DeleteNext, RemoveFromPool
  <2> HIDE DEF h
  <2>3. UNCHANGED <<TxsOf(best), TxsOf(chain)>> /\ \A o : SpentInChain(o)' <=> SpentInChain(o)
      BY <2>1 DEF SpentInChain
  <2>4. h \in TxsOf(chain)
      BY <2>1 DEF KeptInv
  <2>5. \A t \in Tx : \A o \in In[t] : mapNextTx[o] # NoTx => mapNextTx'[o] # NoTx \/ SpentInChain(o)
      BY <2>2, <2>4 DEF Spendings, SpentInChain
  <2> QED
      BY <1>1, <2>1, <2>2, <2>3, <2>4, <2>5 DEF KeptInv
<1>4. CASE NewBestBlock
  <2>1. best' = chain /\ UNCHANGED <<chain, delete>>
      BY <1>4 DEF NewBestBlock, updateVars
  <2> QED
      BY <2>1 DEF KeptInv
<1> QED
    BY <1>2, <1>3, <1>4 DEF ChainStep

LEMMA KeptHolds == Spec => []KeptInv
<1>1. Init => KeptInv
  <2>1. ToSet(<<>>) = {}
      BY DEF ToSet
  <2> QED
      BY <2>1 DEF Init, KeptInv, TxsOf
<1>2. ASSUME KeptInv, ChainInv, PoolInv, OrphanInv, [Next]_vars PROVE KeptInv'
  <2>1. CASE UNCHANGED vars
      BY <1>2, <2>1, SamePoolKept DEF vars, chainVars, updateVars, poolVars
  <2>2. CASE TxStep
    <3>1. ASSUME NEW t \in visit, RetryAccepts(t) \/ RetryMisses(t) \/ RetryRejects(t)
          PROVE  KeptInv'
      <4>1. t \in Tx
          BY <1>2 DEF OrphanInv
      <4> QED
          BY <1>2, <3>1, <4>1, SamePoolKept
             DEF RetryAccepts, RetryMisses, RetryRejects, chainVars, updateVars
    <3>2. CASE NextPrev \/ EndOfTx
        BY <1>2, <3>2, SamePoolKept DEF NextPrev, EndOfTx, chainVars, updateVars
    <3> QED
        BY <2>2, <3>1, <3>2 DEF TxStep
  <2>3. CASE ChainStep
      BY <1>2, <2>3, UpdateKept
  <2>4. CASE PeerStep
    <3>1. ASSUME NEW t \in Tx, ReceiveTx(t) \/ ReceiveOrphan(t) PROVE KeptInv'
        BY <1>2, <3>1, SamePoolKept DEF ReceiveTx, ReceiveOrphan, chainVars, updateVars
    <3>2. ASSUME NEW b \in Candidates, Extend(b) PROVE KeptInv'
      <4>1. b \in Seq(Tx)
          BY MemPoolAssumption
      <4> QED
          BY <1>2, <3>2, <4>1, OnTopKept DEF Extend
    <3>3. ASSUME NEW k \in 1..MaxDepth, NEW branch \in [1..k+1 -> Candidates],
                 Reorganize(k, branch)
          PROVE  KeptInv'
        BY <1>2, <3>3, OtherBranchKept
    <3> QED
        BY <2>4, <3>1, <3>2, <3>3 DEF PeerStep
  <2>5. CASE MinerStep
    <3>1. CASE ReadBest \/ CreateNewBlock \/ GiveUp
        BY <1>2, <3>1, SamePoolKept DEF ReadBest, CreateNewBlock, GiveUp, chainVars, updateVars
    <3>2. CASE CheckWork
      <4>1. PICK c \in Coinbases : chain' = Append(chain, Mined(c)) /\ delete' = Mined(c)
          BY <3>2 DEF CheckWork
      <4>2. c \in Tx /\ template.txs \in Seq(Tx)
          BY <1>2, <3>2, TxAssumption DEF CheckWork, Coinbases, ChainInv, ChainTypes
      <4>3. Mined(c) \in Seq(Tx)
          BY <4>2 DEF Mined
      <4> QED
          BY <1>2, <3>2, <4>1, <4>3, OnTopKept DEF CheckWork
    <3> QED
        BY <2>5, <3>1, <3>2 DEF MinerStep
  <2>6. ASSUME NEW t \in Tx, SubmitTx(t) PROVE KeptInv'
      BY <1>2, <2>6, SamePoolKept DEF SubmitTx, chainVars, updateVars
  <2> QED
      BY <1>2, <2>1, <2>2, <2>3, <2>4, <2>5, <2>6 DEF Next
<1> QED
    BY PoolHolds, OrphansHold, ChainHolds, <1>1, <1>2, PTL DEF Spec

\* Reorganize gives every transaction that it took out of the chain to accept, without
\* input checks, and SetBestChain removes from the pool only what the new blocks hold:
\* such a transaction is in the pool afterwards, or a rival of it is there or confirmed.
THEOREM NoneForgotten == Spec => []NothingLost
<1>1. ASSUME KeptInv PROVE NothingLost
  <2>1. ToSet(<<>>) = {}
      BY DEF ToSet
  <2> QED
      BY <1>1, <2>1 DEF KeptInv, NothingLost
<1> QED
    BY KeptHolds, <1>1, PTL

-----------------------------------------------------------------------------
(* The loop over vWorkQueue retries every orphan that can be accepted *)

\* while the tx handler runs, an orphan that could be accepted and that spends an
\* output of a transaction the handler accepted is among those to be looked at, or
\* another one of its parents is still to be taken up
RetryInv ==
    erase # {} =>
        /\ chain = best
        /\ \A t \in orphans \ erase, i \in 1..Len(work) :
               work[i] \in Parents(t) /\ Accepts(t) =>
                   t \in visit \/ \E j \in reached + 1..Len(work) : work[j] \in Parents(t)

\* outside of the tx handler, and in its steps that leave its queues alone
LEMMA SameRetry ==
    ASSUME RetryInv, erase' = {} \/ UNCHANGED <<chainVars, poolVars, orphans, retryVars>>
    PROVE  RetryInv'
<1>1. CASE erase' = {}
    BY <1>1 DEF RetryInv
<1>2. CASE UNCHANGED <<chainVars, poolVars, orphans, retryVars>>
  <2>1. UNCHANGED <<chain, txindex, best, mapTx, mapNextTx, orphans, work, reached, visit, erase>>
      BY <1>2 DEF chainVars, poolVars, retryVars
  <2>2. \A t : Accepts(t)' <=> Accepts(t)
      BY <2>1 DEF Accepts, Admissible, Misses, InputConnects
  <2> QED
      BY <2>1, <2>2 DEF RetryInv
<1> QED
    BY <1>1, <1>2

\* what could be accepted after u entered the pool, and does not spend u, could be before
LEMMA AcceptedBefore ==
    ASSUME NEW u \in Tx, AddToPool(u), UNCHANGED <<txindex, best>>,
           NEW t \in Tx, u \notin Parents(t), Accepts(t)'
    PROVE  Accepts(t)
<1>1. mapTx' = mapTx \cup {u}
    BY DEF AddToPool
<1>2. t \notin mapTx /\ t \in Standard \ Coinbase /\ txindex[t] = Absent
    BY <1>1 DEF Accepts, Admissible
<1>3. ASSUME NEW o \in In[t] PROVE mapNextTx[o] = NoTx
  <2>1. mapNextTx'[o] = NoTx /\ o \in Spendings
      BY DEF Accepts, Admissible, Spendings
  <2>2. mapNextTx'[o] = IF o \in In[u] THEN u ELSE mapNextTx[o]
      BY <2>1 DEF AddToPool
  <2> QED
      BY <2>1, <2>2, MemPoolAssumption
<1>4. ~Misses(t)
    BY <1>1 DEF Accepts, Misses
<1>5. t \in Relayable /\ ValueOf(In[t]) >= ValueOut(t)
    BY DEF Accepts
<1>6. \A o \in In[t] : InputConnects(o)
    BY DEF Accepts, InputConnects
<1> QED
    BY <1>2, <1>3, <1>4, <1>5, <1>6 DEF Accepts, Admissible

LEMMA TxKeepsRetry ==
    ASSUME OrphanInv, RetryInv, TxStep
    PROVE  RetryInv'
<1>1. /\ orphans \subseteq Tx /\ work \in Seq(Tx) /\ Len(work) \in Nat
      /\ reached \in 0..Len(work) /\ visit \subseteq orphans
    BY DEF OrphanInv
<1>2. CASE EndOfTx
    BY <1>2, SameRetry DEF EndOfTx
<1>3. CASE NextPrev
  <2>1. /\ visit = {} /\ reached < Len(work) /\ reached' = reached + 1
        /\ visit' = {pair[2] : pair \in {q \in byPrev : q[1] = work[reached + 1]}}
        /\ UNCHANGED <<chain, txindex, best, mapTx, mapNextTx, orphans, work, erase>>
      BY <1>3 DEF NextPrev, chainVars, poolVars
  <2>2. \A t : Accepts(t)' <=> Accepts(t)
      BY <2>1 DEF Accepts, Admissible, Misses, InputConnects
  <2>3. ASSUME NEW t \in orphans, work[reached + 1] \in Parents(t) PROVE t \in visit'
    <3>1. <<work[reached + 1], t>> \in byPrev
        BY <2>3 DEF OrphanInv, OrphansIndexed
    <3>2. <<work[reached + 1], t>>[1] = work[reached + 1] /\ <<work[reached + 1], t>>[2] = t
        OBVIOUS
    <3> QED
        BY <2>1, <3>1, <3>2
  <2>4. ASSUME NEW t \in orphans \ erase, NEW i \in 1..Len(work), erase # {},
               work[i] \in Parents(t), Accepts(t)
        PROVE  t \in visit' \/ \E j \in reached' + 1..Len(work) : work[j] \in Parents(t)
    <3>1. PICK j \in reached + 1..Len(work) : work[j] \in Parents(t)
        BY <2>1, <2>4 DEF RetryInv
    <3>2. CASE j = reached + 1
        BY <2>3, <2>4, <3>1, <3>2
    <3>3. CASE j # reached + 1
      <4>1. j \in reached' + 1..Len(work)
          BY <1>1, <2>1, <3>3
      <4> QED
          BY <3>1, <4>1
    <3> QED
        BY <3>2, <3>3
  <2> QED
      BY <2>1, <2>2, <2>4 DEF RetryInv
<1>4. ASSUME NEW u \in visit, RetryAccepts(u) PROVE RetryInv'
  <2>1. /\ u \in Tx /\ AddToPool(u) /\ work' = Append(work, u) /\ erase' = erase \cup {u}
        /\ visit' = visit \ {u} /\ UNCHANGED <<chain, txindex, best, orphans, reached>>
      BY <1>1, <1>4 DEF RetryAccepts, Enqueued, chainVars, orphanVars
  <2>2. /\ Len(work') = Len(work) + 1 /\ work'[Len(work) + 1] = u
        /\ \A i \in 1..Len(work) : work'[i] = work[i]
      BY <1>1, <2>1
  <2>3. erase # {}
      BY <1>4 DEF OrphanInv
  <2>4. ASSUME NEW t \in orphans \ erase', NEW i \in 1..Len(work'),
               work'[i] \in Parents(t), Accepts(t)'
        PROVE  t \in visit' \/ \E j \in reached + 1..Len(work') : work'[j] \in Parents(t)
    <3>1. CASE u \in Parents(t)
      <4>1. Len(work) + 1 \in reached + 1..Len(work')
          BY <1>1, <2>2
      <4> QED
          BY <2>2, <3>1, <4>1
    <3>2. CASE u \notin Parents(t)
      <4>1. t \in Tx /\ t \notin erase /\ t # u
          BY <1>1, <2>1, <2>4
      <4>2. Accepts(t)
          BY <2>1, <2>4, <3>2, <4>1, AcceptedBefore
      <4>3. i \in 1..Len(work) /\ work[i] \in Parents(t)
          BY <1>1, <2>2, <2>4, <3>2
      <4>4. t \in visit \/ \E j \in reached + 1..Len(work) : work[j] \in Parents(t)
          BY <2>3, <2>4, <4>1, <4>2, <4>3 DEF RetryInv
      <4>5. ASSUME NEW j \in reached + 1..Len(work), work[j] \in Parents(t)
            PROVE  j \in reached + 1..Len(work') /\ work'[j] \in Parents(t)
          BY <1>1, <2>2, <4>5
      <4> QED
          BY <2>1, <4>1, <4>4, <4>5
    <3> QED
        BY <3>1, <3>2
  <2>5. chain' = best'
      BY <2>1, <2>3 DEF RetryInv
  <2>6. \A t \in orphans' \ erase', i \in 1..Len(work') :
            work'[i] \in Parents(t) /\ Accepts(t)' =>
                t \in visit' \/ \E j \in reached' + 1..Len(work') : work'[j] \in Parents(t)
      BY <2>1, <2>4
  <2> QED
      BY <2>5, <2>6 DEF RetryInv
<1>5. ASSUME NEW u \in visit, RetryMisses(u) \/ RetryRejects(u) PROVE RetryInv'
  <2>1. /\ visit' = visit \ {u} /\ erase \subseteq erase' /\ erase # {}
        /\ UNCHANGED <<chain, txindex, best, mapTx, mapNextTx, orphans, work, reached>>
      BY <1>5 DEF RetryMisses, RetryRejects, OrphanInv, chainVars, poolVars, orphanVars
  <2>2. \A t : Accepts(t)' <=> Accepts(t)
      BY <2>1 DEF Accepts, Admissible, Misses, InputConnects
  <2>3. u \in erase' \/ ~Accepts(u)
      BY <1>5 DEF RetryMisses, RetryRejects, Accepts
  <2> QED
      BY <2>1, <2>2, <2>3 DEF RetryInv
<1> QED
    BY <1>2, <1>3, <1>4, <1>5 DEF TxStep

LEMMA NextKeepsRetry ==
    ASSUME ChainInv, OrphanInv, RetryInv, [Next]_vars
    PROVE  RetryInv'
<1>1. CASE TxStep
    BY <1>1, TxKeepsRetry
<1>2. CASE UNCHANGED <<chainVars, poolVars, orphans, retryVars>>
    BY <1>2, SameRetry
<1>3. CASE Idle /\ UNCHANGED retryVars
    BY <1>3, SameRetry DEF Idle, retryVars
<1>4. CASE ChainStep
  <2>1. ~(chain = best)
      BY <1>4 DEF ChainStep, ResurrectNext, DeleteNext, NewBestBlock, ChainInv, Settled
  <2>2. erase = {}
      BY <2>1 DEF RetryInv
  <2> QED
      BY <1>4, <2>2, SameRetry
         DEF ChainStep, ResurrectNext, DeleteNext, NewBestBlock, retryVars
<1>5. ASSUME NEW t \in Tx, ReceiveTx(t) PROVE RetryInv'
  <2>1. work' = <<t>> /\ reached' = 0 /\ chain' = best'
      BY <1>5 DEF ReceiveTx, Idle, OrphanInv, chainVars
  <2>2. Len(work') = 1 /\ 0 + 1..1 = 1..1
      BY <2>1
  <2> QED
      BY <2>1, <2>2 DEF RetryInv
<1>6. CASE PeerStep
    BY <1>3, <1>5, <1>6 DEF PeerStep, ReceiveOrphan, Extend, Reorganize
<1>7. CASE MinerStep
    BY <1>2, <1>3, <1>7
       DEF MinerStep, ReadBest, CreateNewBlock, CheckWork, GiveUp, orphanVars
<1>8. ASSUME NEW t \in Tx, SubmitTx(t) PROVE RetryInv'
    BY <1>3, <1>8 DEF SubmitTx
<1> QED
    BY <1>1, <1>2, <1>4, <1>6, <1>7, <1>8 DEF Next, vars, orphanVars

LEMMA RetryHolds == Spec => []RetryInv
<1>1. Init => RetryInv
    BY DEF Init, RetryInv
<1>2. ChainInv /\ OrphanInv /\ RetryInv /\ [Next]_vars => RetryInv'
    BY NextKeepsRetry
<1> QED
    BY ChainHolds, OrphansHold, <1>1, <1>2, PTL DEF Spec

\* The loop over vWorkQueue, which grows while it runs, misses nothing: when the tx
\* handler is done, no orphan that it keeps and that spends an output of a transaction
\* it accepted could be accepted, in whatever order the orphans wait and free each other.
THEOREM NoneLeftBehind == Spec => []OrphansRetried
<1>1. ASSUME ChainInv, OrphanInv, RetryInv PROVE OrphansRetried
  <2> SUFFICES ASSUME erase # {}, visit = {}, reached = Len(work), NEW pair \in byPrev,
                      pair[1] \in ToSet(work), pair[2] \notin erase, Accepts(pair[2])
               PROVE  FALSE
      BY DEF OrphansRetried
  <2>1. pair[2] \in orphans \ erase /\ pair[1] \in Parents(pair[2])
      BY <1>1 DEF OrphanInv, OrphansIndexed
  <2>2. PICK i \in 1..Len(work) : work[i] = pair[1]
      BY <1>1 DEF ToSet, OrphanInv
  <2>3. Len(work) \in Nat /\ reached + 1..Len(work) = {}
      BY <1>1 DEF OrphanInv
  <2> QED
      BY <1>1, <2>1, <2>2, <2>3 DEF RetryInv
<1> QED
    BY ChainHolds, OrphansHold, RetryHolds, <1>1, PTL

-----------------------------------------------------------------------------
(* Where the records of the index point to *)

\* index has records of transactions in the first n blocks of ch, and each of them
\* names the block that holds its transaction
PosOn(index, ch, n) ==
    /\ DOMAIN index = Tx
    /\ \A p \in Tx :
          /\ "pos" \in DOMAIN index[p]
          /\ index[p] # Absent => index[p].pos \in 1..n /\ p \in ToSet(ch[index[p].pos])

\* r is a record of p in block h, or keeps the position of the record in index
From(r, index, mine, h, p) ==
    /\ "pos" \in DOMAIN r
    /\ r # Absent => \/ mine /\ r.pos = h
                     \/ index[p] # Absent /\ r.pos = index[p].pos

LEMMA MarkPos ==
    ASSUME NEW r, "pos" \in DOMAIN r, NEW p, NEW t, NEW mark
    PROVE  /\ "pos" \in DOMAIN Mark(r, p, t, mark) /\ Mark(r, p, t, mark).pos = r.pos
           /\ Mark(r, p, t, mark) # Absent => r # Absent
<1>1. \A f : /\ "pos" \in DOMAIN [r EXCEPT !.spent = f]
             /\ [r EXCEPT !.spent = f].pos = r.pos
    OBVIOUS
<1>2. "pos" \in DOMAIN Mark(r, p, t, mark) /\ Mark(r, p, t, mark).pos = r.pos
    BY <1>1 DEF Mark
<1> QED
    BY <1>2, AbsentStays

LEMMA QueuedFrom ==
    ASSUME NEW index, NEW queue, NEW t, NEW h, NEW p \in Tx, NEW mine \in BOOLEAN, p = t => mine,
           "pos" \in DOMAIN index[p], From(queue[p], index, mine, h, p)
    PROVE  From(Queued(index, queue, t, h)[p], index, mine, h, p)
<1> DEFINE mark == <<h, t>>
           new == [pos |-> h, spent |-> [n \in 1..Len(Out[t]) |-> Unspent]]
           f == Fetched(index, queue, p)
<1>1. Queued(index, queue, t, h)[p] =
          IF p = t THEN new
          ELSE IF \E o \in In[t] : o[1] = p THEN Mark(f, p, t, mark) ELSE queue[p]
    BY DEF Queued, Mark
<1>2. "pos" \in DOMAIN new /\ new.pos = h
    OBVIOUS
<1>3. f = queue[p] \/ (queue[p] = Absent /\ f = index[p])
    BY DEF Fetched
<1> HIDE DEF mark, new, f
<1>4. From(f, index, mine, h, p)
    BY <1>3 DEF From
<1>5. From(Mark(f, p, t, mark), index, mine, h, p)
    BY <1>4, MarkPos DEF From
<1>6. p = t => From(new, index, mine, h, p)
    BY <1>2 DEF From
<1> QED
    BY <1>1, <1>5, <1>6

\* ConnectBlock writes the height of the block into the records of its transactions,
\* and keeps the position of those that it marks
LEMMA UpdatedPos ==
    ASSUME NEW index, NEW ch, NEW n \in Nat, PosOn(index, ch, n), NEW b \in Seq(Tx),
           Scan(index, b, n + 1).ok,
           NEW on, \A i \in 1..n : on[i] = ch[i], on[n + 1] = b
    PROVE  PosOn(Updated(index, b, n + 1), on, n + 1)
<1> DEFINE h == n + 1
           Mine(p) == p \in ToSet(b)
<1>1. PICK r : /\ Scan(index, b, h) = r[Len(b)]
               /\ r[0] = [ok |-> TRUE, queue |-> NoRecords, fees |-> 0]
               /\ \A i \in 1..Len(b) : r[i] = ConnectTx(index, r[i - 1], b[i], h)
  <2>1. PICK r : ScanBy(r, index, b, h)
      BY ScanRounds
  <2> QED
      BY <2>1 DEF ScanBy
<1>2. Len(b) \in Nat /\ \A i \in 1..Len(b) : b[i] \in Tx /\ Mine(b[i])
    BY DEF ToSet
<1>3. \A p \in Tx : "pos" \in DOMAIN index[p]
    BY DEF PosOn
<1> HIDE DEF h, Mine
<1> DEFINE All(q) == \A p \in Tx : From(q[p], index, Mine(p), h, p)
           Good(s) == "ok" \in DOMAIN s /\ (s.ok => All(s.queue))
           S == {m \in Nat : m <= Len(b) => Good(r[m])}
<1>4. 0 \in S
  <2>1. "pos" \in DOMAIN Absent
      BY DEF Absent
  <2>2. All(NoRecords)
      BY <2>1 DEF From, NoRecords
  <2> HIDE DEF All
  <2> QED
      BY <1>1, <2>2
<1>5. ASSUME NEW m \in S \cap Nat PROVE m + 1 \in S
  <2> SUFFICES ASSUME m + 1 <= Len(b) PROVE Good(r[m + 1])
      OBVIOUS
  <2>1. PICK j \in 1..Len(b) : j = m + 1 /\ j - 1 = m
      BY <1>2
  <2> DEFINE s == r[j - 1]
             t == b[j]
             u == ConnectTx(index, s, t, h)
  <2>2. r[j] = u /\ Mine(t) /\ t \in Tx
      BY <1>1, <1>2
  <2>3. Good(s)
      BY <2>1, <1>2
  <2> HIDE DEF s, t
  <2>4. "ok" \in DOMAIN u /\ (u.ok => s.ok /\ u.queue = Queued(index, s.queue, t, h))
      BY <2>3, ConnectTxIs
  <2>5. ASSUME s.ok PROVE All(Queued(index, s.queue, t, h))
    <3>1. ASSUME NEW p \in Tx PROVE From(Queued(index, s.queue, t, h)[p], index, Mine(p), h, p)
      <4>1. Mine(p) \in BOOLEAN
          BY DEF Mine
      <4>2. From(s.queue[p], index, Mine(p), h, p)
          BY <2>3, <2>5
      <4>3. p = t => Mine(p)
          BY <2>2
      <4> QED
          BY <1>3, <4>1, <4>2, <4>3, QueuedFrom
    <3> QED
        BY <3>1
  <2> HIDE DEF u, All
  <2>6. Good(u)
      BY <2>4, <2>5
  <2> QED
      BY <2>1, <2>2, <2>6
<1> HIDE DEF S
<1>6. Nat \subseteq S
    BY <1>4, <1>5, NatInd
<1>7. All(Scan(index, b, h).queue)
  <2>1. Good(r[Len(b)])
      BY <1>2, <1>6 DEF S
  <2> HIDE DEF All
  <2> QED
      BY <1>1, <2>1 DEF h
<1> DEFINE q == Scan(index, b, h).queue
<1>8. ASSUME NEW p \in Tx
      PROVE  /\ "pos" \in DOMAIN Fetched(index, q, p)
             /\ Fetched(index, q, p) # Absent =>
                   /\ Fetched(index, q, p).pos \in 1..n + 1
                   /\ p \in ToSet(on[Fetched(index, q, p).pos])
  <2>1. From(q[p], index, Mine(p), h, p)
      BY <1>7
  <2> HIDE DEF q
  <2> DEFINE x == q[p]
             y == index[p]
  <2>2. "pos" \in DOMAIN y /\ (y # Absent => y.pos \in 1..n /\ p \in ToSet(ch[y.pos]))
      BY DEF PosOn
  <2>3. y # Absent => y.pos \in 1..n + 1 /\ p \in ToSet(on[y.pos])
      BY <2>2
  <2>4. /\ "pos" \in DOMAIN x
        /\ x # Absent => (p \in ToSet(b) /\ x.pos = n + 1) \/ (y # Absent /\ x.pos = y.pos)
      BY <2>1 DEF From, Mine, h
  <2>5. Fetched(index, q, p) = IF x # Absent THEN x ELSE y
      BY DEF Fetched
  <2>6. n + 1 \in 1..n + 1
      OBVIOUS
  <2> HIDE DEF x, y
  <2> QED
      BY <2>2, <2>3, <2>4, <2>5, <2>6
<1>9. Updated(index, b, h) = [t \in Tx |-> Fetched(index, q, t)]
    BY DEF Updated
<1> HIDE DEF q
<1> QED
    BY <1>8, <1>9 DEF PosOn, h

\* DisconnectBlock takes the records of the last block away and moves none
LEMMA UndoPos ==
    ASSUME NEW x, NEW ch, NEW n \in Nat, PosOn(x, ch, n + 1), ch[n + 1] \in Seq(Tx),
           Undo(x, ch[n + 1]).ok
    PROVE  PosOn(Undo(x, ch[n + 1]).index, ch, n)
<1> DEFINE b == ch[n + 1]
<1>1. PICK r : /\ Undo(x, b) = r[Len(b)]
               /\ r[0] = [ok |-> TRUE, index |-> x]
               /\ \A i \in 1..Len(b) : r[i] = DisconnectTx(r[i - 1], b[Len(b) + 1 - i])
  <2>1. b \in Seq(Tx)
      OBVIOUS
  <2> HIDE DEF b
  <2> QED
      BY <2>1, UndoRounds
<1>2. Len(b) \in Nat /\ DOMAIN x = Tx /\ \A p \in Tx : "pos" \in DOMAIN x[p]
    BY DEF PosOn
<1> HIDE DEF b
<1> DEFINE Same(y, p) == "pos" \in DOMAIN y /\ (y # Absent => x[p] # Absent /\ y.pos = x[p].pos)
           Kept(y) == \A p \in Tx : Same(y[p], p)
           Good(s) == "ok" \in DOMAIN s /\ (s.ok => Kept(s.index))
           S == {m \in Nat : m <= Len(b) => Good(r[m])}
<1>3. 0 \in S
    BY <1>1, <1>2
<1>4. ASSUME NEW m \in S \cap Nat PROVE m + 1 \in S
  <2> SUFFICES ASSUME m + 1 <= Len(b) PROVE Good(r[m + 1])
      OBVIOUS
  <2>1. PICK j \in 1..Len(b) : j = m + 1 /\ j - 1 = m
      BY <1>2
  <2> DEFINE s == r[j - 1]
             t == b[Len(b) + 1 - j]
             u == DisconnectTx(s, t)
  <2>2. r[j] = u
      BY <1>1
  <2>3. Good(s)
      BY <2>1, <1>2
  <2> HIDE DEF s, t
  <2>4. "ok" \in DOMAIN u /\ (u.ok => s.ok /\ u.index = Erased(s.index, t))
      BY <2>3, DisconnectTxIs
  <2>5. ASSUME Kept(s.index) PROVE Kept(Erased(s.index, t))
    <3>1. ASSUME NEW p \in Tx PROVE Same(Erased(s.index, t)[p], p)
      <4> DEFINE y == Released(s.index, t)
                 z == s.index[p]
      <4>1. DOMAIN y = Tx /\ y[p] = Mark(z, p, t, Unspent)
          BY DEF Released, Mark
      <4> HIDE DEF y
      <4>2. Erased(s.index, t)[p] = IF p = t THEN Absent ELSE y[p]
          BY <4>1 DEF Erased, y
      <4>3. Same(z, p)
          BY <2>5
      <4> HIDE DEF z
      <4>4. Same(Mark(z, p, t, Unspent), p)
          BY <4>3, MarkPos
      <4>5. Same(Absent, p)
          BY DEF Absent
      <4> HIDE DEF Same
      <4> QED
          BY <4>1, <4>2, <4>4, <4>5
    <3> QED
        BY <3>1
  <2> HIDE DEF u, Kept
  <2>6. Good(u)
      BY <2>3, <2>4, <2>5
  <2> QED
      BY <2>1, <2>2, <2>6
<1> HIDE DEF S
<1>5. Nat \subseteq S
    BY <1>3, <1>4, NatInd
<1>6. Kept(Undo(x, b).index)
  <2>1. Good(r[Len(b)])
      BY <1>2, <1>5 DEF S
  <2> HIDE DEF Kept
  <2> QED
      BY <1>1, <2>1 DEF b
<1>7. /\ DOMAIN Undo(x, b).index = Tx
      /\ \A p \in Tx : p \in ToSet(b) => Undo(x, b).index[p] = Absent
    BY <1>2, UndoDrops DEF b
<1> DEFINE y == Undo(x, b).index
<1>8. ASSUME NEW p \in Tx, y[p] # Absent
      PROVE  y[p].pos \in 1..n /\ p \in ToSet(ch[y[p].pos])
  <2>1. x[p] # Absent /\ y[p].pos = x[p].pos /\ p \notin ToSet(b)
      BY <1>6, <1>7, <1>8
  <2>2. x[p].pos \in 1..n + 1 /\ p \in ToSet(ch[x[p].pos])
      BY <2>1 DEF PosOn
  <2>3. x[p].pos # n + 1
      BY <2>1, <2>2 DEF b
  <2> HIDE DEF y
  <2> QED
      BY <2>1, <2>2, <2>3
<1>9. \A p \in Tx : "pos" \in DOMAIN y[p]
    BY <1>6
<1> HIDE DEF y
<1>10. PosOn(y, ch, n)
  <2>1. DOMAIN y = Tx
      BY <1>7 DEF y
  <2> QED
      BY <1>8, <1>9, <2>1 DEF PosOn
<1> QED
    BY <1>10 DEF y, b

LEMMA DisconnectedAt ==
    ASSUME chain \in Seq(Seq(Tx)), NEW k \in Nat, k <= Len(chain), NEW i \in 1..k
    PROVE  Disconnected(k)[i] = chain[Len(chain) + 1 - i]
<1> DEFINE m == Len(chain) - k + 1
           s == SubSeq(chain, m, Len(chain))
<1>1. Len(chain) \in Nat /\ m \in Int /\ \A x \in m..Len(chain) : chain[x] \in Seq(Tx)
    OBVIOUS
<1>2. /\ k - i + 1 \in 1..k /\ m + (k - i + 1) - 1 = Len(chain) + 1 - i
      /\ m <= Len(chain) /\ Len(chain) - m + 1 = k
    OBVIOUS
<1> HIDE DEF m
<1>3. Len(s) = k /\ \A x \in 1..k : s[x] = chain[m + x - 1]
  <2>1. /\ Len(s) = Len(chain) - m + 1
        /\ \A x \in 1..Len(chain) - m + 1 : s[x] = chain[m + x - 1]
      BY <1>1, <1>2, SubSeqProperties
  <2> QED
      BY <1>2, <2>1
<1>4. Disconnected(k) = [x \in 1..Len(s) |-> s[Len(s) - x + 1]]
    BY DEF Disconnected, Reverse, m
<1> HIDE DEF s
<1>5. Disconnected(k)[i] = s[k - i + 1]
    BY <1>3, <1>4
<1>6. s[k - i + 1] = chain[m + (k - i + 1) - 1]
    BY <1>2, <1>3
<1> QED
    BY <1>2, <1>5, <1>6

\* the chain that Reorganize leaves
Spliced(k, branch) == SubSeq(chain, 1, Len(chain) - k) \o branch
IsSpliced(on, m, branch) ==
    /\ m \in Nat /\ on \in Seq(Seq(Tx)) /\ Len(on) = m + Len(branch)
    /\ \A i \in 1..m : on[i] = chain[i]
    /\ \A i \in 1..Len(branch) : on[m + i] = branch[i]

LEMMA SplicedIs ==
    ASSUME chain \in Seq(Seq(Tx)), NEW k \in Nat, k <= Len(chain), NEW branch \in Seq(Seq(Tx))
    PROVE  IsSpliced(Spliced(k, branch), Len(chain) - k, branch)
<1> DEFINE on == Spliced(k, branch)
           m == Len(chain) - k
           s == SubSeq(chain, 1, m)
<1>1. /\ 1 \in Int /\ m \in Nat /\ \A i \in 1..m : chain[i] \in Seq(Tx)
      /\ Len(branch) \in Nat
    OBVIOUS
<1> HIDE DEF m
<1>2. /\ s \in Seq(Seq(Tx)) /\ Len(s) = IF 1 <= m THEN m - 1 + 1 ELSE 0
      /\ \A i \in 1..m - 1 + 1 : s[i] = chain[1 + i - 1]
    BY <1>1, SubSeqProperties
<1>3. Len(s) = m /\ \A i \in 1..m : s[i] = chain[i]
    BY <1>1, <1>2
<1>4. on = s \o branch
    BY DEF s, m, Spliced
<1> HIDE DEF s
<1>5. /\ on \in Seq(Seq(Tx)) /\ Len(on) = m + Len(branch)
      /\ \A i \in 1..m + Len(branch) : on[i] = IF i <= m THEN s[i] ELSE branch[i - m]
  <2> DEFINE c == s \o branch
  <2>1. /\ c \in Seq(Seq(Tx)) /\ Len(c) = Len(s) + Len(branch)
        /\ \A i \in 1..Len(s) + Len(branch) :
              c[i] = IF i <= Len(s) THEN s[i] ELSE branch[i - Len(s)]
      BY <1>2, ConcatProperties
  <2>2. on = c
      BY <1>4
  <2> HIDE DEF c
  <2> QED
      BY <1>3, <2>1, <2>2
<1>6. \A i \in 1..m : on[i] = chain[i]
    BY <1>1, <1>3, <1>5
<1>7. ASSUME NEW i \in 1..Len(branch) PROVE on[m + i] = branch[i]
  <2> DEFINE j == m + i
  <2>1. j \in 1..m + Len(branch) /\ ~(j <= m) /\ j - m = i
      BY <1>1
  <2> HIDE DEF j
  <2>2. on[j] = branch[i]
      BY <1>5, <2>1
  <2> QED
      BY <2>2 DEF j
<1> QED
    BY <1>1, <1>5, <1>6, <1>7 DEF m, IsSpliced

LEMMA UnwoundPos ==
    ASSUME PosOn(txindex, chain, Len(chain)), chain \in Seq(Seq(Tx)),
           NEW k \in Nat, k <= Len(chain)
    PROVE  /\ "ok" \in DOMAIN Unwound(k)
           /\ Unwound(k).ok => PosOn(Unwound(k).index, chain, Len(chain) - k)
<1> DEFINE l == Len(chain)
<1>1. PICK r : /\ Unwound(k) = r[k]
               /\ r[0] = [ok |-> TRUE, index |-> txindex]
               /\ \A i \in 1..k : r[i] = TakeOff(r[i - 1], Disconnected(k)[i])
    BY UnwindRounds
<1>2. l \in Nat /\ k <= l /\ \A i \in 1..k : chain[l + 1 - i] \in Seq(Tx)
    OBVIOUS
<1> DEFINE Good(s, n) == "ok" \in DOMAIN s /\ (s.ok => PosOn(s.index, chain, l - n))
           S == {n \in Nat : n <= k => Good(r[n], n)}
<1>3. \A i \in 1..k : Disconnected(k)[i] = chain[l + 1 - i]
    BY DisconnectedAt
<1>4. 0 \in S
  <2>1. l - 0 = l
      BY <1>2
  <2> QED
      BY <1>1, <2>1
<1> HIDE DEF l
<1>5. ASSUME NEW n \in S \cap Nat PROVE n + 1 \in S
  <2> SUFFICES ASSUME n + 1 <= k PROVE Good(r[n + 1], n + 1)
      OBVIOUS
  <2>1. PICK i \in 1..k : i = n + 1 /\ i - 1 = n
      OBVIOUS
  <2> DEFINE s == r[i - 1]
             m == l - (n + 1)
             u == Undo(s.index, chain[m + 1])
  <2>2. m \in Nat /\ m + 1 = l - n /\ m + 1 = l + 1 - i
      BY <1>2, <2>1
  <2>3. r[i] = TakeOff(s, chain[m + 1]) /\ chain[m + 1] \in Seq(Tx)
      BY <1>1, <1>2, <1>3, <2>2
  <2>4. Good(s, n)
      BY <2>1
  <2> HIDE DEF s, m
  <2>5. CASE s.ok
    <3>1. TakeOff(s, chain[m + 1]) = u
        BY <2>5 DEF TakeOff
    <3>2. PosOn(s.index, chain, m + 1)
        BY <2>2, <2>4, <2>5
    <3>3. DOMAIN s.index = Tx
        BY <3>2 DEF PosOn
    <3>4. "ok" \in DOMAIN u
        BY <2>3, <3>3, UndoDrops
    <3>5. u.ok => PosOn(u.index, chain, m)
        BY <2>2, <2>3, <3>2, UndoPos
    <3> HIDE DEF u
    <3>6. Good(u, n + 1)
        BY <3>4, <3>5 DEF m
    <3> HIDE DEF Good
    <3> QED
        BY <2>1, <2>3, <3>1, <3>6
  <2>6. CASE ~s.ok
    <3>1. TakeOff(s, chain[m + 1]) = s
        BY <2>6 DEF TakeOff
    <3>2. Good(s, n + 1)
        BY <2>4, <2>6
    <3> HIDE DEF Good
    <3> QED
        BY <2>1, <2>3, <3>1, <3>2
  <2> QED
      BY <2>5, <2>6
<1> HIDE DEF S
<1>6. Nat \subseteq S
    BY <1>4, <1>5, NatInd
<1>7. Good(r[k], k)
    BY <1>6 DEF S
<1> QED
    BY <1>1, <1>7 DEF l

LEMMA RewoundPos ==
    ASSUME PosOn(txindex, chain, Len(chain)), chain \in Seq(Seq(Tx)),
           NEW k \in Nat, k <= Len(chain), NEW branch \in Seq(Seq(Tx)),
           Rewound(k, branch).ok
    PROVE  PosOn(Rewound(k, branch).index, Spliced(k, branch), Len(Spliced(k, branch)))
<1> DEFINE m == Len(chain) - k
           on == Spliced(k, branch)
<1>1. /\ m \in Nat /\ Len(on) = m + Len(branch)
      /\ \A i \in 1..m : on[i] = chain[i]
      /\ \A i \in 1..Len(branch) : on[m + i] = branch[i]
    BY SplicedIs DEF IsSpliced
<1> HIDE DEF on
<1>2. Len(branch) \in Nat /\ \A i \in 1..Len(branch) : branch[i] \in Seq(Tx)
    OBVIOUS
<1>3. PICK r : /\ Rewound(k, branch) = r[Len(branch)]
               /\ r[0] = Unwound(k)
               /\ \A i \in 1..Len(branch) : r[i] = PutOn(r[i - 1], branch[i], m + i)
    BY <1>2, RewindRounds
<1> DEFINE Good(s, n) == "ok" \in DOMAIN s /\ (s.ok => PosOn(s.index, on, m + n))
           S == {n \in Nat : n <= Len(branch) => Good(r[n], n)}
<1>4. 0 \in S
  <2>1. /\ "ok" \in DOMAIN Unwound(k)
        /\ Unwound(k).ok => PosOn(Unwound(k).index, chain, m)
      BY UnwoundPos
  <2> HIDE DEF m
  <2>2. ASSUME NEW x, PosOn(x, chain, m) PROVE PosOn(x, on, m + 0)
      BY <1>1, <2>2 DEF PosOn
  <2>3. Good(Unwound(k), 0)
      BY <2>1, <2>2
  <2> HIDE DEF Good
  <2> QED
      BY <1>3, <2>3
<1> HIDE DEF m
<1>5. ASSUME NEW n \in S \cap Nat PROVE n + 1 \in S
  <2> SUFFICES ASSUME n + 1 <= Len(branch) PROVE Good(r[n + 1], n + 1)
      OBVIOUS
  <2>0. n \in Nat /\ Good(r[n], n)
    <3> HIDE DEF Good
    <3> QED
        BY <1>2
  <2>1. PICK i \in 1..Len(branch) : i = n + 1 /\ i - 1 = n
    <3> HIDE DEF S, Good
    <3> DEFINE l == Len(branch)
    <3>1. n \in Nat /\ l \in Nat /\ n + 1 <= l
        BY <1>2, <2>0
    <3> HIDE DEF l
    <3>2. \E i \in 1..l : i = n + 1 /\ i - 1 = n
        BY <3>1
    <3> QED
        BY <3>2 DEF l
  <2> DEFINE s == r[i - 1]
             b == branch[i]
             h == m + n
             u == PutOn(s, b, h + 1)
  <2>2. h \in Nat /\ h + 1 = m + i /\ h + 1 = m + (n + 1)
      BY <1>1, <2>1
  <2>3. r[i] = u /\ b \in Seq(Tx)
      BY <1>2, <1>3, <2>2
  <2>4. Good(s, n)
      BY <2>0, <2>1
  <2>5. on[h + 1] = b /\ \A j \in 1..h : on[j] = on[j]
      BY <1>1, <2>2
  <2> HIDE DEF s, b, h
  <2>6. /\ "ok" \in DOMAIN u
        /\ u.ok => s.ok /\ Connects(s.index, b, h + 1) /\ u.index = Updated(s.index, b, h + 1)
      BY <2>4, PutOnIs
  <2>7. ASSUME s.ok, Connects(s.index, b, h + 1)
        PROVE  PosOn(Updated(s.index, b, h + 1), on, h + 1)
    <3>1. Scan(s.index, b, h + 1).ok
        BY <2>7 DEF Connects
    <3>2. PosOn(s.index, on, h)
        BY <2>4, <2>7 DEF h
    <3> QED
        BY <2>2, <2>3, <2>5, <3>1, <3>2, UpdatedPos
  <2> HIDE DEF u
  <2>8. Good(u, n + 1)
      BY <2>2, <2>6, <2>7
  <2> HIDE DEF Good
  <2> QED
      BY <2>1, <2>3, <2>8
<1> HIDE DEF S
<1>6. Nat \subseteq S
    BY <1>4, <1>5, NatInd
<1>7. Good(r[Len(branch)], Len(branch))
    BY <1>2, <1>6 DEF S
<1> QED
    BY <1>1, <1>3, <1>7 DEF on

PosInv == PosOn(txindex, chain, Len(chain))

\* the steps that connect or disconnect blocks
LEMMA ChainChanges ==
    ASSUME ChainInv, [Next]_vars
    PROVE  \/ UNCHANGED <<chain, txindex>>
           \/ /\ Idle /\ best' = best
              /\ \E b \in Seq(Tx) :
                    /\ Connects(txindex, b, Len(chain) + 1)
                    /\ txindex' = Updated(txindex, b, Len(chain) + 1)
                    /\ chain' = Append(chain, b)
           \/ /\ Idle /\ best' = best
              /\ \E k \in Nat, branch \in Seq(Seq(Tx)) :
                    /\ k <= Len(chain) /\ Len(branch) = k + 1
                    /\ Rewound(k, branch).ok /\ txindex' = Rewound(k, branch).index
                    /\ chain' = Spliced(k, branch)
<1>1. CASE TxStep
    BY <1>1 DEF TxStep, NextPrev, EndOfTx, RetryAccepts, RetryMisses, RetryRejects, chainVars
<1>2. CASE ChainStep
    BY <1>2 DEF ChainStep, ResurrectNext, DeleteNext, NewBestBlock, chainVars
<1>3. ASSUME NEW t \in Tx, ReceiveTx(t) \/ ReceiveOrphan(t) \/ SubmitTx(t)
      PROVE  UNCHANGED <<chain, txindex>>
    BY <1>3 DEF ReceiveTx, ReceiveOrphan, SubmitTx, chainVars
<1>4. ASSUME NEW b \in Candidates, Extend(b)
      PROVE  /\ Idle /\ best' = best /\ b \in Seq(Tx)
             /\ Connects(txindex, b, Len(chain) + 1)
             /\ txindex' = Updated(txindex, b, Len(chain) + 1)
             /\ chain' = Append(chain, b)
    BY <1>4, MemPoolAssumption DEF Extend
<1>5. ASSUME NEW k \in 1..MaxDepth, NEW branch \in [1..k+1 -> Candidates],
             Reorganize(k, branch)
      PROVE  /\ Idle /\ best' = best /\ k \in Nat /\ branch \in Seq(Seq(Tx))
             /\ k <= Len(chain) /\ Len(branch) = k + 1
             /\ Rewound(k, branch).ok /\ txindex' = Rewound(k, branch).index
             /\ chain' = Spliced(k, branch)
  <2>1. /\ Idle /\ best' = best /\ k <= Len(chain) /\ Len(branch) = k + 1
        /\ Rewound(k, branch).ok /\ txindex' = Rewound(k, branch).index
        /\ chain' = Spliced(k, branch)
      BY <1>5 DEF Reorganize, Spliced
  <2>2. k \in Nat /\ k + 1 \in Nat
      BY MemPoolAssumption
  <2>3. branch \in Seq(Seq(Tx))
    <3>1. \A i \in 1..k+1 : branch[i] \in Seq(Tx)
        BY MemPoolAssumption
    <3> QED
        BY <2>1, <2>2, <3>1
  <2> QED
      BY <2>1, <2>2, <2>3
<1>6. CASE PeerStep
    BY <1>3, <1>4, <1>5, <1>6 DEF PeerStep
<1>7. CASE CheckWork
  <2>1. PICK c \in Coinbases :
            /\ Connects(txindex, Mined(c), Len(chain) + 1)
            /\ txindex' = Updated(txindex, Mined(c), Len(chain) + 1)
            /\ chain' = Append(chain, Mined(c))
      BY <1>7 DEF CheckWork
  <2>2. c \in Tx /\ template.txs \in Seq(Tx)
      BY <1>7, TxAssumption DEF CheckWork, Coinbases, ChainInv, ChainTypes
  <2>3. Mined(c) \in Seq(Tx)
      BY <2>2 DEF Mined
  <2> QED
      BY <1>7, <2>1, <2>3 DEF CheckWork
<1>8. CASE MinerStep
    BY <1>7, <1>8 DEF MinerStep, ReadBest, CreateNewBlock, GiveUp, chainVars
<1>9. CASE UNCHANGED vars
    BY <1>9 DEF vars, chainVars
<1> QED
    BY <1>1, <1>2, <1>3, <1>6, <1>8, <1>9 DEF Next

LEMMA NextKeepsPos ==
    ASSUME ChainInv, PosInv, [Next]_vars
    PROVE  PosInv'
<1>1. chain \in Seq(Seq(Tx)) /\ Len(chain) \in Nat
    BY DEF ChainInv, ChainTypes
<1>2. CASE UNCHANGED <<chain, txindex>>
    BY <1>2 DEF PosInv
<1>3. ASSUME NEW b \in Seq(Tx), Connects(txindex, b, Len(chain) + 1),
             txindex' = Updated(txindex, b, Len(chain) + 1), chain' = Append(chain, b)
      PROVE  PosInv'
  <2>1. /\ Len(chain') = Len(chain) + 1 /\ chain'[Len(chain) + 1] = b
        /\ \A i \in 1..Len(chain) : chain'[i] = chain[i]
      BY <1>1, <1>3
  <2>2. Scan(txindex, b, Len(chain) + 1).ok /\ PosOn(txindex, chain, Len(chain))
      BY <1>3 DEF Connects, PosInv
  <2>3. PosOn(Updated(txindex, b, Len(chain) + 1), chain', Len(chain) + 1)
      BY <1>1, <2>1, <2>2, UpdatedPos
  <2> QED
      BY <1>3, <2>1, <2>3 DEF PosInv
<1>4. ASSUME NEW k \in Nat, NEW branch \in Seq(Seq(Tx)), k <= Len(chain),
             Rewound(k, branch).ok, txindex' = Rewound(k, branch).index,
             chain' = Spliced(k, branch)
      PROVE  PosInv'
  <2>1. PosOn(txindex, chain, Len(chain))
      BY DEF PosInv
  <2>2. PosOn(Rewound(k, branch).index, chain', Len(chain'))
      BY <1>1, <1>4, <2>1, RewoundPos
  <2> QED
      BY <1>4, <2>2 DEF PosInv
<1> QED
    BY <1>2, <1>3, <1>4, ChainChanges

LEMMA PosHolds == Spec => []PosInv
<1>1. Init => PosInv
  <2>1. "pos" \in DOMAIN Absent
      BY DEF Absent
  <2> QED
      BY <2>1 DEF Init, PosInv, PosOn, NoRecords
<1>2. ChainInv /\ PosInv /\ [Next]_vars => PosInv'
    BY NextKeepsPos
<1> QED
    BY ChainHolds, <1>1, <1>2, PTL DEF Spec

-----------------------------------------------------------------------------
(* What the miner has collected connects *)

CollectFirst == [ok |-> TRUE, queue |-> NoRecords, fees |-> 0]
CollectRound(txs, s, i) == CollectTx(s, txs[i])
IsCollect(r, txs, n) ==
    r = [i \in 0..n |-> IF i = 0 THEN CollectFirst ELSE CollectRound(txs, r[i - 1], i)]

LEMMA CollectExists ==
    ASSUME NEW txs
    PROVE  \A n \in Nat : \E r : IsCollect(r, txs, n)
<1> DEFINE S == {n \in Nat : \E r : IsCollect(r, txs, n)}
<1>1. 0 \in S
  <2> DEFINE r == [i \in 0..0 |-> CollectFirst]
  <2>1. IsCollect(r, txs, 0)
      BY DEF IsCollect
  <2> QED
      BY <2>1
<1>2. ASSUME NEW n \in S \cap Nat PROVE n + 1 \in S
  <2>1. PICK r : IsCollect(r, txs, n)
      OBVIOUS
  <2> DEFINE new == CollectRound(txs, r[n], n + 1)
             g == [i \in 0..n + 1 |-> IF i = n + 1 THEN new ELSE r[i]]
  <2>2. \A i \in 0..n : r[i] = IF i = 0 THEN CollectFirst ELSE CollectRound(txs, r[i - 1], i)
      BY <2>1 DEF IsCollect
  <2> HIDE DEF new
  <2>3. g[n + 1] = new /\ \A i \in 0..n : g[i] = r[i]
      OBVIOUS
  <2> DEFINE s == [i \in 0..n + 1 |-> IF i = 0 THEN CollectFirst ELSE CollectRound(txs, g[i - 1], i)]
  <2>4. ASSUME NEW i \in 0..n + 1
        PROVE  g[i] = IF i = 0 THEN CollectFirst ELSE CollectRound(txs, g[i - 1], i)
    <3> HIDE DEF g
    <3>1. CASE i = n + 1
      <4>1. i - 1 = n /\ i # 0 /\ n \in 0..n
          BY <3>1
      <4>2. g[i - 1] = r[n]
          BY <2>3, <4>1
      <4> QED
          BY <2>3, <3>1, <4>1, <4>2 DEF new
    <3>2. CASE i = 0
        BY <2>2, <2>3, <3>2
    <3>3. CASE i # 0 /\ i # n + 1
      <4>1. i \in 0..n /\ i - 1 \in 0..n
          BY <3>3
      <4>2. g[i] = r[i] /\ g[i - 1] = r[i - 1]
          BY <2>3, <4>1
      <4>3. r[i] = CollectRound(txs, r[i - 1], i)
          BY <2>2, <3>3, <4>1
      <4> QED
          BY <3>3, <4>2, <4>3
    <3> QED
        BY <3>1, <3>2, <3>3
  <2>5. g = s
      BY <2>4
  <2>6. IsCollect(g, txs, n + 1)
      BY <2>5 DEF IsCollect
  <2> QED
      BY <2>6
<1>3. Nat \subseteq S
  <2> HIDE DEF S
  <2> QED
      BY <1>1, <1>2, NatInd
<1> QED
    BY <1>3

LEMMA CollectRounds ==
    ASSUME NEW txs \in Seq(Tx)
    PROVE  \E r : /\ Collected(txs) = r[Len(txs)]
                  /\ r[0] = [ok |-> TRUE, queue |-> NoRecords, fees |-> 0]
                  /\ \A i \in 1..Len(txs) : r[i] = CollectTx(r[i - 1], txs[i])
<1> DEFINE r == CHOOSE r : IsCollect(r, txs, Len(txs))
<1>1. Len(txs) \in Nat
    OBVIOUS
<1>2. Collected(txs) = r[Len(txs)]
    BY DEF Collected, IsCollect, CollectFirst, CollectRound
<1>3. IsCollect(r, txs, Len(txs))
    BY <1>1, CollectExists
<1> HIDE DEF r
<1>4. /\ r[0] = CollectFirst
      /\ \A i \in 1..Len(txs) : r[i] = CollectRound(txs, r[i - 1], i)
    BY <1>1, <1>3 DEF IsCollect
<1> QED
    BY <1>2, <1>4 DEF CollectFirst, CollectRound

LEMMA CollectTxIs ==
    ASSUME NEW r, "ok" \in DOMAIN r, NEW t
    PROVE  LET s == CollectTx(r, t) IN
           /\ "ok" \in DOMAIN s
           /\ s.ok => /\ r.ok /\ MinerConnects(r, t)
                      /\ s.queue = Queued(txindex, r.queue, t, Len(chain) + 1)
                      /\ s.fees = r.fees + (ValueOf(In[t]) - ValueOut(t))
<1> DEFINE c == r.ok /\ MinerConnects(r, t)
           s == CollectTx(r, t)
           q == Queued(txindex, r.queue, t, Len(chain) + 1)
           f == r.fees + (ValueOf(In[t]) - ValueOut(t))
<1>1. s = IF c THEN [ok |-> TRUE, queue |-> q, fees |-> f] ELSE [r EXCEPT !.ok = FALSE]
    BY Zenon DEF CollectTx
<1>2. c => r.ok /\ MinerConnects(r, t)
    OBVIOUS
<1> HIDE DEF c, s, f, q
<1>3. CASE c
    BY <1>1, <1>2, <1>3 DEF s, q, f
<1>4. CASE ~c
  <2>1. s = [r EXCEPT !.ok = FALSE]
      BY <1>1, <1>4
  <2>2. "ok" \in DOMAIN s /\ ~s.ok
      BY <2>1
  <2> QED
      BY <2>2 DEF s
<1> QED
    BY <1>3, <1>4

\* s is the scan of the block with the coinbase c where the miner's own test is at r
Simulates(s, r, c) ==
    /\ s.ok /\ s.fees = r.fees
    /\ r.queue[c] = Absent
    /\ \A p \in Tx : p # c => s.queue[p] = r.queue[p]
    /\ \A p \in Tx : From(r.queue[p], txindex, p \notin Coinbase, Len(chain) + 1, p)

\* an input that the miner's test accepts is accepted in the block
LEMMA SpendableToo ==
    ASSUME PosInv, chain \in Seq(Seq(Tx)), minerPrev = chain, NEW c \in Coinbase,
           txindex[c] = Absent, NEW s, NEW r, Simulates(s, r, c),
           NEW t \in Tx, MinerConnects(r, t), NEW o \in In[t]
    PROVE  Spendable(txindex, s.queue, o, Len(chain) + 1)
<1> DEFINE p == o[1]
           x == Fetched(txindex, r.queue, p)
<1>1. p \in Tx
    BY TxAssumption
<1>2. /\ Found(txindex, r.queue, o) /\ x.spent[o[2]] = Unspent
      /\ ~MinerImmature(o, minerPrev)
    BY DEF MinerConnects
<1>3. x # Absent /\ o[2] \in DOMAIN x.spent
    BY <1>2 DEF Found
<1>4. p # c
    BY <1>3 DEF Fetched, Simulates
<1>5. Fetched(txindex, s.queue, p) = x
    BY <1>1, <1>4 DEF Fetched, Simulates
<1>6. ASSUME p \in Coinbase
      PROVE  x.pos \in 1..Len(chain) /\ p \in ToSet(chain[x.pos])
  <2>1. From(r.queue[p], txindex, FALSE, Len(chain) + 1, p)
      BY <1>1, <1>6 DEF Simulates
  <2>2. txindex[p] # Absent /\ x.pos = txindex[p].pos
      BY <1>3, <2>1 DEF Fetched, From
  <2> QED
      BY <1>1, <2>2 DEF PosInv, PosOn
<1> HIDE DEF x
<1>7. ~(p \in Coinbase /\ x.pos + Maturity > Len(chain) + 1)
  <2> SUFFICES ASSUME p \in Coinbase, x.pos + Maturity > Len(chain) + 1 PROVE FALSE
      OBVIOUS
  <2> DEFINE h == x.pos
  <2>1. h \in 1..Len(chain) /\ p \in ToSet(chain[h])
      BY <1>6
  <2>2. h > Len(chain) - Maturity /\ DOMAIN chain = 1..Len(chain)
    <3>1. Len(chain) \in Nat /\ Maturity \in Nat
        BY TxAssumption
    <3> QED
        BY <2>1, <3>1
  <2> HIDE DEF h
  <2>3. MinerImmature(o, minerPrev)
      BY <2>1, <2>2 DEF MinerImmature
  <2> QED
      BY <1>2, <2>3
<1>8. Found(txindex, s.queue, o)
    BY <1>3, <1>5 DEF Found
<1>9. ~Immature(txindex, s.queue, o, Len(chain) + 1)
    BY <1>5, <1>7 DEF Immature
<1> QED
    BY <1>2, <1>5, <1>8, <1>9 DEF Spendable

LEMMA ConnectTxOk ==
    ASSUME NEW index, NEW s, NEW t, NEW h, s.ok, ~Overwrites(index, t),
           \A o \in In[t] : Spendable(index, s.queue, o, h),
           t \notin Coinbase => ValueOf(In[t]) >= ValueOut(t)
    PROVE  LET u == ConnectTx(index, s, t, h) IN
           /\ u.ok /\ u.queue = Queued(index, s.queue, t, h)
           /\ u.fees = s.fees + IF t \in Coinbase THEN 0 ELSE ValueOf(In[t]) - ValueOut(t)
<1> DEFINE q == Queued(index, s.queue, t, h)
           f == s.fees + IF t \in Coinbase THEN 0 ELSE ValueOf(In[t]) - ValueOut(t)
<1>1. ConnectTx(index, s, t, h) = [ok |-> TRUE, queue |-> q, fees |-> f]
    BY Zenon DEF ConnectTx
<1> HIDE DEF q, f
<1> QED
    BY <1>1 DEF q, f

\* the records that two queues get alike
LEMMA QueuedAlike ==
    ASSUME NEW index, NEW q1, NEW q2, NEW t, NEW h, NEW p \in Tx, q1[p] = q2[p]
    PROVE  Queued(index, q1, t, h)[p] = Queued(index, q2, t, h)[p]
<1>1. Fetched(index, q1, p) = Fetched(index, q2, p)
    BY DEF Fetched
<1> DEFINE new == [pos |-> h, spent |-> [n \in 1..Len(Out[t]) |-> Unspent]]
           mark == <<h, t>>
<1>2. ASSUME NEW q
      PROVE  Queued(index, q, t, h)[p] =
                IF p = t THEN new
                ELSE IF \E o \in In[t] : o[1] = p THEN Mark(Fetched(index, q, p), p, t, mark)
                ELSE q[p]
    BY DEF Queued, Mark
<1> HIDE DEF new, mark
<1> QED
    BY <1>1, <1>2

LEMMA SimulationStep ==
    ASSUME PosInv, chain \in Seq(Seq(Tx)), minerPrev = chain, NEW c \in Coinbase,
           txindex[c] = Absent, NEW s, NEW r, Simulates(s, r, c),
           NEW t \in Tx \ Coinbase, txindex[t] = Absent, MinerConnects(r, t), NEW u,
           u.queue = Queued(txindex, r.queue, t, Len(chain) + 1),
           u.fees = r.fees + (ValueOf(In[t]) - ValueOut(t))
    PROVE  Simulates(ConnectTx(txindex, s, t, Len(chain) + 1), u, c)
<1> DEFINE h == Len(chain) + 1
           w == ConnectTx(txindex, s, t, h)
<1>0. c \in Tx /\ c # t
    BY TxAssumption
<1>1. \A o \in In[t] : Spendable(txindex, s.queue, o, h)
    BY SpendableToo
<1>2. ~Overwrites(txindex, t) /\ ValueOf(In[t]) >= ValueOut(t) /\ s.ok
    BY DEF Overwrites, MinerConnects, Simulates
<1> HIDE DEF h
<1>3. /\ w.ok /\ w.queue = Queued(txindex, s.queue, t, h)
      /\ w.fees = s.fees + IF t \in Coinbase THEN 0 ELSE ValueOf(In[t]) - ValueOut(t)
    BY <1>1, <1>2, ConnectTxOk
<1> HIDE DEF w
<1>4. w.fees = u.fees
    BY <1>3 DEF Simulates
<1>5. u.queue[c] = Absent
    BY <1>0, QueuedNew DEF Simulates
<1>6. ASSUME NEW p \in Tx, p # c PROVE w.queue[p] = u.queue[p]
  <2>1. s.queue[p] = r.queue[p]
      BY <1>6 DEF Simulates
  <2>2. Queued(txindex, s.queue, t, h)[p] = Queued(txindex, r.queue, t, h)[p]
      BY <2>1, QueuedAlike
  <2>3. u.queue = Queued(txindex, r.queue, t, h)
      BY DEF h
  <2> QED
      BY <1>3, <2>2, <2>3
<1>7. ASSUME NEW p \in Tx PROVE From(u.queue[p], txindex, p \notin Coinbase, h, p)
  <2>1. "pos" \in DOMAIN txindex[p]
      BY DEF PosInv, PosOn
  <2>2. From(r.queue[p], txindex, p \notin Coinbase, h, p)
      BY DEF Simulates, h
  <2>3. p = t => p \notin Coinbase
      OBVIOUS
  <2> DEFINE mine == p \notin Coinbase
  <2>4. mine \in BOOLEAN
      OBVIOUS
  <2> HIDE DEF mine
  <2>5. From(Queued(txindex, r.queue, t, h)[p], txindex, mine, h, p)
      BY <2>1, <2>2, <2>3, <2>4, QueuedFrom DEF mine
  <2> QED
      BY <2>5 DEF mine, h
<1>8. Simulates(w, u, c)
    BY <1>3, <1>4, <1>5, <1>6, <1>7 DEF Simulates, h
<1> QED
    BY <1>8 DEF w, h

LEMMA SimulationStart ==
    ASSUME NEW c \in Coinbase, txindex[c] = Absent, NEW s, NEW r, NEW h, h = Len(chain) + 1,
           s = [ok |-> TRUE, queue |-> NoRecords, fees |-> 0], r = s
    PROVE  Simulates(ConnectTx(txindex, s, c, h), r, c)
<1> DEFINE w == ConnectTx(txindex, s, c, h)
<1>1. c \in Tx /\ In[c] = {}
    BY TxAssumption
<1>2. /\ s.ok /\ s.fees = 0 /\ s.queue = NoRecords
      /\ \A p \in Tx : NoRecords[p] = Absent
    BY DEF NoRecords
<1>3. ~Overwrites(txindex, c)
    BY DEF Overwrites
<1>4. /\ w.ok /\ w.queue = Queued(txindex, s.queue, c, h)
      /\ w.fees = s.fees + IF c \in Coinbase THEN 0 ELSE ValueOf(In[c]) - ValueOut(c)
    BY <1>1, <1>2, <1>3, ConnectTxOk
<1> HIDE DEF w
<1>5. w.fees = r.fees
    BY <1>2, <1>4
<1>6. ASSUME NEW p \in Tx, p # c PROVE w.queue[p] = r.queue[p]
  <2> DEFINE q == NoRecords
  <2>1. Queued(txindex, q, c, h)[p] = q[p]
    <3> HIDE DEF q
    <3> QED
        BY <1>1, <1>6 DEF Queued
  <2> QED
      BY <1>2, <1>4, <2>1
<1>7. "pos" \in DOMAIN Absent
    BY DEF Absent
<1>8. \A p \in Tx : From(r.queue[p], txindex, p \notin Coinbase, h, p)
    BY <1>2, <1>7 DEF From
<1>9. r.queue[c] = Absent
    BY <1>1, <1>2
<1> QED
    BY <1>4, <1>5, <1>6, <1>8, <1>9 DEF Simulates, w

\* The block with the fresh coinbase c and the transactions that were collected
LEMMA CollectedConnects ==
    ASSUME PosInv, chain \in Seq(Seq(Tx)), minerPrev = chain, NEW c \in Coinbase,
           txindex[c] = Absent, NEW txs \in Seq(Tx),
           \A i \in 1..Len(txs) : txs[i] \notin Coinbase /\ txindex[txs[i]] = Absent,
           Collected(txs).ok
    PROVE  LET s == Scan(txindex, <<c>> \o txs, Len(chain) + 1)
           IN s.ok /\ s.fees = Collected(txs).fees
<1> DEFINE b == <<c>> \o txs
           h == Len(chain) + 1
           l == Len(txs)
<1>1. /\ l \in Nat /\ b \in Seq(Tx) /\ Len(b) = l + 1 /\ b[1] = c
      /\ \A i \in 1..l : b[i + 1] = txs[i]
  <2>1. c \in Tx /\ <<c>> \in Seq(Tx) /\ Len(<<c>>) = 1 /\ <<c>>[1] = c
      BY TxAssumption
  <2>2. /\ b \in Seq(Tx) /\ Len(b) = 1 + l
        /\ \A i \in 1..1 + l : b[i] = IF i <= 1 THEN <<c>>[i] ELSE txs[i - 1]
      BY <2>1, ConcatProperties
  <2>3. l \in Nat
      OBVIOUS
  <2> HIDE DEF b, l
  <2>4. b[1] = c
      BY <2>1, <2>2, <2>3
  <2>5. ASSUME NEW i \in 1..l PROVE b[i + 1] = txs[i]
    <3>1. i + 1 \in 1..1 + l /\ ~(i + 1 <= 1) /\ i + 1 - 1 = i
        BY <2>3
    <3> QED
        BY <2>2, <3>1
  <2>6. Len(b) = l + 1 /\ b \in Seq(Tx)
      BY <2>2, <2>3
  <2>7. \A i \in 1..l : b[i + 1] = txs[i]
      BY <2>5
  <2> QED
      BY <2>3, <2>4, <2>6, <2>7
<1>2. PICK s : /\ Scan(txindex, b, h) = s[Len(b)]
               /\ s[0] = [ok |-> TRUE, queue |-> NoRecords, fees |-> 0]
               /\ \A i \in 1..Len(b) : s[i] = ConnectTx(txindex, s[i - 1], b[i], h)
  <2>1. PICK s : ScanBy(s, txindex, b, h)
      BY <1>1, ScanRounds
  <2> QED
      BY <2>1 DEF ScanBy
<1>3. PICK r : /\ Collected(txs) = r[l]
               /\ r[0] = [ok |-> TRUE, queue |-> NoRecords, fees |-> 0]
               /\ \A i \in 1..l : r[i] = CollectTx(r[i - 1], txs[i])
    BY CollectRounds
<1>4. \A i \in 1..l : txs[i] \in Tx \ Coinbase /\ txindex[txs[i]] = Absent
    OBVIOUS
<1> HIDE DEF b, l, h
<1> DEFINE Good(n) == "ok" \in DOMAIN r[n] /\ (r[n].ok => Simulates(s[n + 1], r[n], c))
           S == {n \in Nat : n <= l => Good(n)}
<1>5. 0 \in S
  <2>1. 1 \in 1..Len(b) /\ 1 - 1 = 0
      BY <1>1
  <2>2. s[1] = ConnectTx(txindex, s[0], c, h)
      BY <1>1, <1>2, <2>1
  <2> DEFINE first == [ok |-> TRUE, queue |-> NoRecords, fees |-> 0]
  <2>3. s[0] = first /\ r[0] = first /\ "ok" \in DOMAIN first
      BY <1>2, <1>3
  <2>4. Simulates(ConnectTx(txindex, first, c, h), first, c)
      BY SimulationStart DEF h
  <2> HIDE DEF first
  <2>5. Simulates(s[1], r[0], c) /\ "ok" \in DOMAIN r[0]
      BY <2>2, <2>3, <2>4
  <2>6. Good(0)
      BY <2>5
  <2> HIDE DEF Good
  <2> QED
      BY <2>6
<1>6. ASSUME NEW n \in S \cap Nat PROVE n + 1 \in S
  <2> SUFFICES ASSUME n + 1 <= l PROVE Good(n + 1)
      OBVIOUS
  <2>1. PICK i \in 1..l : i = n + 1 /\ i - 1 = n
      BY <1>1
  <2>2. i + 1 \in 1..Len(b) /\ (i + 1) - 1 = i /\ n <= l /\ i = n + 1
      BY <1>1, <2>1
  <2>3. Good(n)
      BY <2>2
  <2> DEFINE t == txs[i]
             x == r[n]
             u == CollectTx(x, t)
             w == ConnectTx(txindex, s[i], t, h)
  <2>4. r[i] = u /\ s[i + 1] = w /\ t \in Tx \ Coinbase /\ txindex[t] = Absent
      BY <1>1, <1>2, <1>3, <1>4, <2>1, <2>2
  <2>5. "ok" \in DOMAIN x /\ (x.ok => Simulates(s[i], x, c))
      BY <2>2, <2>3
  <2> HIDE DEF Good, t, x
  <2>6. /\ "ok" \in DOMAIN u
        /\ u.ok => /\ x.ok /\ MinerConnects(x, t)
                   /\ u.queue = Queued(txindex, x.queue, t, Len(chain) + 1)
                   /\ u.fees = x.fees + (ValueOf(In[t]) - ValueOut(t))
      BY <2>5, CollectTxIs
  <2> HIDE DEF u
  <2>7. ASSUME u.ok PROVE Simulates(w, u, c)
    <3>1. Simulates(s[i], x, c)
        BY <2>5, <2>6, <2>7
    <3> QED
        BY <2>4, <2>6, <2>7, <3>1, SimulationStep DEF h
  <2> HIDE DEF w
  <2>8. "ok" \in DOMAIN r[i] /\ (r[i].ok => Simulates(s[i + 1], r[i], c))
      BY <2>4, <2>6, <2>7
  <2>9. Good(i)
      BY <2>8 DEF Good
  <2> QED
      BY <2>2, <2>9
<1> HIDE DEF S
<1>7. Nat \subseteq S
    BY <1>5, <1>6, NatInd
<1>8. Good(l)
    BY <1>1, <1>7 DEF S
<1>9. Simulates(s[l + 1], r[l], c)
    BY <1>3, <1>8
<1> QED
    BY <1>1, <1>2, <1>3, <1>9 DEF Simulates, b, h

\* A best chain only gives way to a longer one, so the block that a miner builds on
\* is the best one still, or shorter than it for ever
BehindTip(prev, tip) == prev \in Seq(Seq(Tx)) /\ (prev = tip \/ Len(prev) < Len(tip))
Behind(prev) == BehindTip(prev, best)

GrowInv ==
    /\ best = chain \/ Len(best) < Len(chain)
    /\ minerPrev # None => Behind(minerPrev)
    /\ template # None => Behind(template.prev)

\* the template is a block for the index that the node has
Ready ==
    \A c \in Coinbase : txindex[c] = Absent =>
        /\ CheckBlock(Mined(c))
        /\ Scan(txindex, Mined(c), Len(chain) + 1).ok
        /\ Scan(txindex, Mined(c), Len(chain) + 1).fees = template.fees
TemplateInv == template # None /\ template.prev = best /\ chain = best => Ready

\* the steps that move the best chain, and those of the miner
LEMMA BestChanges ==
    ASSUME [Next]_vars
    PROVE  \/ best' = best
           \/ best' = chain /\ best # chain /\ UNCHANGED <<chain, txindex, minerPrev, template>>
<1>1. CASE UNCHANGED vars
    BY <1>1 DEF vars, chainVars
<1>2. CASE TxStep
    BY <1>2 DEF TxStep, NextPrev, EndOfTx, RetryAccepts, RetryMisses, RetryRejects, chainVars
<1>3. CASE ChainStep
    BY <1>3 DEF ChainStep, ResurrectNext, DeleteNext, NewBestBlock, chainVars, minerVars
<1>4. CASE PeerStep
    BY <1>4 DEF PeerStep, ReceiveTx, ReceiveOrphan, Extend, Reorganize, chainVars
<1>5. CASE MinerStep
    BY <1>5 DEF MinerStep, ReadBest, CreateNewBlock, CheckWork, GiveUp, chainVars
<1>6. CASE \E t \in Tx : SubmitTx(t)
    BY <1>6 DEF SubmitTx, chainVars
<1> QED
    BY <1>1, <1>2, <1>3, <1>4, <1>5, <1>6 DEF Next

LEMMA MinerChanges ==
    ASSUME [Next]_vars
    PROVE  /\ \/ minerPrev' \in {minerPrev, None}
              \/ minerPrev' = best /\ best' = best
           /\ template' \in {template, None} \/ CreateNewBlock
<1>1. CASE UNCHANGED vars
    BY <1>1 DEF vars, minerVars
<1>2. CASE TxStep
    BY <1>2 DEF TxStep, NextPrev, EndOfTx, RetryAccepts, RetryMisses, RetryRejects, minerVars
<1>3. CASE ChainStep
    BY <1>3 DEF ChainStep, ResurrectNext, DeleteNext, NewBestBlock, minerVars
<1>4. CASE PeerStep
    BY <1>4 DEF PeerStep, ReceiveTx, ReceiveOrphan, Extend, Reorganize, minerVars
<1>5. CASE MinerStep
    BY <1>5 DEF MinerStep, ReadBest, CreateNewBlock, CheckWork, GiveUp, chainVars
<1>6. CASE \E t \in Tx : SubmitTx(t)
    BY <1>6 DEF SubmitTx, minerVars
<1> QED
    BY <1>1, <1>2, <1>3, <1>4, <1>5, <1>6 DEF Next

\* every chain that replaces another one is a block longer
LEMMA ChainGrows ==
    ASSUME ChainInv, [Next]_vars
    PROVE  \/ UNCHANGED <<chain, txindex>>
           \/ Idle /\ best' = best /\ Len(chain') = Len(chain) + 1
<1>1. chain \in Seq(Seq(Tx)) /\ Len(chain) \in Nat
    BY DEF ChainInv, ChainTypes
<1>2. ASSUME NEW b \in Seq(Tx), chain' = Append(chain, b) PROVE Len(chain') = Len(chain) + 1
    BY <1>1, <1>2
<1>3. ASSUME NEW k \in Nat, NEW branch \in Seq(Seq(Tx)), k <= Len(chain),
             Len(branch) = k + 1, chain' = Spliced(k, branch)
      PROVE  Len(chain') = Len(chain) + 1
  <2>1. Len(chain') = Len(chain) - k + (k + 1)
      BY <1>1, <1>3, SplicedIs DEF IsSpliced
  <2> QED
      BY <1>1, <2>1
<1> QED
    BY <1>2, <1>3, ChainChanges

\* what CreateNewBlock returns
LEMMA CreatedIs ==
    ASSUME ChainInv, PoolInv, CreateNewBlock
    PROVE  \E txs \in Seq(Tx) :
              /\ template' = [prev |-> minerPrev, txs |-> txs, fees |-> Collected(txs).fees]
              /\ Collected(txs).ok
              /\ \A i, j \in 1..Len(txs) : i # j => txs[i] # txs[j]
              /\ \A i \in 1..Len(txs) : txs[i] \notin Coinbase /\ txindex[txs[i]] = Absent
<1>1. PICK set \in SUBSET mapTx : \E txs \in SetToSeqs(set) :
          /\ Collected(txs).ok
          /\ template' = [prev |-> minerPrev, txs |-> txs, fees |-> Collected(txs).fees]
    BY DEF CreateNewBlock
<1>2. PICK txs \in SetToSeqs(set) :
          /\ Collected(txs).ok
          /\ template' = [prev |-> minerPrev, txs |-> txs, fees |-> Collected(txs).fees]
    BY <1>1
<1>3. Cardinality(set) \in Nat
    BY FS_Subset, FS_CardinalityType DEF ChainInv, ChainTypes
<1>4. /\ txs \in [1..Cardinality(set) -> set]
      /\ \A i, j \in 1..Cardinality(set) : i # j => txs[i] # txs[j]
    BY DEF SetToSeqs
<1>5. /\ txs \in Seq(Tx) /\ Len(txs) = Cardinality(set)
      /\ \A i \in 1..Len(txs) : txs[i] \in mapTx
    BY <1>3, <1>4 DEF PoolInv
<1>6. ASSUME NEW t \in mapTx PROVE t \notin Coinbase /\ txindex[t] = Absent
  <2>1. delete = <<>>
      BY DEF CreateNewBlock, Idle, ChainInv, Settled
  <2>2. t \notin ToSet(delete)
      BY <2>1 DEF ToSet
  <2> QED
      BY <2>2 DEF PoolInv, ChainInv, Covered
<1> QED
    BY <1>2, <1>4, <1>5, <1>6

LEMMA NextKeepsGrowth ==
    ASSUME ChainInv, PoolInv, GrowInv, [Next]_vars
    PROVE  GrowInv'
<1>1. chain \in Seq(Seq(Tx)) /\ best \in Seq(Seq(Tx)) /\ Len(chain) \in Nat /\ Len(best) \in Nat
    BY DEF ChainInv, ChainTypes
<1>2. best' = best \/ (Len(best) < Len(best') /\ best' = chain /\ chain' = chain /\ template' = template)
    BY BestChanges DEF GrowInv
<1>3. Len(best') \in Nat /\ best' \in Seq(Seq(Tx))
    BY <1>1, <1>2
<1>4. ASSUME NEW prev, Behind(prev) PROVE BehindTip(prev, best')
  <2>1. Len(prev) \in Nat
      BY <1>4 DEF Behind, BehindTip
  <2> QED
      BY <1>1, <1>2, <1>3, <1>4, <2>1 DEF Behind, BehindTip
<1>5. best' = chain' \/ Len(best') < Len(chain')
  <2>1. CASE UNCHANGED <<chain, txindex>>
      BY <1>2, <2>1 DEF GrowInv
  <2>2. CASE Idle /\ best' = best /\ Len(chain') = Len(chain) + 1
      BY <1>1, <2>2 DEF Idle
  <2> QED
      BY <2>1, <2>2, ChainGrows
<1>6. minerPrev' # None => BehindTip(minerPrev', best')
  <2>1. CASE minerPrev' \in {minerPrev, None}
      BY <1>4, <2>1 DEF GrowInv
  <2>2. CASE minerPrev' = best /\ best' = best
      BY <1>1, <2>2 DEF Behind, BehindTip
  <2> QED
      BY <2>1, <2>2, MinerChanges
<1>7. template' # None => BehindTip(template'.prev, best')
  <2>1. CASE template' \in {template, None}
      BY <1>4, <2>1 DEF GrowInv
  <2>2. CASE CreateNewBlock
    <3>1. template'.prev = minerPrev /\ minerPrev # None
        BY <2>2, CreatedIs DEF CreateNewBlock
    <3> QED
        BY <1>4, <3>1 DEF GrowInv
  <2> QED
      BY <2>1, <2>2, MinerChanges
<1> QED
    BY <1>5, <1>6, <1>7 DEF GrowInv, Behind

LEMMA CreateMakesReady ==
    ASSUME ChainInv, PoolInv, PosInv, CreateNewBlock, template'.prev = best'
    PROVE  Ready'
<1>1. PICK txs \in Seq(Tx) :
          /\ template' = [prev |-> minerPrev, txs |-> txs, fees |-> Collected(txs).fees]
          /\ Collected(txs).ok
          /\ \A i, j \in 1..Len(txs) : i # j => txs[i] # txs[j]
          /\ \A i \in 1..Len(txs) : txs[i] \notin Coinbase /\ txindex[txs[i]] = Absent
    BY CreatedIs
<1>2. UNCHANGED <<chain, txindex, best>> /\ chain = best
    BY DEF CreateNewBlock, Idle, chainVars
<1>3. template'.prev = minerPrev /\ template'.txs = txs /\ template'.fees = Collected(txs).fees
    BY <1>1
<1>4. minerPrev = chain /\ chain \in Seq(Seq(Tx))
    BY <1>2, <1>3 DEF ChainInv, ChainTypes
<1> SUFFICES ASSUME NEW c \in Coinbase, txindex[c] = Absent
             PROVE  LET b == <<c>> \o txs
                        s == Scan(txindex, b, Len(chain) + 1)
                    IN CheckBlock(b) /\ s.ok /\ s.fees = Collected(txs).fees
    BY <1>2, <1>3 DEF Ready, Mined
<1> DEFINE b == <<c>> \o txs
<1>5. LET s == Scan(txindex, b, Len(chain) + 1) IN s.ok /\ s.fees = Collected(txs).fees
    BY <1>1, <1>4, CollectedConnects
<1>6. CheckBlock(b)
  <2> DEFINE l == Len(txs)
  <2>1. c \in Tx /\ <<c>> \in Seq(Tx) /\ Len(<<c>>) = 1 /\ <<c>>[1] = c
      BY TxAssumption
  <2>2. /\ b \in Seq(Tx) /\ Len(b) = 1 + l
        /\ \A i \in 1..1 + l : b[i] = IF i <= 1 THEN <<c>>[i] ELSE txs[i - 1]
      BY <2>1, ConcatProperties
  <2>3. l \in Nat /\ DOMAIN b = 1..Len(b)
      BY <2>2
  <2>4. /\ \A i, j \in 1..l : i # j => txs[i] # txs[j]
        /\ \A i \in 1..l : txs[i] \notin Coinbase
      BY <1>1
  <2> HIDE DEF b, l
  <2>5. b[1] = c /\ Len(b) > 0
      BY <2>1, <2>2, <2>3
  <2>6. ASSUME NEW i \in 1..Len(b), i # 1 PROVE i - 1 \in 1..l /\ b[i] = txs[i - 1]
      BY <2>2, <2>3, <2>6
  <2>7. \A i \in 2..Len(b) : b[i] \notin Coinbase
    <3>1. ASSUME NEW i \in 2..Len(b) PROVE i \in 1..Len(b) /\ i # 1
        BY <2>2, <2>3
    <3> QED
        BY <2>4, <2>6, <3>1
  <2>8. ASSUME NEW i \in 1..Len(b), NEW j \in 1..Len(b), b[i] = b[j] PROVE i = j
    <3>1. i \in Int /\ j \in Int
        BY <2>2, <2>3
    <3>2. CASE i = 1 \/ j = 1
        BY <2>4, <2>5, <2>6, <2>8, <3>2
    <3>3. CASE i # 1 /\ j # 1
      <4>1. i - 1 = j - 1
          BY <2>4, <2>6, <2>8, <3>3
      <4> QED
          BY <3>1, <4>1
    <3> QED
        BY <3>2, <3>3
  <2>9. IsInjective(b)
      BY <2>3, <2>8 DEF IsInjective
  <2> QED
      BY <2>5, <2>7, <2>9 DEF CheckBlock
<1> QED
    BY <1>5, <1>6

LEMMA NextKeepsTemplate ==
    ASSUME ChainInv, PoolInv, PosInv, GrowInv, TemplateInv, [Next]_vars
    PROVE  TemplateInv'
<1> SUFFICES ASSUME template' # None, template'.prev = best', chain' = best'
             PROVE  Ready'
    BY DEF TemplateInv
<1>1. chain \in Seq(Seq(Tx)) /\ best \in Seq(Seq(Tx)) /\ Len(chain) \in Nat /\ Len(best) \in Nat
    BY DEF ChainInv, ChainTypes
<1>2. UNCHANGED <<chain, txindex>>
  <2>1. ASSUME Idle, best' = best, Len(chain') = Len(chain) + 1 PROVE FALSE
      BY <1>1, <2>1 DEF Idle
  <2> QED
      BY <2>1, ChainGrows
<1>3. CASE CreateNewBlock
    BY <1>3, CreateMakesReady
<1>4. CASE template' = template
  <2>1. best' = best
    <3> SUFFICES ASSUME best' = chain, best # chain PROVE FALSE
        BY BestChanges
    <3>1. Len(best) < Len(chain) /\ (template.prev = best \/ Len(template.prev) < Len(best))
        BY <1>4 DEF GrowInv, Behind, BehindTip
    <3>2. template.prev = chain
        BY <1>4
    <3> QED
        BY <1>1, <3>1, <3>2
  <2>2. Ready
      BY <1>2, <1>4, <2>1 DEF TemplateInv
  <2>3. Ready' <=> Ready
      BY <1>2, <1>4 DEF Ready, Mined
  <2> QED
      BY <2>2, <2>3
<1> QED
    BY <1>3, <1>4, MinerChanges

LEMMA TemplateHolds == Spec => [](GrowInv /\ TemplateInv)
<1>1. Init => GrowInv /\ TemplateInv
    BY DEF Init, GrowInv, TemplateInv
<1>2. ChainInv /\ PoolInv /\ PosInv /\ GrowInv /\ TemplateInv /\ [Next]_vars
      => GrowInv' /\ TemplateInv'
    BY NextKeepsGrowth, NextKeepsTemplate
<1> QED
    BY ChainHolds, PoolHolds, PosHolds, <1>1, <1>2, PTL DEF Spec

\* The miner reads pindexBest before it takes cs_main, and tests the transactions it
\* collects in a function of its own; the block that comes of it connects as long as it
\* builds on the best block, whatever happened to the pool and the chain in between.
THEOREM TemplateIsValid == Spec => []TemplateConnects
<1>1. ASSUME TemplateInv PROVE TemplateConnects
  <2> SUFFICES ASSUME Idle, template # None, template.prev = best, NEW c \in Coinbases
               PROVE  Connects(txindex, Mined(c), Len(chain) + 1)
      BY DEF TemplateConnects
  <2> DEFINE s == Scan(txindex, Mined(c), Len(chain) + 1)
  <2>1. c \in Coinbase /\ c \in Tx /\ txindex[c] = Absent /\ ValueOut(c) = Subsidy + template.fees
      BY TxAssumption DEF Coinbases
  <2>2. CheckBlock(Mined(c)) /\ s.ok /\ s.fees = template.fees
      BY <1>1, <2>1 DEF TemplateInv, Ready, Idle
  <2> HIDE DEF s
  <2>3. Mined(c)[1] = c
      BY DEF Mined
  <2>4. ValueOut(c) <= Subsidy + s.fees
    <3>1. ValueOut(c) \in Nat
        BY <2>1, ValueOutType
    <3> QED
        BY <2>1, <2>2, <3>1
  <2> QED
      BY <2>2, <2>3, <2>4 DEF Connects, Claims, s
<1> QED
    BY TemplateHolds, <1>1, PTL
=============================================================================
