---------------------------- MODULE KeyPoolProofs -----------------------------
(***************************************************************************)
(* Safety of the key pool for any holders, pool size, number of keys,      *)
(* crashes and failed writes.                                              *)
(***************************************************************************)
EXTENDS KeyPool, FiniteSetTheorems, TLAPS

\* Where the keys are: a key has at most one record, the index of a reserved key is
\* the only place where its record can be, a used key has none.
KeysPlaced ==
    /\ \A i \in Index : record[i] # NoKey => record[i] \in 1..fresh
    /\ \A i, j \in Index : record[i] # NoKey /\ record[i] = record[j] => i = j
    /\ \A h \in Holder : reserved[h].key \in Key =>
          /\ reserved[h].key \in 1..fresh
          /\ reserved[h].index \in Index
          /\ \A i \in Index : record[i] = reserved[h].key => i = reserved[h].index
    /\ \A i \in Index : record[i] \notin used

\* the key whose pool record is being written is the last one, and nowhere yet
PendingIsNew == pending =>
    /\ busy \in {"fill", "write"}
    /\ fresh \in 1..MaxKeys /\ fresh \notin used
    /\ \A i \in Index : record[i] # fresh
    /\ \A h \in Holder : reserved[h].key # fresh

DiskInv ==
    /\ TypeOK
    /\ busy \in {"erase", "write"} => crypted
    /\ KeysPlaced
    /\ PendingIsNew

\* The pool is a finite set, and the next index lies above it.
LEMMA PoolIsFinite ==
    ASSUME TypeOK
    PROVE  /\ IsFiniteSet(setKeyPool)
           /\ Cardinality(setKeyPool) \in Nat
           /\ Index \subseteq Nat /\ 0 \notin Index
           /\ \A i \in NextIndex : i \in Index /\ \A j \in setKeyPool : j < i
<1>1. IsFiniteSet(Index) /\ Index \subseteq Nat /\ 0 \notin Index
    BY KeyPoolAssumption, FS_Interval DEF Index
<1>2. IsFiniteSet(setKeyPool)
    BY <1>1, FS_Subset DEF TypeOK
<1>3. ASSUME NEW i \in NextIndex PROVE i \in Index /\ \A j \in setKeyPool : j < i
  <2>1. PICK last \in Last : i = last + 1 /\ i \in Index
      BY DEF NextIndex
  <2>2. last \in Nat /\ \A j \in setKeyPool : j <= last /\ j \in Nat
      BY <1>1 DEF Last, TypeOK
  <2> QED
      BY <2>1, <2>2
<1> QED
    BY <1>1, <1>2, <1>3, FS_CardinalityType

\* an empty record is none of the keys
LEMMA NoKeyIsNoKey ==
    ASSUME NEW n \in 0..MaxKeys, NEW S, S \subseteq 1..n
    PROVE  S \subseteq Key /\ NoKey \notin S
<1>1. 1..n \subseteq Key
    BY KeyPoolAssumption DEF Key
<1> QED
    BY <1>1, KeyPoolAssumption

-----------------------------------------------------------------------------
(* Every action keeps the keys where they belong                           *)

\* the pool of an empty wallet file satisfies the invariant
LEMMA DiskInit == Init => DiskInv
<1> SUFFICES ASSUME Init PROVE DiskInv
    OBVIOUS
<1>1. crypted \in BOOLEAN /\ locked \in BOOLEAN /\ (locked => crypted)
    BY KeyPoolAssumption DEF Init
<1>2. TypeOK
  <2>1. /\ setKeyPool \subseteq Index /\ record \in [Index -> Key \cup {NoKey}]
        /\ reserved \in [Holder -> [index : {0} \cup Index, key : Key \cup {NoKey, vchDefaultKey}]]
      BY DEF Init, Unreserved
  <2>2. used \subseteq 1..fresh /\ fresh \in 0..MaxKeys /\ faults \in 0..MaxFaults
      BY KeyPoolAssumption DEF Init
  <2>3. pending \in BOOLEAN /\ busy \in {"no", "fill", "erase", "write"}
      BY DEF Init
  <2> QED
      BY <1>1, <2>1, <2>2, <2>3 DEF TypeOK
<1> QED
    BY <1>2, KeyPoolAssumption DEF Init, DiskInv, KeysPlaced, PendingIsNew, Unreserved

\* the new key is in nobody's hands
LEMMA DiskGenerate == DiskInv /\ GenerateNewKey => DiskInv'
<1> SUFFICES ASSUME DiskInv, GenerateNewKey PROVE DiskInv'
    OBVIOUS
<1>1. /\ fresh \in Nat /\ MaxKeys \in Nat /\ fresh < MaxKeys /\ fresh' = fresh + 1
      /\ UNCHANGED <<setKeyPool, record, reserved, used, crypted, locked, busy, faults>>
      /\ pending' = TRUE /\ busy \in {"fill", "write"}
    BY KeyPoolAssumption DEF GenerateNewKey, DiskInv, TypeOK
<1>2. fresh' \in 1..MaxKeys /\ 1..fresh \subseteq 1..fresh' /\ fresh' \notin 1..fresh
    BY <1>1
<1>3. fresh' \in Key /\ NoKey \notin Key /\ vchDefaultKey \notin Key
    BY <1>2, KeyPoolAssumption DEF Key
<1>4. TypeOK'
  <2>1. used' \subseteq 1..fresh' /\ fresh' \in 0..MaxKeys
      BY <1>1, <1>2 DEF DiskInv, TypeOK
  <2> QED
      BY <1>1, <2>1 DEF DiskInv, TypeOK
<1>5. KeysPlaced'
    BY <1>1, <1>2 DEF DiskInv, KeysPlaced
<1>6. PendingIsNew'
  <2>1. \A i \in Index : record[i] # fresh'
      BY <1>2, <1>3 DEF DiskInv, KeysPlaced
  <2>2. \A h \in Holder : reserved[h].key # fresh'
      BY <1>2, <1>3 DEF DiskInv, KeysPlaced
  <2>3. fresh' \notin used
      BY <1>2 DEF DiskInv, TypeOK
  <2> QED
      BY <1>1, <1>2, <2>1, <2>2, <2>3 DEF PendingIsNew
<1> QED
    BY <1>1, <1>4, <1>5, <1>6 DEF DiskInv

\* the new key gets an index, in NewKeyPool maybe one that is reserved for another key
LEMMA DiskWrite == DiskInv /\ WritePool => DiskInv'
<1> SUFFICES ASSUME DiskInv, WritePool PROVE DiskInv'
    OBVIOUS
<1>1. PICK i \in NextIndex : /\ record' = [record EXCEPT ![i] = fresh]
                             /\ setKeyPool' = setKeyPool \cup {i}
    BY DEF WritePool
<1>2. i \in Index
    BY PoolIsFinite DEF DiskInv
<1>3. /\ fresh \in 1..MaxKeys /\ fresh \notin used
      /\ \A j \in Index : record[j] # fresh
      /\ \A h \in Holder : reserved[h].key # fresh
    BY DEF WritePool, DiskInv, PendingIsNew
<1>4. /\ UNCHANGED <<reserved, used, fresh, crypted, locked, busy, faults>>
      /\ pending' = FALSE
    BY DEF WritePool
<1>5. \A j \in Index : record'[j] = IF j = i THEN fresh ELSE record[j]
    BY <1>1 DEF DiskInv, TypeOK
<1>6. fresh \in Key /\ fresh \in 1..fresh
    BY <1>3, KeyPoolAssumption DEF Key
<1>7. TypeOK'
    BY <1>1, <1>2, <1>4, <1>6 DEF DiskInv, TypeOK
<1>8. KeysPlaced'
    BY <1>2, <1>3, <1>4, <1>5, <1>6 DEF DiskInv, KeysPlaced
<1> QED
    BY <1>4, <1>7, <1>8 DEF DiskInv, PendingIsNew

\* the index is in the pool without a record, or the loop is left
LEMMA DiskWriteFails == DiskInv /\ WritePoolFails => DiskInv'
<1> SUFFICES ASSUME DiskInv, WritePoolFails PROVE DiskInv'
    OBVIOUS
<1>1. /\ UNCHANGED <<record, reserved, used, fresh, crypted, locked>>
      /\ pending' = FALSE /\ faults' \in 0..MaxFaults
      /\ setKeyPool' \subseteq Index
      /\ busy' \in {"no", busy}
  <2>1. NextIndex \subseteq Index
      BY PoolIsFinite DEF DiskInv
  <2> QED
      BY <2>1, KeyPoolAssumption DEF WritePoolFails, DiskInv, TypeOK
<1> QED
    BY <1>1 DEF DiskInv, TypeOK, KeysPlaced, PendingIsNew

\* a key moves from the pool into the hands of a holder; its record stays
LEMMA DiskReserve == ASSUME NEW h \in Holder PROVE DiskInv /\ Reserve(h) => DiskInv'
<1> SUFFICES ASSUME DiskInv, Reserve(h) PROVE DiskInv'
    OBVIOUS
<1>1. PICK i \in Oldest :
          /\ setKeyPool' = setKeyPool \ {i}
          /\ reserved' = IF h \in Peeker /\ record[i] = NoKey THEN reserved
                         ELSE [reserved EXCEPT ![h] = [index |-> i, key |-> record[i]]]
    BY DEF Reserve
<1>2. UNCHANGED <<record, used, fresh, crypted, locked, busy, pending, faults>>
    BY DEF Reserve, cryptVars
<1>3. i \in Index /\ record \in [Index -> Key \cup {NoKey}]
    BY DEF Oldest, DiskInv, TypeOK
<1>4. TypeOK'
    BY <1>1, <1>2, <1>3 DEF DiskInv, TypeOK
<1>5. \A g \in Holder : \/ reserved'[g] = reserved[g]
                         \/ reserved'[g] = [index |-> i, key |-> record[i]]
    BY <1>1 DEF DiskInv, TypeOK
<1>6. KeysPlaced'
  <2>1. ASSUME NEW g \in Holder, reserved'[g].key \in Key
        PROVE  /\ reserved'[g].key \in 1..fresh
               /\ reserved'[g].index \in Index
               /\ \A j \in Index : record[j] = reserved'[g].key => j = reserved'[g].index
    <3>1. CASE reserved'[g] = reserved[g]
        BY <2>1, <3>1 DEF DiskInv, KeysPlaced
    <3>2. CASE reserved'[g] = [index |-> i, key |-> record[i]]
        BY <2>1, <3>2, <1>3, KeyPoolAssumption DEF DiskInv, KeysPlaced
    <3> QED
        BY <3>1, <3>2, <1>5
  <2> QED
      BY <2>1, <1>2 DEF DiskInv, KeysPlaced
<1>7. PendingIsNew'
    BY <1>2 DEF Reserve, ToppedUp, DiskInv, PendingIsNew
<1> QED
    BY <1>2, <1>4, <1>6, <1>7 DEF DiskInv

\* taken and used under one lock: the record goes with it
LEMMA DiskGetKey == DiskInv /\ GetKeyFromPool => DiskInv'
<1> SUFFICES ASSUME DiskInv, GetKeyFromPool PROVE DiskInv'
    OBVIOUS
<1>1. PICK i \in Oldest :
          /\ setKeyPool' = setKeyPool \ {i}
          /\ record' = [record EXCEPT ![i] = NoKey]
          /\ used' = used \cup ({record[i]} \ {NoKey})
    BY DEF GetKeyFromPool
<1>2. UNCHANGED <<reserved, fresh, crypted, locked, busy, pending, faults>> /\ busy = "no"
    BY DEF GetKeyFromPool, cryptVars, ToppedUp
<1>3. i \in Index
    BY DEF Oldest, DiskInv, TypeOK
<1>4. used' \subseteq 1..fresh /\ fresh \in 0..MaxKeys
    BY <1>1, <1>3 DEF DiskInv, TypeOK, KeysPlaced
<1>5. TypeOK'
    BY <1>1, <1>2, <1>3, <1>4 DEF DiskInv, TypeOK
<1>6. \A j \in Index : record'[j] = IF j = i THEN NoKey ELSE record[j]
    BY <1>1 DEF DiskInv, TypeOK
<1>7. NoKey \notin used' /\ NoKey \notin Key
    BY <1>4, NoKeyIsNoKey, KeyPoolAssumption
<1>8. \A j \in Index : record'[j] \notin used'
    BY <1>1, <1>3, <1>6, <1>7 DEF DiskInv, KeysPlaced
<1>9. KeysPlaced'
    BY <1>2, <1>6, <1>7, <1>8 DEF DiskInv, KeysPlaced
<1>10. PendingIsNew'
    BY <1>2 DEF DiskInv, PendingIsNew
<1> QED
    BY <1>2, <1>5, <1>9, <1>10 DEF DiskInv

\* the erased record is the one of the key, or of the key that replaced it
LEMMA DiskKeep == ASSUME NEW h \in Holder PROVE DiskInv /\ KeepKey(h) => DiskInv'
<1> SUFFICES ASSUME DiskInv, KeepKey(h) PROVE DiskInv'
    OBVIOUS
<1> DEFINE i == reserved[h].index
           k == reserved[h].key
<1>1. /\ reserved[h] \in [index : {0} \cup Index, key : Key \cup {NoKey, vchDefaultKey}]
      /\ k \in Key => /\ k \in 1..fresh /\ i \in Index
                      /\ \A j \in Index : record[j] = k => j = i
      /\ pending => k # fresh
    BY DEF DiskInv, TypeOK, KeysPlaced, PendingIsNew
<1> HIDE DEF i, k
<1>2. /\ record' = [j \in Index |-> IF j = i THEN NoKey ELSE record[j]]
      /\ used' = used \cup ({k} \cap Key)
      /\ reserved' = [reserved EXCEPT ![h] = Unreserved]
      /\ UNCHANGED <<setKeyPool, fresh, crypted, locked, busy, pending, faults>>
    BY DEF KeepKey, Erased, cryptVars, i, k
<1>3. used' \subseteq 1..fresh
    BY <1>1, <1>2 DEF DiskInv, TypeOK
<1>4. TypeOK'
    BY <1>2, <1>3 DEF Unreserved, DiskInv, TypeOK
<1>5. \A j \in Index : record'[j] = IF j = i THEN NoKey ELSE record[j]
    BY <1>2
<1>6. NoKey \notin used' /\ NoKey \notin Key
    BY <1>3, NoKeyIsNoKey, KeyPoolAssumption DEF DiskInv, TypeOK
<1>7. \A j \in Index : record'[j] \notin used'
    BY <1>1, <1>2, <1>5, <1>6 DEF DiskInv, KeysPlaced
<1>8. \A g \in Holder : reserved'[g] = IF g = h THEN Unreserved ELSE reserved[g]
    BY <1>2 DEF DiskInv, TypeOK
<1>9. KeysPlaced'
    BY <1>2, <1>5, <1>6, <1>7, <1>8 DEF DiskInv, KeysPlaced, Unreserved
<1>10. PendingIsNew'
  <2> SUFFICES ASSUME pending
               PROVE  /\ busy \in {"fill", "write"} /\ fresh \in 1..MaxKeys
                      /\ fresh \notin used'
                      /\ \A j \in Index : record'[j] # fresh
                      /\ \A g \in Holder : reserved'[g].key # fresh
      BY <1>2 DEF PendingIsNew
  <2>1. fresh \in Key /\ fresh # NoKey
      BY KeyPoolAssumption DEF DiskInv, PendingIsNew, Key
  <2> QED
      BY <2>1, <1>1, <1>2, <1>5, <1>8 DEF DiskInv, PendingIsNew, Unreserved
<1> QED
    BY <1>2, <1>4, <1>9, <1>10 DEF DiskInv

\* NewKeyPool gives up the old records
LEMMA DiskRenew == DiskInv /\ RenewErase => DiskInv'
<1> SUFFICES ASSUME DiskInv, RenewErase PROVE DiskInv'
    OBVIOUS
<1>1. UNCHANGED <<reserved, used, fresh, crypted, locked, pending, faults>> /\ ~pending /\ crypted
    BY DEF RenewErase, DiskInv, PendingIsNew, TypeOK
<1>2. CASE setKeyPool = {}
    BY <1>1, <1>2 DEF RenewErase, DiskInv, TypeOK, KeysPlaced, PendingIsNew
<1>3. CASE setKeyPool # {}
  <2>1. PICK i \in setKeyPool : record' = Erased(i) /\ setKeyPool' = setKeyPool \ {i} /\ busy' = busy
      BY <1>3 DEF RenewErase, Oldest
  <2>2. \A j \in Index : record'[j] = IF j = i THEN NoKey ELSE record[j]
      BY <2>1 DEF Erased
  <2>3. record' \in [Index -> Key \cup {NoKey}]
      BY <2>1 DEF Erased, DiskInv, TypeOK
  <2>4. TypeOK'
      BY <1>1, <2>1, <2>3 DEF DiskInv, TypeOK
  <2>5. NoKey \notin used /\ NoKey \notin Key
      BY NoKeyIsNoKey, KeyPoolAssumption DEF DiskInv, TypeOK
  <2>6. KeysPlaced'
      BY <1>1, <2>2, <2>5 DEF DiskInv, KeysPlaced
  <2> QED
      BY <1>1, <2>1, <2>4, <2>6 DEF DiskInv, PendingIsNew
<1> QED
    BY <1>2, <1>3

\* All the rest writes no record, or dies and reads them.
LEMMA DiskStep == DiskInv /\ [Next]_vars => DiskInv'
<1> SUFFICES ASSUME DiskInv, [Next]_vars PROVE DiskInv'
    OBVIOUS
<1>1. CASE TopUpKeyPool
    BY <1>1 DEF TopUpKeyPool, DiskInv, TypeOK, KeysPlaced, PendingIsNew
<1>2. CASE LoopEnds
  <2>1. locked' \in BOOLEAN /\ (locked' => crypted)
      BY <1>2 DEF LoopEnds, DiskInv, TypeOK
  <2> QED
      BY <1>2, <2>1 DEF LoopEnds, DiskInv, TypeOK, KeysPlaced, PendingIsNew
<1>3. CASE GetKeyFromPool
    BY <1>3, DiskGetKey
<1>4. ASSUME NEW h \in Holder, UseDefault(h) PROVE DiskInv'
  <2>1. \A g \in Holder : \/ reserved'[g] = reserved[g]
                          \/ reserved'[g].key = vchDefaultKey
      BY <1>4 DEF UseDefault, DiskInv, TypeOK
  <2>2. TypeOK'
      BY <1>4 DEF UseDefault, cryptVars, DiskInv, TypeOK
  <2>3. UNCHANGED <<record, fresh, used, crypted, busy, pending>> /\ ~pending
      BY <1>4 DEF UseDefault, cryptVars, DiskInv, PendingIsNew
  <2> QED
      BY <2>1, <2>2, <2>3, KeyPoolAssumption DEF DiskInv, KeysPlaced, PendingIsNew
<1>5. ASSUME NEW h \in Holder, ReturnKey(h) PROVE DiskInv'
  <2>1. \A g \in Holder : reserved'[g] = reserved[g] \/ reserved'[g].key = NoKey
      BY <1>5 DEF ReturnKey, Unreserved, DiskInv, TypeOK
  <2>2. TypeOK'
      BY <1>5 DEF ReturnKey, Unreserved, cryptVars, DiskInv, TypeOK
  <2>3. UNCHANGED <<record, fresh, used, crypted, busy, pending>> /\ ~pending
      BY <1>5 DEF ReturnKey, cryptVars, DiskInv, PendingIsNew
  <2> QED
      BY <2>1, <2>2, <2>3, KeyPoolAssumption DEF DiskInv, KeysPlaced, PendingIsNew
<1>6. CASE Unlock
    BY <1>6 DEF Unlock, DiskInv, TypeOK, KeysPlaced, PendingIsNew
<1>7. CASE Lock
    BY <1>7 DEF Lock, DiskInv, TypeOK, KeysPlaced, PendingIsNew
<1>8. CASE EncryptWallet
    BY <1>8 DEF EncryptWallet, DiskInv, TypeOK, KeysPlaced, PendingIsNew
<1>9. CASE CrashAndRestart
  <2>1. TypeOK'
    <3>1. reserved' \in [Holder -> [index : {0} \cup Index, key : Key \cup {NoKey, vchDefaultKey}]]
        BY <1>9 DEF CrashAndRestart, Unreserved
    <3>2. faults' \in 0..MaxFaults /\ setKeyPool' \subseteq Index
        BY <1>9, KeyPoolAssumption DEF CrashAndRestart, DiskInv, TypeOK
    <3>3. locked' = crypted /\ crypted' = crypted /\ crypted \in BOOLEAN /\ pending' = FALSE
        BY <1>9 DEF CrashAndRestart, DiskInv, TypeOK
    <3>4. locked' \in BOOLEAN /\ crypted' \in BOOLEAN /\ (locked' => crypted') /\ pending' \in BOOLEAN
        BY <3>3, Zenon
    <3> QED
        BY <1>9, <3>1, <3>2, <3>4 DEF CrashAndRestart, DiskInv, TypeOK
  <2>2. UNCHANGED <<record, fresh, used, crypted>> /\ pending' = FALSE /\ busy' = "no"
      BY <1>9 DEF CrashAndRestart
  <2>3. \A g \in Holder : reserved'[g].key = NoKey
      BY <1>9 DEF CrashAndRestart, Unreserved
  <2> QED
      BY <2>1, <2>2, <2>3, KeyPoolAssumption DEF DiskInv, KeysPlaced, PendingIsNew
<1>10. CASE UNCHANGED vars
    BY <1>10 DEF vars, DiskInv, TypeOK, KeysPlaced, PendingIsNew
<1> QED
    BY <1>1, <1>2, <1>3, <1>4, <1>5, <1>6, <1>7, <1>8, <1>9, <1>10, DiskGenerate, DiskWrite,
       DiskWriteFails, DiskReserve, DiskKeep, DiskRenew DEF Next

\* A used key never has a pool record again: no restart can bring it back, and
\* nor can a key that was given its index meanwhile.
THEOREM UsedIsGone == Spec => []UsedNotOnDisk
<1>1. DiskInv => UsedNotOnDisk
    BY DEF DiskInv, KeysPlaced, UsedNotOnDisk
<1> QED
    BY <1>1, DiskInit, DiskStep, PTL DEF Spec

-----------------------------------------------------------------------------
(* A wallet without encryption that keeps a spare key                      *)

\* Every index is in one place and leads to its key; and there is always an index
\* in the pool above each reserved one, so that the next numbers are new.
Backed ==
    /\ \A i \in setKeyPool : record[i] \in Key
    /\ \A h \in Holder : reserved[h].index # 0 =>
          /\ reserved[h].key \in Key
          /\ record[reserved[h].index] = reserved[h].key
          /\ reserved[h].index \notin setKeyPool
          /\ \A g \in Holder \ {h} : reserved[g].index # reserved[h].index
          /\ \E j \in setKeyPool : reserved[h].index < j

PlainInv == DiskInv /\ ~crypted /\ Backed

\* after the top-up the oldest index is not the only one
LEMMA ASpareStays ==
    ASSUME PlainInv, KeypoolSize > 0, ToppedUp, NEW i \in Oldest
    PROVE  \E j \in setKeyPool : i < j
<1> DEFINE n == Cardinality(setKeyPool)
<1>1. /\ n \in Nat /\ n >= 2 /\ setKeyPool \subseteq Nat
      /\ i \in setKeyPool /\ \A j \in setKeyPool : i <= j
    BY PoolIsFinite, KeyPoolAssumption
       DEF PlainInv, DiskInv, TypeOK, ToppedUp, Full, Size, Oldest
<1>2. PICK b \in setKeyPool : i # b
  <2>1. setKeyPool # {i}
      BY <1>1, FS_Singleton
  <2> QED
      BY <2>1, <1>1
<1>3. i < b
    BY <1>1, <1>2
<1> QED
    BY <1>3

\* the next index lies above the pool, so above every reserved index
LEMMA PlainWrite == PlainInv /\ WritePool => Backed'
<1> SUFFICES ASSUME PlainInv, WritePool PROVE Backed'
    OBVIOUS
<1>1. PICK i \in NextIndex : /\ record' = [record EXCEPT ![i] = fresh]
                             /\ setKeyPool' = setKeyPool \cup {i}
    BY DEF WritePool
<1>2. i \in Index /\ i \in Nat /\ \A j \in setKeyPool : j < i
    BY PoolIsFinite DEF PlainInv, DiskInv
<1>3. fresh \in Key
    BY DEF WritePool, PlainInv, DiskInv, PendingIsNew, Key
<1>4. \A j \in Index : record'[j] = IF j = i THEN fresh ELSE record[j]
    BY <1>1 DEF PlainInv, DiskInv, TypeOK
<1>5. reserved' = reserved
    BY DEF WritePool
<1>6. /\ setKeyPool \subseteq Index /\ Index \subseteq Nat
      /\ \A h \in Holder : reserved[h].index # 0 => reserved[h].index \in Index
    BY PoolIsFinite DEF PlainInv, DiskInv, TypeOK
<1>7. \A j \in setKeyPool' : record'[j] \in Key
    BY <1>1, <1>2, <1>3, <1>4, <1>6 DEF PlainInv, Backed
<1>8. ASSUME NEW h \in Holder, reserved[h].index # 0
      PROVE  reserved[h].index < i
  <2>1. PICK j \in setKeyPool : reserved[h].index < j
      BY <1>8 DEF PlainInv, Backed
  <2>2. reserved[h].index \in Nat /\ j \in Nat /\ j < i
      BY <1>2, <1>6, <1>8
  <2> QED
      BY <2>1, <2>2, <1>2
<1>9. ASSUME NEW h \in Holder, reserved[h].index # 0
      PROVE  reserved[h].index # i /\ reserved[h].index \in Index
    BY <1>6, <1>8, <1>9, <1>2
<1> QED
    BY <1>1, <1>4, <1>5, <1>7, <1>8, <1>9 DEF PlainInv, Backed

\* the oldest index leaves the pool after the top-up, for a holder or for good
LEMMA PlainReserve ==
    ASSUME KeypoolSize > 0, NEW h \in Holder, PlainInv, Reserve(h)
    PROVE  Backed'
<1>1. PICK i \in Oldest :
          /\ setKeyPool' = setKeyPool \ {i}
          /\ reserved' = IF h \in Peeker /\ record[i] = NoKey THEN reserved
                         ELSE [reserved EXCEPT ![h] = [index |-> i, key |-> record[i]]]
    BY DEF Reserve
<1>2. /\ i \in setKeyPool /\ setKeyPool \subseteq Nat /\ 0 \notin setKeyPool
      /\ \A k \in setKeyPool : i <= k
    BY PoolIsFinite DEF Oldest, PlainInv, DiskInv, TypeOK
<1>3. PICK j \in setKeyPool : i < j
    BY ASpareStays DEF Reserve
<1>4. /\ record' = record
      /\ record[i] \in Key /\ record[i] # NoKey
      /\ \A g \in Holder : reserved'[g] = IF g = h THEN [index |-> i, key |-> record[i]]
                                          ELSE reserved[g]
    BY <1>1, <1>2, KeyPoolAssumption DEF Reserve, Backed, PlainInv, DiskInv, TypeOK
<1>5. \A k \in setKeyPool' : record'[k] \in Key
    BY <1>1, <1>4 DEF PlainInv, Backed
<1>6. ASSUME NEW g \in Holder, reserved'[g].index # 0
      PROVE  /\ reserved'[g].key \in Key
             /\ record'[reserved'[g].index] = reserved'[g].key
             /\ reserved'[g].index \notin setKeyPool'
             /\ \E k \in setKeyPool' : reserved'[g].index < k
  <2>1. CASE g = h
    <3>1. reserved'[g].index = i /\ reserved'[g].key = record[i]
        BY <2>1, <1>4
    <3>2. j \in setKeyPool' /\ i \notin setKeyPool'
        BY <1>1, <1>2, <1>3
    <3> QED
        BY <3>1, <3>2, <1>3, <1>4
  <2>2. CASE g # h
    <3>1. /\ reserved'[g] = reserved[g] /\ reserved[g].index # 0
          /\ reserved[g].index \in Nat
        BY <2>2, <1>4, <1>6, PoolIsFinite DEF PlainInv, DiskInv, TypeOK
    <3>2. PICK k \in setKeyPool : reserved[g].index < k
        BY <3>1 DEF PlainInv, Backed
    <3>3. reserved[g].index < k /\ (k = i => reserved[g].index < j)
        BY <3>1, <3>2, <1>2, <1>3
    <3>4. \E l \in setKeyPool' : reserved[g].index < l
        BY <3>2, <3>3, <1>1, <1>2, <1>3
    <3> QED
        BY <3>1, <3>4, <1>1, <1>4 DEF PlainInv, Backed
  <2> QED
      BY <2>1, <2>2
<1>7. \A g, f \in Holder : g # f /\ reserved'[g].index # 0
                              => reserved'[f].index # reserved'[g].index
  <2>1. \A g \in Holder : reserved[g].index # i
      BY <1>2 DEF PlainInv, Backed
  <2> QED
      BY <2>1, <1>2, <1>4 DEF PlainInv, Backed
<1> QED
    BY <1>5, <1>6, <1>7 DEF Backed

LEMMA PlainGetKey ==
    ASSUME KeypoolSize > 0, PlainInv, GetKeyFromPool
    PROVE  Backed'
<1>1. PICK i \in Oldest :
          /\ setKeyPool' = setKeyPool \ {i}
          /\ record' = [record EXCEPT ![i] = NoKey]
    BY DEF GetKeyFromPool
<1>2. /\ i \in setKeyPool /\ setKeyPool \subseteq Nat /\ setKeyPool \subseteq Index
    BY PoolIsFinite DEF Oldest, PlainInv, DiskInv, TypeOK
<1>3. PICK j \in setKeyPool : i < j
    BY ASpareStays DEF GetKeyFromPool
<1>4. /\ \A k \in Index : record'[k] = IF k = i THEN NoKey ELSE record[k]
      /\ reserved' = reserved
    BY <1>1 DEF GetKeyFromPool, PlainInv, DiskInv, TypeOK
<1>5. \A k \in setKeyPool' : record'[k] \in Key
    BY <1>1, <1>2, <1>4 DEF PlainInv, Backed
<1>6. ASSUME NEW g \in Holder, reserved[g].index # 0
      PROVE  /\ record'[reserved[g].index] = reserved[g].key
             /\ reserved[g].index \notin setKeyPool'
             /\ \E k \in setKeyPool' : reserved[g].index < k
  <2>1. reserved[g].index \in Index /\ reserved[g].index \in Nat
      BY <1>6, PoolIsFinite DEF PlainInv, DiskInv, TypeOK
  <2>2. PICK k \in setKeyPool : reserved[g].index < k
      BY <1>6 DEF PlainInv, Backed
  <2>3. reserved[g].index < k /\ (k = i => reserved[g].index < j)
      BY <2>1, <2>2, <1>2, <1>3
  <2>4. \E l \in setKeyPool' : reserved[g].index < l
      BY <2>2, <2>3, <1>1, <1>2, <1>3
  <2>5. reserved[g].index \notin setKeyPool
      BY <1>6 DEF PlainInv, Backed
  <2>6. reserved[g].index # i
      BY <2>5, <1>2
  <2> QED
      BY <2>1, <2>4, <2>5, <2>6, <1>1, <1>4, <1>6 DEF PlainInv, Backed
<1> QED
    BY <1>5, <1>6, <1>4 DEF PlainInv, Backed

\* The other actions of a wallet without encryption move one index or none.
LEMMA PlainStep ==
    ASSUME KeypoolSize > 0, PlainInv, [Next]_vars, ~crypted'
    PROVE  PlainInv'
<1>1. DiskInv'
    BY DiskStep DEF PlainInv
<1>2. ~locked /\ busy \in {"no", "fill"}
    BY DEF PlainInv, DiskInv, TypeOK
<1>3. Backed'
  <2>1. CASE TopUpKeyPool \/ GenerateNewKey \/ LoopEnds
    <3>1. UNCHANGED <<setKeyPool, record, reserved>>
        BY <2>1 DEF TopUpKeyPool, GenerateNewKey, LoopEnds
    <3> QED
        BY <3>1 DEF PlainInv, Backed
  <2>2. CASE WritePoolFails
      BY <2>2, <1>2 DEF WritePoolFails, PlainInv, Backed
  <2>3. CASE WritePool
      BY <2>3, PlainWrite
  <2>4. ASSUME NEW h \in Holder, KeepKey(h) PROVE Backed'
    <3>1. /\ setKeyPool' = setKeyPool
          /\ \A j \in Index : record'[j] = IF j = reserved[h].index THEN NoKey ELSE record[j]
          /\ \A g \in Holder : reserved'[g] = IF g = h THEN Unreserved ELSE reserved[g]
        BY <2>4 DEF KeepKey, Erased, PlainInv, DiskInv, TypeOK
    <3>2. setKeyPool \subseteq Index /\ 0 \notin Index
        BY PoolIsFinite DEF PlainInv, DiskInv, TypeOK
    <3>3. \A g \in Holder : reserved[g].index # 0 => reserved[g].index \in Index
        BY DEF PlainInv, DiskInv, TypeOK
    <3>4. \A j \in setKeyPool : record'[j] = record[j]
        BY <3>1, <3>2 DEF PlainInv, Backed
    <3> QED
        BY <3>1, <3>3, <3>4 DEF PlainInv, Backed, Unreserved
  <2>5. ASSUME NEW h \in Holder, ReturnKey(h) PROVE Backed'
    <3>1. /\ setKeyPool' = setKeyPool \cup ({reserved[h].index} \ {0})
          /\ record' = record
          /\ \A g \in Holder : reserved'[g] = IF g = h THEN Unreserved ELSE reserved[g]
        BY <2>5 DEF ReturnKey, PlainInv, DiskInv, TypeOK
    <3> QED
        BY <3>1 DEF PlainInv, Backed, Unreserved
  <2>6. CASE CrashAndRestart
    <3>1. /\ setKeyPool' = {i \in Index : record[i] # NoKey} /\ record' = record
          /\ \A g \in Holder : reserved'[g] = Unreserved
        BY <2>6 DEF CrashAndRestart
    <3> QED
        BY <3>1 DEF PlainInv, DiskInv, TypeOK, Backed, Unreserved
  <2>7. ASSUME NEW h \in Holder, UseDefault(h) PROVE FALSE
      BY <2>7, <1>2 DEF UseDefault
  <2>8. CASE Unlock \/ Lock \/ EncryptWallet \/ RenewErase
      BY <2>8, <1>2 DEF PlainInv, Unlock, Lock, EncryptWallet, RenewErase
  <2>9. CASE UNCHANGED vars
      BY <2>9 DEF vars, PlainInv, Backed
  <2> QED
      BY <2>1, <2>2, <2>3, <2>4, <2>5, <2>6, <2>7, <2>8, <2>9, PlainReserve, PlainGetKey DEF Next
<1> QED
    BY <1>1, <1>3 DEF PlainInv

\* a wallet stays encrypted
LEMMA CryptedStays ==
    ASSUME crypted, [Next]_vars
    PROVE  crypted'
    BY Zenon DEF Next, vars, TopUpKeyPool, GenerateNewKey, WritePool, WritePoolFails, LoopEnds,
        GetKeyFromPool, Reserve, UseDefault, KeepKey, ReturnKey, Unlock, Lock, EncryptWallet,
        RenewErase, CrashAndRestart, cryptVars

\* Until the wallet is encrypted an index in the pool, or in the hands of a holder,
\* leads to the key it stands for.  Both conditions, no encryption and a spare key, are
\* needed: a drained pool numbers its keys from 1 again.
THEOREM PoolIsBacked ==
    ASSUME KeypoolSize > 0
    PROVE  Spec => []PoolBacked
<1> DEFINE I == DiskInv /\ (~crypted => PlainInv)
<1>1. Init => I
  <2>1. Init => Backed
      BY DEF Init, Backed, Unreserved
  <2> QED
      BY <2>1, DiskInit DEF PlainInv
<1>2. I /\ [Next]_vars => I'
    BY PlainStep, DiskStep, CryptedStays
<1>3. I => PoolBacked
    BY KeyPoolAssumption DEF PlainInv, Backed, PoolBacked
<1> QED
    BY <1>1, <1>2, <1>3, PTL DEF Spec

\* Until then no key is handed out twice, and none after it was used.
THEOREM OneOwner ==
    ASSUME KeypoolSize > 0
    PROVE  Spec => []PlainUsedOnce
<1>1. DiskInv /\ PoolBacked => PlainUsedOnce
  <2> SUFFICES ASSUME DiskInv, PoolBacked, ~crypted, NEW h \in Holder, reserved[h].key \in Key
               PROVE  /\ reserved[h].key \notin used
                      /\ \A g \in Holder \ {h} : reserved[g].key # reserved[h].key
      BY DEF PlainUsedOnce, UsedOnce
  <2>1. reserved[h].index \in Index /\ reserved[h].index # 0
      BY KeyPoolAssumption DEF DiskInv, KeysPlaced, Index
  <2>2. record[reserved[h].index] = reserved[h].key
      BY <2>1 DEF PoolBacked
  <2>3. reserved[h].key \notin used
      BY <2>1, <2>2 DEF DiskInv, KeysPlaced
  <2>4. ASSUME NEW g \in Holder \ {h}, reserved[g].key = reserved[h].key
        PROVE  FALSE
    <3>1. reserved[g].index = reserved[h].index
        BY <2>1, <2>2, <2>4 DEF DiskInv, KeysPlaced
    <3> QED
        BY <3>1, <2>1 DEF PoolBacked
  <2> QED
      BY <2>3, <2>4
<1>2. Spec => []DiskInv
    BY DiskInit, DiskStep, PTL DEF Spec
<1> QED
    BY <1>1, <1>2, PoolIsBacked, PTL

-----------------------------------------------------------------------------
(* No key is lost but by a fault                                           *)

\* No record lies above the pool, so that a top-up overwrites none.
Covered == \A i \in Index : record[i] # NoKey => \E j \in setKeyPool : i <= j

LostBounded == Cardinality(Lost) <= faults + (IF pending THEN 1 ELSE 0)

LostInv == PlainInv /\ Covered /\ LostBounded

\* the lost keys are finitely many; fewer of them have no larger cardinality
LEMMA LostFinite ==
    ASSUME TypeOK
    PROVE  /\ IsFiniteSet(Lost) /\ Cardinality(Lost) \in Nat
           /\ \A S : S \subseteq Lost => Cardinality(S) <= Cardinality(Lost) /\ Cardinality(S) \in Nat
           /\ faults \in Nat
<1>1. IsFiniteSet(1..fresh) /\ faults \in Nat
    BY KeyPoolAssumption, FS_Interval DEF TypeOK
<1>2. IsFiniteSet(Lost)
    BY <1>1, FS_Subset DEF Lost
<1>3. ASSUME NEW S, S \subseteq Lost PROVE Cardinality(S) <= Cardinality(Lost) /\ Cardinality(S) \in Nat
    BY <1>2, <1>3, FS_Subset, FS_CardinalityType
<1> QED
    BY <1>1, <1>2, <1>3, FS_CardinalityType

\* no further key is lost, and no allowance is taken back
LEMMA LostKept ==
    ASSUME TypeOK, LostBounded, Lost' \subseteq Lost,
           \/ faults' = faults /\ pending' = pending
           \/ faults' = faults + 1 /\ pending' = FALSE
    PROVE  LostBounded'
<1>1. /\ Cardinality(Lost') <= Cardinality(Lost)
      /\ Cardinality(Lost') \in Nat /\ Cardinality(Lost) \in Nat /\ faults \in Nat
    BY LostFinite
<1>2. Cardinality(Lost) <= faults + (IF pending THEN 1 ELSE 0)
    BY DEF LostBounded
<1>3. Cardinality(Lost') <= faults' + (IF pending' THEN 1 ELSE 0)
    BY <1>1, <1>2
<1> QED
    BY <1>3 DEF LostBounded

\* until its record is written the new key counts as lost
LEMMA LostGenerate == LostInv /\ GenerateNewKey => LostBounded'
<1> SUFFICES ASSUME LostInv, GenerateNewKey PROVE LostBounded'
    OBVIOUS
<1>1. /\ fresh' = fresh + 1 /\ pending' = TRUE /\ pending = FALSE
      /\ UNCHANGED <<record, used, faults>> /\ fresh \in Nat
    BY KeyPoolAssumption DEF GenerateNewKey, LostInv, PlainInv, DiskInv, TypeOK
<1>2. Lost' \subseteq Lost \cup {fresh'}
    BY <1>1 DEF Lost
<1>3. /\ IsFiniteSet(Lost) /\ Cardinality(Lost) \in Nat /\ faults \in Nat
      /\ Cardinality(Lost) <= faults
    BY <1>1, LostFinite DEF LostInv, PlainInv, DiskInv, LostBounded
<1>4. /\ IsFiniteSet(Lost \cup {fresh'})
      /\ Cardinality(Lost \cup {fresh'}) <= Cardinality(Lost) + 1
      /\ Cardinality(Lost \cup {fresh'}) \in Nat
  <2>1. /\ IsFiniteSet(Lost \cup {fresh'})
        /\ Cardinality(Lost \cup {fresh'}) = IF fresh' \in Lost THEN Cardinality(Lost)
                                             ELSE Cardinality(Lost) + 1
      BY <1>3, FS_AddElement
  <2> QED
      BY <1>3, <2>1
<1>5. Cardinality(Lost') <= Cardinality(Lost \cup {fresh'}) /\ Cardinality(Lost') \in Nat
    BY <1>2, <1>4, FS_Subset, FS_CardinalityType
<1>6. Cardinality(Lost') <= faults' + (IF pending' THEN 1 ELSE 0)
    BY <1>1, <1>3, <1>4, <1>5
<1> QED
    BY <1>6 DEF LostBounded

\* the record of the new key is written over none
LEMMA LostWrite == LostInv /\ WritePool => Covered' /\ LostBounded'
<1> SUFFICES ASSUME LostInv, WritePool PROVE Covered' /\ LostBounded'
    OBVIOUS
<1>1. PICK i \in NextIndex : /\ record' = [record EXCEPT ![i] = fresh]
                             /\ setKeyPool' = setKeyPool \cup {i}
    BY DEF WritePool
<1>2. /\ i \in Index /\ i \in Nat
      /\ \A j \in setKeyPool : j < i /\ j \in Nat
    BY PoolIsFinite DEF LostInv, PlainInv, DiskInv, TypeOK
<1>3. \A j \in Index : record'[j] = IF j = i THEN fresh ELSE record[j]
    BY <1>1 DEF LostInv, PlainInv, DiskInv, TypeOK
<1>4. record[i] = NoKey
  <2>1. ASSUME NEW j \in setKeyPool PROVE ~(i <= j)
      BY <1>2
  <2> QED
      BY <1>2, <2>1 DEF LostInv, Covered
<1>5. Covered'
  <2> SUFFICES ASSUME NEW j \in Index, record'[j] # NoKey
               PROVE  \E l \in setKeyPool' : j <= l
      BY DEF Covered
  <2>1. CASE j = i
      BY <2>1, <1>1, <1>2
  <2>2. CASE j # i
      BY <2>2, <1>1, <1>3 DEF LostInv, Covered
  <2> QED
      BY <2>1, <2>2
<1>6. /\ pending = TRUE /\ pending' = FALSE /\ UNCHANGED <<used, fresh, faults>>
      /\ fresh \in 1..fresh /\ fresh \notin used
      /\ \A j \in Index : record[j] # fresh
    BY KeyPoolAssumption DEF WritePool, LostInv, PlainInv, DiskInv, PendingIsNew, TypeOK
<1>7. NoKey \notin 1..fresh
    BY NoKeyIsNoKey DEF LostInv, PlainInv, DiskInv, TypeOK
<1>8. fresh \in Lost /\ Lost' \subseteq Lost \ {fresh}
  <2>1. fresh \in Lost
      BY <1>6 DEF Lost
  <2>2. ASSUME NEW k \in Lost' PROVE k \in Lost /\ k # fresh
    <3>1. k \in 1..fresh /\ k \notin used /\ \A j \in Index : record'[j] # k
        BY <1>6 DEF Lost
    <3>2. \A j \in Index : record[j] # k
        BY <3>1, <1>3, <1>4, <1>7
    <3> QED
        BY <3>1, <3>2, <1>2, <1>3 DEF Lost
  <2> QED
      BY <2>1, <2>2
<1>9. /\ IsFiniteSet(Lost) /\ Cardinality(Lost) \in Nat /\ faults \in Nat
      /\ Cardinality(Lost) <= faults + 1
    BY <1>6, LostFinite DEF LostInv, PlainInv, DiskInv, LostBounded
<1>10. /\ IsFiniteSet(Lost \ {fresh})
       /\ Cardinality(Lost \ {fresh}) = Cardinality(Lost) - 1
    BY <1>8, <1>9, FS_RemoveElement
<1>11. Cardinality(Lost') <= Cardinality(Lost \ {fresh}) /\ Cardinality(Lost') \in Nat
    BY <1>8, <1>10, FS_Subset, FS_CardinalityType
<1>12. Cardinality(Lost') <= faults' + (IF pending' THEN 1 ELSE 0)
    BY <1>6, <1>9, <1>10, <1>11
<1> QED
    BY <1>5, <1>12 DEF LostBounded

\* A key leaves its record only when it is used, and an index its pool only while a
\* higher one stays.
LEMMA LostStep ==
    ASSUME KeypoolSize > 0, LostInv, [Next]_vars, ~crypted'
    PROVE  LostInv'
<1>1. PlainInv'
    BY PlainStep DEF LostInv
<1>2. ~locked /\ busy \in {"no", "fill"} /\ TypeOK
    BY DEF LostInv, PlainInv, DiskInv, TypeOK
<1>3. Index \subseteq Nat /\ setKeyPool \subseteq Index
    BY PoolIsFinite DEF LostInv, PlainInv, DiskInv, TypeOK
<1>4. CASE TopUpKeyPool \/ LoopEnds \/ UNCHANGED vars
  <2>1. UNCHANGED <<setKeyPool, record, used, fresh, pending, faults>>
      BY <1>4 DEF TopUpKeyPool, LoopEnds, vars
  <2>2. Lost' \subseteq Lost
      BY <2>1 DEF Lost
  <2> QED
      BY <1>1, <1>2, <2>1, <2>2, LostKept DEF LostInv, Covered
<1>5. CASE GenerateNewKey
  <2>1. Covered'
      BY <1>5 DEF GenerateNewKey, LostInv, Covered
  <2> QED
      BY <1>1, <1>5, <2>1, LostGenerate DEF LostInv
<1>6. CASE WritePool
    BY <1>1, <1>6, LostWrite DEF LostInv
<1>7. CASE WritePoolFails
  <2>1. UNCHANGED <<setKeyPool, record, used, fresh>> /\ faults' = faults + 1 /\ pending' = FALSE
      BY <1>2, <1>7 DEF WritePoolFails
  <2>2. Lost' \subseteq Lost
      BY <2>1 DEF Lost
  <2> QED
      BY <1>1, <1>2, <2>1, <2>2, LostKept DEF LostInv, Covered
<1>8. ASSUME NEW h \in Holder, Reserve(h) PROVE LostInv'
  <2>1. PICK i \in Oldest : setKeyPool' = setKeyPool \ {i}
      BY <1>8 DEF Reserve
  <2>2. PICK j \in setKeyPool : i < j
      BY <1>8, ASpareStays DEF Reserve, LostInv
  <2>3. UNCHANGED <<record, used, fresh, pending, faults>>
      BY <1>8 DEF Reserve, cryptVars
  <2>4. i \in Nat /\ j \in Nat
      BY <1>3 DEF Oldest
  <2>5. Covered'
      BY <2>1, <2>2, <2>3, <2>4, <1>3 DEF LostInv, Covered
  <2>6. Lost' \subseteq Lost
      BY <2>3 DEF Lost
  <2> QED
      BY <1>1, <1>2, <2>3, <2>5, <2>6, LostKept DEF LostInv
<1>9. CASE GetKeyFromPool
  <2>1. PICK i \in Oldest :
            /\ setKeyPool' = setKeyPool \ {i}
            /\ record' = [record EXCEPT ![i] = NoKey]
            /\ used' = used \cup ({record[i]} \ {NoKey})
      BY <1>9 DEF GetKeyFromPool
  <2>2. PICK j \in setKeyPool : i < j
      BY <1>9, ASpareStays DEF GetKeyFromPool, LostInv
  <2>3. UNCHANGED <<fresh, pending, faults>>
      BY <1>9 DEF GetKeyFromPool, cryptVars
  <2>4. i \in Nat /\ j \in Nat
      BY <1>3 DEF Oldest
  <2>5. \A k \in Index : record'[k] = IF k = i THEN NoKey ELSE record[k]
      BY <2>1, <1>2 DEF TypeOK
  <2>6. Covered'
      BY <2>1, <2>2, <2>4, <2>5, <1>3 DEF LostInv, Covered
  <2>7. NoKey \notin 1..fresh
      BY <1>2, NoKeyIsNoKey DEF TypeOK
  <2>8. ASSUME NEW k \in Lost' PROVE k \in Lost
    <3>1. k \in 1..fresh /\ k \notin used' /\ \A l \in Index : record'[l] # k
        BY <2>3 DEF Lost
    <3>2. \A l \in Index : record[l] # k
        BY <3>1, <2>1, <2>5, <2>7
    <3> QED
        BY <3>1, <3>2, <2>1 DEF Lost
  <2> QED
      BY <1>1, <1>2, <2>3, <2>6, <2>8, LostKept DEF LostInv
<1>10. ASSUME NEW h \in Holder, KeepKey(h) PROVE LostInv'
  <2>1. /\ setKeyPool' = setKeyPool /\ UNCHANGED <<fresh, pending, faults>>
        /\ \A j \in Index : record'[j] = IF j = reserved[h].index THEN NoKey ELSE record[j]
        /\ used' = used \cup ({reserved[h].key} \cap Key)
      BY <1>10 DEF KeepKey, Erased, cryptVars
  <2>2. reserved[h].index \in Index =>
            /\ reserved[h].key \in Key
            /\ record[reserved[h].index] = reserved[h].key
      BY PoolIsFinite, <1>2 DEF LostInv, PlainInv, Backed
  <2>3. Covered'
      BY <2>1 DEF LostInv, Covered
  <2>4. NoKey \notin 1..fresh
      BY <1>2, NoKeyIsNoKey DEF TypeOK
  <2>5. ASSUME NEW k \in Lost' PROVE k \in Lost
    <3>1. k \in 1..fresh /\ k \notin used' /\ \A l \in Index : record'[l] # k
        BY <2>1 DEF Lost
    <3>2. \A l \in Index : record[l] # k
        BY <3>1, <2>1, <2>2, <2>4
    <3> QED
        BY <3>1, <3>2, <2>1 DEF Lost
  <2> QED
      BY <1>1, <1>2, <2>1, <2>3, <2>5, LostKept DEF LostInv
<1>11. ASSUME NEW h \in Holder, ReturnKey(h) PROVE LostInv'
  <2>1. /\ setKeyPool \subseteq setKeyPool' /\ UNCHANGED <<record, used, fresh, pending, faults>>
      BY <1>11 DEF ReturnKey, cryptVars
  <2>2. Lost' \subseteq Lost /\ Covered'
      BY <2>1 DEF Lost, LostInv, Covered
  <2> QED
      BY <1>1, <1>2, <2>1, <2>2, LostKept DEF LostInv
<1>12. CASE CrashAndRestart
  <2>1. /\ setKeyPool' = {i \in Index : record[i] # NoKey} /\ record' = record
        /\ UNCHANGED <<fresh, used>> /\ faults' = faults + 1 /\ pending' = FALSE
      BY <1>12 DEF CrashAndRestart
  <2>2. Covered' /\ Lost' \subseteq Lost
      BY <2>1, <1>3 DEF Covered, Lost
  <2> QED
      BY <1>1, <1>2, <2>1, <2>2, LostKept DEF LostInv
<1>13. ASSUME NEW h \in Holder, UseDefault(h) PROVE FALSE
    BY <1>13, <1>2 DEF UseDefault
<1>14. CASE Unlock \/ Lock \/ EncryptWallet \/ RenewErase
    BY <1>14, <1>2 DEF LostInv, PlainInv, Unlock, Lock, EncryptWallet, RenewErase
<1> QED
    BY <1>4, <1>5, <1>6, <1>7, <1>8, <1>9, <1>10, <1>11, <1>12, <1>13, <1>14 DEF Next

\* Until the wallet is encrypted, the keys that were generated for the pool and have
\* neither a record nor been used are no more than the times the process died or a
\* record could not be written, and the one in the making.
THEOREM NoneIsLost ==
    ASSUME KeypoolSize > 0
    PROVE  Spec => []NoKeyLost
<1> DEFINE I == DiskInv /\ (~crypted => LostInv)
<1>1. Init => I
  <2>1. Init => Backed /\ Covered
      BY DEF Init, Backed, Covered, Unreserved
  <2>2. Init => LostBounded
    <3>1. Init => Lost = {} /\ faults = 0 /\ pending = FALSE
        BY DEF Init, Lost
    <3> QED
        BY <3>1, FS_EmptySet DEF LostBounded
  <2> QED
      BY <2>1, <2>2, DiskInit DEF PlainInv, LostInv
<1>2. I /\ [Next]_vars => I'
    BY LostStep, DiskStep, CryptedStays
<1>3. I => NoKeyLost
    BY DEF LostInv, LostBounded, NoKeyLost
<1> QED
    BY <1>1, <1>2, <1>3, PTL DEF Spec

\* Until the wallet is encrypted, the pool and the holders agree with wallet.dat.
THEOREM PoolIsKept ==
    ASSUME KeypoolSize > 0
    PROVE  Spec => []PoolMatchesDisk
<1>1. PoolBacked /\ NoKeyLost => PoolMatchesDisk
    BY DEF PoolMatchesDisk
<1> QED
    BY <1>1, PoolIsBacked, NoneIsLost, PTL

\* Type correctness of the key pool, encrypted or not.
THEOREM TypeCorrect == Spec => []TypeOK
<1>1. DiskInv => TypeOK
    BY DEF DiskInv
<1> QED
    BY <1>1, DiskInit, DiskStep, PTL DEF Spec
=============================================================================
