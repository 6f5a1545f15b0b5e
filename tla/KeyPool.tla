------------------------------ MODULE KeyPool --------------------------------
(***************************************************************************)
(* The key pool of a wallet (wallet.cpp): setKeyPool in memory, the "pool" *)
(* records in wallet.dat, and the CReserveKey objects that hold an index   *)
(* between GetReservedKey and KeepKey or ReturnKey.  An operation of       *)
(* CWallet runs under cs_wallet; the index of a reserved key is kept or    *)
(* returned later, and KeepKey does not take the lock.  A new key is       *)
(* committed to wallet.dat on its own, then its pool record.               *)
(***************************************************************************)
EXTENDS Integers, FiniteSets

CONSTANTS
    Miner,           \* CReserveKey of BitcoinMiner and of the getwork calls
    Sender,          \* CReserveKey of SendMoney and sendmany
    Peeker,          \* calls of GetOldestKeyPoolTime, which always return the key
    NoKey,           \* no record, or an empty public key
    vchDefaultKey,
    KeypoolSize,     \* -keypool
    CanEncrypt,      \* the wallet may be or become encrypted
    MaxKeys,         \* bound: keys that are generated
    MaxFaults        \* bound: times the process dies, or a pool record cannot be written

Holder == Miner \cup Sender \cup Peeker
Key == 1..MaxKeys    \* numbered as they are generated
Index == 1..MaxKeys  \* of a record; at most one per key

ASSUME KeyPoolAssumption ==
    /\ KeypoolSize \in Nat /\ MaxKeys \in Nat /\ MaxFaults \in Nat
    /\ CanEncrypt \in BOOLEAN
    /\ NoKey \notin Key /\ vchDefaultKey \notin Key /\ NoKey # vchDefaultKey

VARIABLES
    setKeyPool,   \* indices that can be reserved
    record,       \* the pool records of wallet.dat
    reserved,     \* nIndex (0 for -1) and vchPubKey of each holder
    used,         \* keys that were taken out of the pool for good
    fresh,        \* number of keys generated
    crypted,      \* the keys are encrypted
    locked,       \* ... and vMasterKey is not in memory
    busy,         \* a thread is in a loop over the pool, holding cs_wallet: in
                  \* TopUpKeyPool, or in the first or second loop of NewKeyPool
    pending,      \* the last key is in wallet.dat, its pool record is not
    faults

vars == <<setKeyPool, record, reserved, used, fresh, crypted, locked, busy, pending, faults>>
cryptVars == <<crypted, locked, busy, pending>>

Unreserved == [index |-> 0, key |-> NoKey]

TypeOK ==
    /\ setKeyPool \subseteq Index
    /\ record \in [Index -> Key \cup {NoKey}]
    /\ reserved \in [Holder -> [index : {0} \cup Index, key : Key \cup {NoKey, vchDefaultKey}]]
    /\ used \subseteq 1..fresh /\ fresh \in 0..MaxKeys
    /\ crypted \in BOOLEAN /\ locked \in BOOLEAN /\ (locked => crypted)
    /\ busy \in {"no", "fill", "erase", "write"}
    /\ pending \in BOOLEAN
    /\ faults \in 0..MaxFaults

\* a wallet file without a pool
Init ==
    /\ setKeyPool = {} /\ record = [i \in Index |-> NoKey]
    /\ reserved = [h \in Holder |-> Unreserved]
    /\ used = {} /\ fresh = 0
    /\ crypted \in {FALSE, CanEncrypt} /\ locked = crypted
    /\ busy = "no" /\ pending = FALSE
    /\ faults = 0

-----------------------------------------------------------------------------
(* Generating keys: TopUpKeyPool, and the second loop of NewKeyPool        *)

\* Slips that the runs must notice are named <operator>_<slip>
Last_Size == {Cardinality(setKeyPool)}
\* the largest index of the pool, 0 for an empty pool; reserved indices do not count
Last == {n \in setKeyPool \cup {0} : \A i \in setKeyPool : i <= n}

\* the index of the next key, in the bounded model
NextIndex == {last + 1 : last \in Last} \cap Index

\* TopUpKeyPool fills the pool up to one more than -keypool
Size == IF busy = "write" THEN KeypoolSize ELSE KeypoolSize + 1
Full == Cardinality(setKeyPool) >= Size

\* TopUpKeyPool begins: on its own, or called by ReserveKeyFromKeyPool.  A locked
\* wallet skips it.
TopUpKeyPool ==
    /\ busy = "no" /\ ~locked /\ ~Full
    /\ fresh + Size - Cardinality(setKeyPool) <= MaxKeys
    /\ busy' = "fill"
    /\ UNCHANGED <<setKeyPool, record, reserved, used, fresh, crypted, locked, pending, faults>>

\* the key pair is made and its record committed
GenerateNewKey ==
    /\ busy \in {"fill", "write"} /\ ~pending /\ ~locked /\ ~Full
    /\ fresh < MaxKeys /\ NextIndex # {}
    /\ fresh' = fresh + 1 /\ pending' = TRUE
    /\ UNCHANGED <<setKeyPool, record, reserved, used, crypted, locked, busy, faults>>

WritePool ==
    /\ pending /\ pending' = FALSE
    /\ \E i \in NextIndex :
          /\ record' = [record EXCEPT ![i] = fresh]
          /\ setKeyPool' = setKeyPool \cup {i}
    /\ UNCHANGED <<reserved, used, fresh, crypted, locked, busy, faults>>

WritePoolFails_Ignored ==
    /\ pending /\ pending' = FALSE
    /\ faults < MaxFaults /\ faults' = faults + 1
    /\ setKeyPool' \in {setKeyPool \cup {i} : i \in NextIndex}
    /\ UNCHANGED <<record, reserved, used, fresh, crypted, locked, busy>>
\* The pool record is not written: TopUpKeyPool throws, NewKeyPool does not look.
WritePoolFails ==
    /\ pending /\ pending' = FALSE
    /\ faults < MaxFaults /\ faults' = faults + 1
    /\ \/ busy = "fill" /\ busy' = "no" /\ UNCHANGED setKeyPool
       \/ /\ busy = "write" /\ UNCHANGED busy
          /\ setKeyPool' \in {setKeyPool \cup {i} : i \in NextIndex}
    /\ UNCHANGED <<record, reserved, used, fresh, crypted, locked>>

\* The loop ends with a full pool; earlier, if GenerateNewKey throws because the key
\* cannot be written or the relock timer has locked the wallet.  EncryptWallet locks
\* the wallet after the loop.
LoopEnds ==
    /\ busy \in {"fill", "write"} /\ ~pending
    /\ busy' = "no"
    /\ locked' = (locked \/ (busy = "write" /\ Full))
    /\ UNCHANGED <<setKeyPool, record, reserved, used, fresh, crypted, pending, faults>>

-----------------------------------------------------------------------------
(* Reserving                                                               *)

Oldest == {i \in setKeyPool : \A j \in setKeyPool : i <= j}

\* ReserveKeyFromKeyPool has topped up the pool of an unlocked wallet
ToppedUp == busy = "no" /\ (locked \/ Full)

\* ReserveKeyFromKeyPool, called by GetReservedKey and GetOldestKeyPoolTime.
\* If the record is missing it throws, with nIndex set already: a CReserveKey
\* holds the index then, and a local variable is lost.
Reserve(h) ==
    /\ ToppedUp
    /\ reserved[h].index = 0
    /\ \E i \in Oldest :
          /\ setKeyPool' = setKeyPool \ {i}
          /\ reserved' = IF h \in Peeker /\ record[i] = NoKey THEN reserved
                         ELSE [reserved EXCEPT ![h] = [index |-> i, key |-> record[i]]]
    /\ UNCHANGED <<record, used, fresh, cryptVars, faults>>

\* the pool of a locked wallet is empty: GetReservedKey takes the default key
UseDefault(h) ==
    /\ busy = "no" /\ h \notin Peeker
    /\ reserved[h].index = 0
    /\ locked /\ setKeyPool = {}
    /\ reserved' = [reserved EXCEPT ![h].key = vchDefaultKey]
    /\ UNCHANGED <<setKeyPool, record, used, fresh, cryptVars, faults>>

GetKeyFromPool_NoErase ==
    /\ ToppedUp
    /\ \E i \in Oldest :
          /\ record' = [record EXCEPT ![i] = NoKey]
          /\ used' = used \cup ({record[i]} \ {NoKey})
    /\ UNCHANGED <<setKeyPool, reserved, fresh, cryptVars, faults>>
\* GetKeyFromPool: reserve and keep under one lock.  An unlocked wallet always
\* has a key after the top-up; a locked one without keys gives none.
GetKeyFromPool ==
    /\ ToppedUp
    /\ \E i \in Oldest :
          /\ setKeyPool' = setKeyPool \ {i}
          /\ record' = [record EXCEPT ![i] = NoKey]
          /\ used' = used \cup ({record[i]} \ {NoKey})
    /\ UNCHANGED <<reserved, fresh, cryptVars, faults>>

-----------------------------------------------------------------------------
(* Keeping and returning                                                   *)

Erased_MemoryOnly(i) == record
\* ErasePool; the index -1 stands for the default key
Erased(i) == [j \in Index |-> IF j = i THEN NoKey ELSE record[j]]

KeepKey_KeepsIndex(h) ==
    /\ h \notin Peeker /\ reserved[h].key # NoKey
    /\ h \in Sender => busy = "no"
    /\ record' = Erased(reserved[h].index)
    /\ used' = used \cup ({reserved[h].key} \cap Key)
    /\ UNCHANGED <<setKeyPool, reserved, fresh, cryptVars, faults>>
\* CReserveKey::KeepKey.  CheckWork calls it without cs_wallet, so also in the
\* middle of TopUpKeyPool or NewKeyPool.
KeepKey(h) ==
    /\ h \notin Peeker /\ reserved[h].key # NoKey
    /\ h \in Sender => busy = "no"
    /\ record' = Erased(reserved[h].index)
    /\ used' = used \cup ({reserved[h].key} \cap Key)
    /\ reserved' = [reserved EXCEPT ![h] = Unreserved]
    /\ UNCHANGED <<setKeyPool, fresh, cryptVars, faults>>

\* CReserveKey::ReturnKey and the destructor
ReturnKey(h) ==
    /\ busy = "no"
    /\ reserved[h] # Unreserved
    /\ setKeyPool' = setKeyPool \cup ({reserved[h].index} \ {0})
    /\ reserved' = [reserved EXCEPT ![h] = Unreserved]
    /\ UNCHANGED <<record, used, fresh, cryptVars, faults>>

-----------------------------------------------------------------------------
(* Encryption and locking                                                  *)

Unlock ==
    /\ busy = "no" /\ locked
    /\ locked' = FALSE
    /\ UNCHANGED <<setKeyPool, record, reserved, used, fresh, crypted, busy, pending, faults>>

\* walletlock, and the relock timer, which takes no cs_wallet: it may strike in the
\* middle of TopUpKeyPool
Lock ==
    /\ busy \in {"no", "fill"} /\ crypted /\ ~locked
    /\ locked' = TRUE
    /\ UNCHANGED <<setKeyPool, record, reserved, used, fresh, crypted, busy, pending, faults>>

\* EncryptWallet up to the call of NewKeyPool: the encrypted keys are committed
EncryptWallet ==
    /\ busy = "no" /\ CanEncrypt /\ ~crypted
    /\ crypted' = TRUE /\ busy' = "erase"
    /\ UNCHANGED <<setKeyPool, record, reserved, used, fresh, locked, pending, faults>>

\* NewKeyPool, first loop: one record after the other.  In the second loop the
\* numbering starts at 1 again.
RenewErase ==
    /\ busy = "erase"
    /\ IF setKeyPool = {}
       THEN busy' = "write" /\ UNCHANGED <<setKeyPool, record>>
       ELSE \E i \in Oldest :
               /\ record' = Erased(i) /\ setKeyPool' = setKeyPool \ {i}
               /\ UNCHANGED busy
    /\ UNCHANGED <<reserved, used, fresh, crypted, locked, pending, faults>>

\* The process dies at any moment; LoadWallet takes every record it finds.
CrashAndRestart ==
    /\ faults < MaxFaults /\ faults' = faults + 1
    /\ setKeyPool' = {i \in Index : record[i] # NoKey}
    /\ reserved' = [h \in Holder |-> Unreserved]
    /\ locked' = crypted /\ busy' = "no" /\ pending' = FALSE
    /\ UNCHANGED <<record, used, fresh, crypted>>

-----------------------------------------------------------------------------
Next ==
    \/ TopUpKeyPool \/ GenerateNewKey \/ WritePool \/ WritePoolFails \/ LoopEnds
    \/ GetKeyFromPool
    \/ \E h \in Holder : Reserve(h) \/ UseDefault(h) \/ KeepKey(h) \/ ReturnKey(h)
    \/ Unlock \/ Lock \/ EncryptWallet \/ RenewErase
    \/ CrashAndRestart

Spec == Init /\ [][Next]_vars

-----------------------------------------------------------------------------
(* Properties                                                              *)

\* A key that was taken for good has no pool record any more, so that no restart
\* can put it back into the pool: also when its index was given to another key
\* meanwhile, and through crashes inside NewKeyPool.
UsedNotOnDisk == \A i \in Index : record[i] \notin used

\* "Take key pair from key pool so it won't be used again": no key is in the
\* hands of two holders, or of one after it was used.
UsedOnce ==
    \A h \in Holder : reserved[h].key \in Key =>
        /\ reserved[h].key \notin used
        /\ \A g \in Holder \ {h} : reserved[g].key # reserved[h].key

\* ... which holds for a wallet that is not encrypted
PlainUsedOnce == ~crypted => UsedOnce

\* Until the wallet is encrypted every index that can be reserved, and every reserved
\* one, has its record and is in one place: otherwise ReserveKeyFromKeyPool throws, or
\* hands out a key twice.
PoolBacked == ~crypted =>
    /\ \A i \in setKeyPool : record[i] # NoKey
    /\ \A h \in Holder : reserved[h].index # 0 =>
          /\ record[reserved[h].index] = reserved[h].key
          /\ reserved[h].index \notin setKeyPool
          /\ \A g \in Holder \ {h} : reserved[g].index # reserved[h].index

\* Until then a key that was generated for the pool, and has neither a record nor been
\* used, is one that the process died over, or could not write the record of, between
\* the two commits, or the one that is being written; whatever was reserved, kept and
\* returned, no other key is lost.
Lost == {k \in 1..fresh : k \notin used /\ \A i \in Index : record[i] # k}
NoKeyLost == ~crypted => Cardinality(Lost) <= faults + (IF pending THEN 1 ELSE 0)

\* Pool, holders and wallet.dat agree, in both directions.
PoolMatchesDisk == PoolBacked /\ NoKeyLost
=============================================================================
