------------------------------ MODULE AddrMan -------------------------------
(***************************************************************************)
(* The address manager (addrman.cpp, addrman.h): the addresses of possible *)
(* peers, in several "new" buckets or in one "tried" bucket each, with     *)
(* reference counts, totals and a vector in random order kept beside them, *)
(* and their copy in peers.dat.  Every operation runs under CAddrMan::cs.  *)
(*                                                                         *)
(* An entry has a number, its id, under which every structure knows it;    *)
(* mapAddr finds the id of an address, and peers.dat has neither: it       *)
(* numbers the entries anew.  Times, services and statistics are left out, *)
(* and with them the odds of a random choice: whichever entry the code may *)
(* take, the model may take.                                               *)
(***************************************************************************)
EXTENDS Integers, Sequences, FiniteSets, SequencesExt

CONSTANTS
    Addr,               \* addresses
    None,               \* no address
    NewBucketCount,     \* ADDRMAN_NEW_BUCKET_COUNT
    TriedBucket,        \* the buckets of vvTried
    GetTriedBucket,     \* the tried bucket of an address
    NewBucketSize,      \* ADDRMAN_NEW_BUCKET_SIZE
    TriedBucketSize,    \* ADDRMAN_TRIED_BUCKET_SIZE
    BucketsPerAddress,  \* ADDRMAN_NEW_BUCKETS_PER_ADDRESS
    GetAddrMaxPct,      \* ADDRMAN_GETADDR_MAX_PCT
    MaxId               \* bound: the ids given out from one start to the next

ASSUME AddrManAssumption ==
    /\ IsFiniteSet(Addr) /\ None \notin Addr
    /\ NewBucketCount \in Nat \ {0}
    /\ IsFiniteSet(TriedBucket)
    /\ GetTriedBucket \in [Addr -> TriedBucket]
    /\ NewBucketSize \in Nat \ {0}
    /\ TriedBucketSize \in Nat \ {0}
    /\ BucketsPerAddress \in Nat \ {0}
    /\ GetAddrMaxPct \in 0 .. 100
    /\ MaxId \in Nat

VARIABLE am    \* the CAddrMan

NewBucket == 1 .. NewBucketCount    \* the buckets of vvNew, from 1
NoBucket == 1                       \* the source of an id without an entry
Id == 0 .. MaxId - 1
NoId == -1                          \* the id of an address without one

(* An address manager with no entries.  nRandomPos counts from 1, and is 0
   for an id that has no entry. *)
Empty ==
    [nIdCount |-> 0, mapInfo |-> {}, mapAddr |-> [a \in Addr |-> NoId],
     addr |-> [n \in Id |-> None], source |-> [n \in Id |-> NoBucket],
     fInTried |-> {}, nRefCount |-> [n \in Id |-> 0],
     vRandom |-> <<>>, nRandomPos |-> [n \in Id |-> 0],
     vvNew |-> [b \in NewBucket |-> {}], vvTried |-> [k \in TriedBucket |-> {}],
     nNew |-> 0, nTried |-> 0]

Init == am = Empty

-----------------------------------------------------------------------------
(* The random order. *)

SwapRandom(m, i, j) ==
    [m EXCEPT !.vRandom = [@ EXCEPT ![i] = m.vRandom[j], ![j] = m.vRandom[i]],
              !.nRandomPos = [@ EXCEPT ![m.vRandom[i]] = j, ![m.vRandom[j]] = i]]

-----------------------------------------------------------------------------
(* New entries. *)

(* Whether Find finds an address. *)
Known(m, a) == m.mapAddr[a] \in m.mapInfo

(* A new entry, with the next id and at the end of the random order. *)
Create(m, a, b) ==
    LET n == m.nIdCount IN
    [m EXCEPT !.nIdCount = n + 1,
              !.mapInfo = @ \cup {n},
              !.addr[n] = a,
              !.source[n] = b,
              !.mapAddr[a] = n,
              !.nRandomPos[n] = Len(m.vRandom) + 1,
              !.vRandom = Append(@, n)]

(* An entry without references is deleted: swapped to the end and popped. *)
Delete_NoSwap(m, n) ==
    [m EXCEPT !.vRandom = SelectSeq(@, LAMBDA x : x # n),
              !.nRandomPos[n] = 0,
              !.mapAddr[m.addr[n]] = NoId,
              !.addr[n] = None,
              !.source[n] = NoBucket,
              !.mapInfo = @ \ {n},
              !.nNew = @ - 1]
Delete_KeepsAddress(m, n) ==
    [SwapRandom(m, m.nRandomPos[n], Len(m.vRandom)) EXCEPT
        !.vRandom = Front(@),
        !.nRandomPos[n] = 0,
        !.addr[n] = None,
        !.source[n] = NoBucket,
        !.mapInfo = @ \ {n},
        !.nNew = @ - 1]
Delete(m, n) ==
    [SwapRandom(m, m.nRandomPos[n], Len(m.vRandom)) EXCEPT
        !.vRandom = Front(@),
        !.nRandomPos[n] = 0,
        !.mapAddr[m.addr[n]] = NoId,
        !.addr[n] = None,
        !.source[n] = NoBucket,
        !.mapInfo = @ \ {n},
        !.nNew = @ - 1]

(* ShrinkNew removes one entry from a full bucket, a terrible one or the
   oldest of four, which may have references in other buckets. *)
ShrinkNew(m, b) ==
    {LET out == [m EXCEPT !.nRefCount[e] = @ - 1, !.vvNew[b] = @ \ {e}]
     IN IF out.nRefCount[e] = 0 THEN Delete(out, e) ELSE out : e \in m.vvNew[b]}

(* One more reference, from bucket b. *)
Referenced(m, n, b) ==
    LET more == [m EXCEPT !.nRefCount[n] = @ + 1] IN
    {[s EXCEPT !.vvNew[b] = @ \cup {n}] :
        s \in IF Cardinality(m.vvNew[b]) = NewBucketSize THEN ShrinkNew(more, b) ELSE {more}}

(* Add_ of an address heard of from a source that selects bucket b.  A known
   entry gets another reference only if it is not tried and has room. *)
Add(a, b) ==
    \/ /\ ~Known(am, a)
       /\ am.nIdCount < MaxId
       /\ am' \in Referenced([Create(am, a, b) EXCEPT !.nNew = @ + 1], am.nIdCount, b)
    \/ LET n == am.mapAddr[a] IN
       /\ Known(am, a)
       /\ n \notin am.fInTried
       /\ am.nRefCount[n] # BucketsPerAddress
       /\ n \notin am.vvNew[b]
       /\ am' \in Referenced(am, n, b)

-----------------------------------------------------------------------------
(* Tried entries. *)

(* MakeTried: the entry leaves every new bucket.  From a full tried bucket
   one entry goes back to the bucket of its source, or, if that is full, to
   the one the entry came from. *)
Untie_OnlyOne(m, n) ==
    LET b == CHOOSE b \in NewBucket : n \in m.vvNew[b]
    IN [m EXCEPT !.vvNew[b] = @ \ {n}, !.nRefCount[n] = @ - 1, !.nNew = @ - 1]
Untie_KeepsTotal(m, n) ==
    [m EXCEPT !.vvNew = [b \in NewBucket |-> @[b] \ {n}],
              !.nRefCount[n] = @ - Cardinality({b \in NewBucket : n \in m.vvNew[b]})]
Untie(m, n) ==
    [m EXCEPT !.vvNew = [b \in NewBucket |-> @[b] \ {n}],
              !.nRefCount[n] = @ - Cardinality({b \in NewBucket : n \in m.vvNew[b]}),
              !.nNew = @ - 1]
Evict_ToSource(m, e, nOrigin) == m.source[e]
Evict(m, e, nOrigin) ==
    IF Cardinality(m.vvNew[m.source[e]]) < NewBucketSize THEN m.source[e] ELSE nOrigin
Replace_KeepsFlag(m, n, e, nOrigin) ==
    [m EXCEPT !.vvTried[GetTriedBucket[m.addr[n]]] = (@ \ {e}) \cup {n},
              !.fInTried = @ \cup {n},
              !.nRefCount[e] = 1,
              !.vvNew[Evict(m, e, nOrigin)] = @ \cup {e},
              !.nNew = @ + 1]
Replace_Deletes(m, n, e, nOrigin) ==
    [Delete(m, e) EXCEPT !.vvTried[GetTriedBucket[m.addr[n]]] = (@ \ {e}) \cup {n},
                         !.fInTried = (@ \ {e}) \cup {n},
                         !.nNew = @ + 1]
Replace(m, n, e, nOrigin) ==
    [m EXCEPT !.vvTried[GetTriedBucket[m.addr[n]]] = (@ \ {e}) \cup {n},
              !.fInTried = (@ \ {e}) \cup {n},
              !.nRefCount[e] = 1,
              !.vvNew[Evict(m, e, nOrigin)] = @ \cup {e},
              !.nNew = @ + 1]
MakeTried(m, n, nOrigin) ==
    LET k == GetTriedBucket[m.addr[n]]
        out == Untie(m, n)
    IN IF Cardinality(m.vvTried[k]) < TriedBucketSize
       THEN {[out EXCEPT !.vvTried[k] = @ \cup {n},
                         !.fInTried = @ \cup {n},
                         !.nTried = @ + 1]}
       ELSE {Replace(out, n, e, nOrigin) : e \in m.vvTried[k]}

(* Good_ of an address whose entry is not tried yet, found in bucket nOrigin. *)
Good(a, nOrigin) ==
    LET n == am.mapAddr[a] IN
    /\ Known(am, a)
    /\ n \notin am.fInTried
    /\ n \in am.vvNew[nOrigin]
    /\ am' \in MakeTried(am, n, nOrigin)

-----------------------------------------------------------------------------
(* GetAddr_ shuffles the first part of the random order. *)
nNodes == (GetAddrMaxPct * Len(am.vRandom)) \div 100
GetAddr ==
    /\ nNodes > 0
    /\ \E pos \in [1 .. nNodes -> 1 .. Len(am.vRandom)] :
         /\ \A n \in 1 .. nNodes : pos[n] >= n
         /\ LET shuffled[n \in 0 .. nNodes] ==
                    IF n = 0 THEN am ELSE SwapRandom(shuffled[n - 1], n, pos[n])
            IN am' = shuffled[nNodes]

-----------------------------------------------------------------------------
(* peers.dat. *)

(* The entries are written in the order of their ids, those with references
   first.  How many entries of S come before n: *)
Rank(S, n) == Cardinality({i \in S : i < n})

WithReferences(m) == {n \in m.mapInfo : m.nRefCount[n] # 0}

(* mapUnkIds: the number in the file of an entry of a bucket.  The loop ends
   when it has numbered nNew entries; what it did not reach is 0, the value of
   a key that the map does not have. *)
Index_AnyEntry(m, n) ==
    LET nIds == Rank(m.mapInfo, n) IN IF nIds < m.nNew THEN nIds ELSE 0
Index(m, n) ==
    LET nIds == Rank(WithReferences(m), n) IN IF nIds < m.nNew THEN nIds ELSE 0

(* The first nMax entries of S, each with what is written of it. *)
Written(m, S, nMax) ==
    [i \in {Rank(S, n) : n \in S} \cap 0 .. nMax - 1 |->
        LET n == CHOOSE n \in S : Rank(S, n) = i IN [addr |-> m.addr[n], source |-> m.source[n]]]

(* What DumpAddresses writes: the entries with references and the tried ones,
   the totals, and the list of numbers in each new bucket, one for each id of
   the bucket.  Counts, order, mapAddr and tried buckets are not written. *)
Saved(m) ==
    [nNew |-> m.nNew, nTried |-> m.nTried,
     new |-> Written(m, WithReferences(m), m.nNew),
     tried |-> Written(m, m.fInTried, m.nTried),
     vvNew |-> [b \in NewBucket |-> [n \in m.vvNew[b] |-> Index(m, n)]]]

(* The tried entries of the file that find room in their bucket. *)
Kept(f) ==
    LET Bucket(i) == GetTriedBucket[f.tried[i].addr] IN
    {j \in DOMAIN f.tried :
        Cardinality({i \in DOMAIN f.tried : i < j /\ Bucket(i) = Bucket(j)}) < TriedBucketSize}

(* Where the buckets before b have entry i of the file. *)
Earlier(f, i, b) ==
    {e \in UNION {{c} \X DOMAIN f.vvNew[c] : c \in 1 .. b - 1} : f.vvNew[e[1]][e[2]] = i}

(* mapInfo as it is read back: the new entries have the numbers they have in
   the file as their ids, the tried ones that are kept the ids after them. *)
Entries(f) ==
    LET tried == [n \in {f.nNew + Rank(Kept(f), j) : j \in Kept(f)} |->
                     f.tried[CHOOSE j \in Kept(f) : f.nNew + Rank(Kept(f), j) = n]]
    IN [n \in DOMAIN f.new \cup DOMAIN tried |->
           IF n \in DOMAIN f.new THEN f.new[n] ELSE tried[n]]

(* What the file is read back as.  The buckets give the entries their
   references, up to BucketsPerAddress. *)
Loaded(f) ==
    LET entry == Entries(f)
        Tried == DOMAIN entry \ DOMAIN f.new
        total == f.nNew + Cardinality(Kept(f))
    IN [nIdCount |-> total, mapInfo |-> DOMAIN entry,
        mapAddr |-> [a \in Addr |->
                       IF \E n \in DOMAIN entry : entry[n].addr = a
                       THEN CHOOSE n \in DOMAIN entry :
                                /\ entry[n].addr = a
                                /\ \A i \in DOMAIN entry : entry[i].addr = a => i <= n
                       ELSE NoId],
        addr |-> [n \in Id |-> IF n \in DOMAIN entry THEN entry[n].addr ELSE None],
        source |-> [n \in Id |-> IF n \in DOMAIN entry THEN entry[n].source ELSE NoBucket],
        fInTried |-> Tried,
        nRefCount |-> [n \in Id |->
                         LET found == Cardinality(Earlier(f, n, NewBucketCount + 1))
                         IN IF found < BucketsPerAddress THEN found ELSE BucketsPerAddress],
        vRandom |-> [i \in 1 .. total |-> i - 1],
        nRandomPos |-> [n \in Id |-> IF n \in DOMAIN entry THEN n + 1 ELSE 0],
        vvNew |-> [b \in NewBucket |->
                     {i \in {f.vvNew[b][n] : n \in DOMAIN f.vvNew[b]} :
                         Cardinality(Earlier(f, i, b)) < BucketsPerAddress}],
        vvTried |-> [k \in TriedBucket |-> {n \in Tried : GetTriedBucket[entry[n].addr] = k}],
        nNew |-> f.nNew, nTried |-> Cardinality(Kept(f))]

(* The node stops and starts again with what it saved.  A crash, which brings
   an older file back, leads to no other states: that file is what a stop at
   the time of its writing would have left. *)
Restart == am' = Loaded(Saved(am))

-----------------------------------------------------------------------------
Next ==
    \/ \E a \in Addr, b \in NewBucket : Add(a, b)
    \/ \E a \in Addr, b \in NewBucket : Good(a, b)
    \/ GetAddr
    \/ Restart

Spec == Init /\ [][Next]_am

-----------------------------------------------------------------------------
(* Properties: what CAddrMan::Check_ demands under DEBUG_ADDRMAN, and more. *)

(* Every part of an address manager has its type; no entry has more than
   BucketsPerAddress references. *)
TypeOK ==
    am \in [nIdCount : 0 .. MaxId, mapInfo : SUBSET Id, mapAddr : [Addr -> Id \cup {NoId}],
            addr : [Id -> Addr \cup {None}], source : [Id -> NewBucket],
            fInTried : SUBSET Id, nRefCount : [Id -> 0 .. BucketsPerAddress],
            vRandom : Seq(Id), nRandomPos : [Id -> Nat],
            vvNew : [NewBucket -> SUBSET Id], vvTried : [TriedBucket -> SUBSET Id],
            nNew : 0 .. MaxId, nTried : 0 .. MaxId]

(* Through additions, promotions, evictions and restarts the reference count
   of an entry is the number of new buckets it is in; no bucket holds an
   entry that was deleted, and a tried entry is in no new bucket. *)
RefsAreExact ==
    \A n \in Id :
        /\ am.nRefCount[n] = Cardinality({b \in NewBucket : n \in am.vvNew[b]})
        /\ am.nRefCount[n] # 0 <=> n \in am.mapInfo \ am.fInTried

(* A tried entry is in the one tried bucket that Select_ and SelectTried will
   look for it in, and only tried entries are in these buckets. *)
TriedInPlace ==
    \A n \in Id, k \in TriedBucket :
        n \in am.vvTried[k] <=> n \in am.fInTried /\ k = GetTriedBucket[am.addr[n]]

(* mapAddr has the id of every entry and nothing else, through deletions and
   the new ids of a restart: no address has two entries, none is found that
   was deleted. *)
AddressesAreExact ==
    /\ \A n \in am.mapInfo : am.addr[n] \in Addr /\ am.mapAddr[am.addr[n]] = n
    /\ \A a \in Addr : am.mapAddr[a] # NoId => Known(am, a) /\ am.addr[am.mapAddr[a]] = a
    /\ \A n \in am.mapInfo : n < am.nIdCount

(* nNew and nTried count the entries, also when an eviction moves one of them
   back and an entry is deleted for it later; Select_ relies on them, and so
   does the numbering of peers.dat. *)
TotalsAreExact ==
    /\ am.nTried = Cardinality(am.fInTried)
    /\ am.nNew = Cardinality(am.mapInfo \ am.fInTried)
    /\ am.fInTried \subseteq am.mapInfo

(* The random order has every entry once, at the place the entry remembers:
   a deletion swaps another entry into the place that becomes free. *)
OrderIsExact ==
    /\ Len(am.vRandom) = Cardinality(am.mapInfo)
    /\ \A n \in am.mapInfo : /\ am.nRandomPos[n] \in 1 .. Len(am.vRandom)
                             /\ am.vRandom[am.nRandomPos[n]] = n

(* No bucket grows past its size; "there is certainly place there" for an
   evicted entry whose own bucket is full. *)
BucketsBounded ==
    /\ \A b \in NewBucket : Cardinality(am.vvNew[b]) <= NewBucketSize
    /\ \A k \in TriedBucket : Cardinality(am.vvTried[k]) <= TriedBucketSize

(* CAddrMan::Check_, which only a debug build calls, except for its tests of
   times: the structures agree. *)
Check ==
    /\ TypeOK /\ RefsAreExact /\ TriedInPlace /\ AddressesAreExact
    /\ TotalsAreExact /\ OrderIsExact /\ BucketsBounded

(* Entries "are never deleted while in the tried table, only possibly evicted
   back to the new table", and a restart brings them back. *)
TriedIsKept ==
    [][{am.addr[n] : n \in am.fInTried} \subseteq {am'.addr[n] : n \in am'.mapInfo}]_am

(* What the structures say of an entry, whatever its id. *)
Entry(m, n) ==
    [addr |-> m.addr[n], source |-> m.source[n], nRefCount |-> m.nRefCount[n],
     fInTried |-> n \in m.fInTried, found |-> m.mapAddr[m.addr[n]] = n,
     new |-> {b \in NewBucket : n \in m.vvNew[b]},
     tried |-> {k \in TriedBucket : n \in m.vvTried[k]}]
Contents(m) == [entries |-> {Entry(m, n) : n \in m.mapInfo}, nNew |-> m.nNew, nTried |-> m.nTried]

(* peers.dat loses and gains nothing, in whatever state it was saved: read
   back under other ids, every entry has its source, references and buckets
   again, those that were written by number and those that were not. *)
FileRoundTrips == Contents(Loaded(Saved(am))) = Contents(am)
=============================================================================
