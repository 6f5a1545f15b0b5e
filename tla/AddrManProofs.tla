--------------------------- MODULE AddrManProofs ----------------------------
(***************************************************************************)
(* The structures of the address manager agree (CAddrMan::Check_), tried   *)
(* addresses are kept and peers.dat gives everything back, for any number  *)
(* of addresses, any buckets and any sizes of them.                        *)
(***************************************************************************)
EXTENDS AddrMan, FiniteSetTheorems, SequenceTheorems, WellFoundedInduction, TLAPS

AM == [nIdCount : Nat, mapInfo : SUBSET Id, mapAddr : [Addr -> Id \cup {NoId}],
       addr : [Id -> Addr \cup {None}], source : [Id -> NewBucket],
       fInTried : SUBSET Id, nRefCount : [Id -> Int],
       vRandom : Seq(Id), nRandomPos : [Id -> Nat],
       vvNew : [NewBucket -> SUBSET Id], vvTried : [TriedBucket -> SUBSET Id],
       nNew : Int, nTried : Int]

LEMMA Domains ==
    /\ Id \subseteq Nat /\ NoId \notin Id /\ IsFiniteSet(Id) /\ Cardinality(Id) = MaxId
    /\ NewBucket \subseteq Nat /\ NoBucket \in NewBucket /\ IsFiniteSet(NewBucket)
    /\ \A n \in Nat : n < MaxId => n \in Id
<1>1. MaxId \in Nat /\ NewBucketCount \in Nat \ {0}
    BY AddrManAssumption
<1>2. /\ IsFiniteSet(0 .. MaxId - 1)
      /\ Cardinality(0 .. MaxId - 1) = IF 0 > MaxId - 1 THEN 0 ELSE MaxId - 1 - 0 + 1
    BY <1>1, FS_Interval
<1>3. IsFiniteSet(1 .. NewBucketCount)
    BY <1>1, FS_Interval
<1> QED
    BY <1>1, <1>2, <1>3 DEF Id, NoId, NewBucket, NoBucket

\* the new buckets that an entry is in
In(m, a) == {b \in NewBucket : a \in m.vvNew[b]}

(* The properties of AddrMan for any value, while a reference of the entries
   in "pending" has been counted and is not in its bucket yet. *)
Counted(m, pending) ==
    \A a \in Id :
        /\ m.nRefCount[a] = Cardinality(In(m, a)) + (IF a \in pending THEN 1 ELSE 0)
        /\ m.nRefCount[a] # 0 <=> a \in m.mapInfo \ m.fInTried
        /\ m.nRefCount[a] <= BucketsPerAddress

Placed(m) ==
    \A a \in Id, k \in TriedBucket :
        a \in m.vvTried[k] <=> a \in m.fInTried /\ k = GetTriedBucket[m.addr[a]]

Totalled(m) ==
    /\ m.nTried = Cardinality(m.fInTried)
    /\ m.nNew = Cardinality(m.mapInfo \ m.fInTried)
    /\ m.fInTried \subseteq m.mapInfo

Bounded(m) ==
    /\ \A b \in NewBucket : Cardinality(m.vvNew[b]) <= NewBucketSize
    /\ \A k \in TriedBucket : Cardinality(m.vvTried[k]) <= TriedBucketSize

(* The random order holds the entries and nothing else, each at the place it
   remembers: position and place are inverse to each other. *)
Indexed(v, pos, S) ==
    /\ \A a \in S : pos[a] \in 1 .. Len(v) /\ v[pos[a]] = a
    /\ \A i \in 1 .. Len(v) : v[i] \in S /\ pos[v[i]] = i

Ordered(m) ==
    /\ Indexed(m.vRandom, m.nRandomPos, m.mapInfo)
    /\ Len(m.vRandom) = Cardinality(m.mapInfo)

(* mapAddr and the addresses of the entries are inverse to each other, and the
   next id is a new one *)
Addressed(m) ==
    /\ \A n \in m.mapInfo : m.addr[n] \in Addr /\ m.mapAddr[m.addr[n]] = n
    /\ \A a \in Addr : m.mapAddr[a] # NoId => m.mapAddr[a] \in m.mapInfo /\ m.addr[m.mapAddr[a]] = a
    /\ \A n \in m.mapInfo : n < m.nIdCount
    /\ m.nIdCount <= MaxId

\* tried entries have the addresses they had
SameTried(m, s) == \A a \in m.fInTried : s.addr[a] = m.addr[a]

Sound(m, pending) ==
    /\ m \in AM
    /\ Counted(m, pending) /\ Placed(m) /\ Totalled(m) /\ Bounded(m) /\ Ordered(m) /\ Addressed(m)

-----------------------------------------------------------------------------
(* The random order *)

\* two places exchanged, and what their addresses then remember
Exchanged(v, i, j) == [v EXCEPT ![i] = v[j], ![j] = v[i]]
Remembered(v, pos, i, j) == [pos EXCEPT ![v[i]] = j, ![v[j]] = i]

LEMMA SwapType ==
    ASSUME NEW m \in AM, NEW i \in 1 .. Len(m.vRandom), NEW j \in 1 .. Len(m.vRandom),
           NEW s, s = SwapRandom(m, i, j)
    PROVE  /\ s \in AM
           /\ s.mapInfo = m.mapInfo /\ s.fInTried = m.fInTried /\ s.nRefCount = m.nRefCount
           /\ s.source = m.source /\ s.addr = m.addr
      /\ s.mapAddr = m.mapAddr /\ s.nIdCount = m.nIdCount /\ s.vvNew = m.vvNew /\ s.vvTried = m.vvTried
           /\ s.nNew = m.nNew /\ s.nTried = m.nTried
           /\ s.vRandom = Exchanged(m.vRandom, i, j)
           /\ s.nRandomPos = Remembered(m.vRandom, m.nRandomPos, i, j)
<1> DEFINE v == Exchanged(m.vRandom, i, j)
           p == Remembered(m.vRandom, m.nRandomPos, i, j)
<1>1. s = [m EXCEPT !.vRandom = v, !.nRandomPos = p]
    BY DEF SwapRandom, Exchanged, Remembered
<1>2. v \in Seq(Id) /\ p \in [Id -> Nat]
  <2>1. m.vRandom \in Seq(Id) /\ m.nRandomPos \in [Id -> Nat]
      BY DEF AM
  <2> QED
      BY <2>1 DEF Exchanged, Remembered
<1> HIDE DEF v, p
<1>3. [m EXCEPT !.vRandom = v, !.nRandomPos = p] \in AM
    BY <1>2 DEF AM
<1> QED
    BY <1>1, <1>2, <1>3 DEF AM, v, p

\* an exchange keeps the order exact
LEMMA SwapOrder ==
    ASSUME NEW v \in Seq(Id), NEW pos \in [Id -> Nat], NEW S \in SUBSET Id, Indexed(v, pos, S),
           NEW i \in 1 .. Len(v), NEW j \in 1 .. Len(v)
    PROVE  /\ Exchanged(v, i, j) \in Seq(Id) /\ Len(Exchanged(v, i, j)) = Len(v)
           /\ Remembered(v, pos, i, j) \in [Id -> Nat]
           /\ Indexed(Exchanged(v, i, j), Remembered(v, pos, i, j), S)
           /\ \A a \in Id \ S : Remembered(v, pos, i, j)[a] = pos[a]
           /\ Exchanged(v, i, j)[j] = v[i]
<1> DEFINE w == Exchanged(v, i, j)
           q == Remembered(v, pos, i, j)
<1>1. w \in Seq(Id) /\ Len(w) = Len(v) /\ q \in [Id -> Nat]
    BY DEF Exchanged, Remembered
<1>2. w[i] = v[j] /\ w[j] = v[i] /\ \A n \in 1..Len(v) : n # i /\ n # j => w[n] = v[n]
    BY DEF Exchanged
<1>3. v[i] \in S /\ v[j] \in S /\ pos[v[i]] = i /\ pos[v[j]] = j
    BY DEF Indexed
<1>4. q[v[i]] = j /\ q[v[j]] = i /\ \A a \in Id : a # v[i] /\ a # v[j] => q[a] = pos[a]
    BY <1>3 DEF Remembered
<1> HIDE DEF w, q
<1>5. ASSUME NEW a \in S PROVE q[a] \in 1 .. Len(w) /\ w[q[a]] = a
  <2>1. CASE a = v[i] \/ a = v[j]
      BY <2>1, <1>1, <1>2, <1>4
  <2>2. CASE a # v[i] /\ a # v[j]
    <3>1. q[a] = pos[a] /\ pos[a] \in 1..Len(v) /\ v[pos[a]] = a
        BY <2>2, <1>4 DEF Indexed
    <3> QED
        BY <3>1, <2>2, <1>1, <1>2
  <2> QED
      BY <2>1, <2>2
<1>6. ASSUME NEW n \in 1 .. Len(w) PROVE w[n] \in S /\ q[w[n]] = n
  <2>1. CASE n = i \/ n = j
      BY <2>1, <1>2, <1>3, <1>4
  <2>2. CASE n # i /\ n # j
    <3>1. w[n] = v[n] /\ v[n] \in S /\ pos[v[n]] = n
        BY <2>2, <1>1, <1>2 DEF Indexed
    <3> QED
        BY <3>1, <2>2, <1>3, <1>4
  <2> QED
      BY <2>1, <2>2
<1>7. Indexed(w, q, S) /\ \A a \in Id \ S : q[a] = pos[a]
    BY <1>3, <1>4, <1>5, <1>6 DEF Indexed
<1> QED
    BY <1>1, <1>2, <1>7 DEF w, q

\* the last place is given up by the address that was swapped into it
Forgotten(pos, a) == [pos EXCEPT ![a] = 0]

LEMMA PopOrder ==
    ASSUME NEW v \in Seq(Id), NEW pos \in [Id -> Nat], NEW S \in SUBSET Id, Indexed(v, pos, S),
           NEW a \in S, pos[a] = Len(v)
    PROVE  /\ Front(v) \in Seq(Id) /\ Len(v) > 0 /\ Len(Front(v)) = Len(v) - 1
           /\ Indexed(Front(v), Forgotten(pos, a), S \ {a})
<1> DEFINE w == Front(v)
           q == Forgotten(pos, a)
<1>1. Len(v) \in Nat /\ Len(v) > 0 /\ v[Len(v)] = a
    BY DEF Indexed
<1>2. /\ w \in Seq(Id) /\ Len(w) = Len(v) - 1
      /\ \A n \in 1 .. Len(v) - 1 : w[n] = v[n]
  <2>1. \A n \in 1 .. Len(v) - 1 : v[n] \in Id
      BY <1>1
  <2> DEFINE l == Len(v) - 1
  <2>2. l \in Int /\ w = SubSeq(v, 1, l) /\ l >= 0
      BY <1>1 DEF Front
  <2> HIDE DEF l
  <2>3. /\ SubSeq(v, 1, l) \in Seq(Id)
        /\ Len(SubSeq(v, 1, l)) = IF 1 <= l THEN l - 1 + 1 ELSE 0
        /\ \A n \in 1 .. l - 1 + 1 : SubSeq(v, 1, l)[n] = v[1 + n - 1]
      BY <2>1, <2>2, SubSeqProperties DEF l
  <2>4. w \in Seq(Id) /\ Len(w) = l /\ \A n \in 1 .. l : w[n] = v[n]
      BY <2>2, <2>3
  <2> QED
      BY <2>4 DEF l
<1>3. \A x \in S \ {a} : q[x] = pos[x]
    BY DEF Forgotten
<1> HIDE DEF w, q
<1>4. ASSUME NEW x \in S \ {a} PROVE q[x] \in 1 .. Len(w) /\ w[q[x]] = x
  <2>1. pos[x] \in 1 .. Len(v) /\ v[pos[x]] = x
      BY DEF Indexed
  <2>2. pos[x] # Len(v)
      BY <2>1, <1>1
  <2>3. pos[x] \in 1 .. Len(v) - 1
      BY <1>1, <2>1, <2>2
  <2> QED
      BY <1>2, <1>3, <2>1, <2>3
<1>5. ASSUME NEW n \in 1 .. Len(w) PROVE w[n] \in S \ {a} /\ q[w[n]] = n
  <2>0. n \in 1 .. Len(v) - 1
      BY <1>2
  <2>1. n \in 1 .. Len(v) /\ n # Len(v) /\ w[n] = v[n]
      BY <1>1, <1>2, <2>0
  <2>2. v[n] \in S /\ pos[v[n]] = n
      BY <2>1 DEF Indexed
  <2> QED
      BY <1>3, <2>1, <2>2
<1> QED
    BY <1>1, <1>2, <1>4, <1>5 DEF Indexed, w, q

LEMMA DeleteSound ==
    ASSUME NEW m \in AM, Ordered(m), Addressed(m), NEW a \in m.mapInfo
    PROVE  LET d == Delete(m, a) IN
           /\ d \in AM /\ Ordered(d) /\ Addressed(d)
           /\ d.mapInfo = m.mapInfo \ {a} /\ d.fInTried = m.fInTried /\ d.nRefCount = m.nRefCount
           /\ d.vvNew = m.vvNew /\ d.vvTried = m.vvTried
           /\ d.nNew = m.nNew - 1 /\ d.nTried = m.nTried
           /\ \A x \in Id : x # a => d.addr[x] = m.addr[x]
<1>1. /\ m.vRandom \in Seq(Id) /\ m.nRandomPos \in [Id -> Nat] /\ m.mapInfo \in SUBSET Id
      /\ m.source \in [Id -> NewBucket] /\ m.nNew \in Int
      /\ m.addr \in [Id -> Addr \cup {None}] /\ m.mapAddr \in [Addr -> Id \cup {NoId}]
    BY DEF AM
<1>2. PICK i \in 1 .. Len(m.vRandom) : i = m.nRandomPos[a] /\ m.vRandom[i] = a
    BY DEF Ordered, Indexed
<1>3. PICK j \in 1 .. Len(m.vRandom) : j = Len(m.vRandom)
  <2>1. Len(m.vRandom) \in Nat
      BY <1>1
  <2> QED
      BY <2>1
<1> DEFINE s == SwapRandom(m, i, j)
           d == Delete(m, a)
<1>4. /\ s \in AM
      /\ s.mapInfo = m.mapInfo /\ s.fInTried = m.fInTried /\ s.nRefCount = m.nRefCount
      /\ s.source = m.source /\ s.addr = m.addr
      /\ s.mapAddr = m.mapAddr /\ s.nIdCount = m.nIdCount /\ s.vvNew = m.vvNew /\ s.vvTried = m.vvTried
      /\ s.nNew = m.nNew /\ s.nTried = m.nTried
      /\ s.vRandom = Exchanged(m.vRandom, i, j)
      /\ s.nRandomPos = Remembered(m.vRandom, m.nRandomPos, i, j)
    BY SwapType
<1>5. d = [s EXCEPT !.vRandom = Front(s.vRandom), !.nRandomPos = Forgotten(s.nRandomPos, a),
                    !.mapAddr = [s.mapAddr EXCEPT ![m.addr[a]] = NoId],
                    !.addr = [s.addr EXCEPT ![a] = None],
                    !.source = [s.source EXCEPT ![a] = NoBucket], !.mapInfo = s.mapInfo \ {a},
                    !.nNew = s.nNew - 1]
  <2>1. s = SwapRandom(m, m.nRandomPos[a], Len(m.vRandom)) /\ s.addr = m.addr
      BY <1>2, <1>3, <1>4
  <2> HIDE DEF s
  <2> QED
      BY <2>1, ZenonT(40) DEF Delete, Forgotten
<1> HIDE DEF s
<1>6. /\ s.vRandom \in Seq(Id) /\ Len(s.vRandom) = j /\ s.nRandomPos \in [Id -> Nat]
      /\ Indexed(s.vRandom, s.nRandomPos, m.mapInfo)
      /\ \A x \in Id \ m.mapInfo : s.nRandomPos[x] = m.nRandomPos[x]
      /\ s.vRandom[j] = a
  <2> DEFINE v == Exchanged(m.vRandom, i, j)
             q == Remembered(m.vRandom, m.nRandomPos, i, j)
  <2>1. Indexed(m.vRandom, m.nRandomPos, m.mapInfo)
      BY DEF Ordered
  <2>2. /\ v \in Seq(Id) /\ Len(v) = Len(m.vRandom) /\ q \in [Id -> Nat]
        /\ Indexed(v, q, m.mapInfo)
        /\ \A x \in Id \ m.mapInfo : q[x] = m.nRandomPos[x]
        /\ v[j] = m.vRandom[i]
    <3>1. v \in Seq(Id) /\ q \in [Id -> Nat] /\ Indexed(v, q, m.mapInfo)
        BY <1>1, <2>1, SwapOrder
    <3>2. Len(v) = Len(m.vRandom) /\ v[j] = m.vRandom[i]
        BY <1>1 DEF Exchanged
    <3>3. m.vRandom[i] \in m.mapInfo /\ m.vRandom[j] \in m.mapInfo
        BY <2>1 DEF Indexed
    <3>4. \A x \in Id \ m.mapInfo : q[x] = m.nRandomPos[x]
        BY <1>1, <3>3 DEF Remembered
    <3> QED
        BY <3>1, <3>2, <3>4
  <2> QED
      BY <1>2, <1>3, <1>4, <2>2
<1>7. s.nRandomPos[a] = Len(s.vRandom)
    BY <1>6 DEF Indexed
<1>8. /\ Front(s.vRandom) \in Seq(Id)
      /\ Len(Front(s.vRandom)) = Len(m.vRandom) - 1
      /\ Indexed(Front(s.vRandom), Forgotten(s.nRandomPos, a), m.mapInfo \ {a})
  <2>1. /\ Front(s.vRandom) \in Seq(Id) /\ Len(Front(s.vRandom)) = Len(s.vRandom) - 1
        /\ Indexed(Front(s.vRandom), Forgotten(s.nRandomPos, a), m.mapInfo \ {a})
      BY <1>1, <1>6, <1>7, PopOrder
  <2> QED
      BY <2>1, <1>3, <1>6, ZenonT(40)
<1>9. /\ d.mapInfo = m.mapInfo \ {a} /\ d.fInTried = m.fInTried /\ d.nRefCount = m.nRefCount
      /\ d.vvNew = m.vvNew /\ d.vvTried = m.vvTried
      /\ d.nNew = m.nNew - 1 /\ d.nTried = m.nTried
      /\ d.vRandom = Front(s.vRandom) /\ d.nRandomPos = Forgotten(s.nRandomPos, a)
      /\ d.source = [m.source EXCEPT ![a] = NoBucket] /\ d.addr = [m.addr EXCEPT ![a] = None]
      /\ d.mapAddr = [m.mapAddr EXCEPT ![m.addr[a]] = NoId] /\ d.nIdCount = m.nIdCount
    BY <1>4, <1>5 DEF AM
<1>10. d \in AM
  <2>1. NoBucket \in NewBucket
      BY Domains
  <2>2. /\ Forgotten(s.nRandomPos, a) \in [Id -> Nat]
        /\ [s.source EXCEPT ![a] = NoBucket] \in [Id -> NewBucket]
        /\ s.nNew - 1 \in Int /\ s.mapInfo \ {a} \in SUBSET Id
    <3>1. s.nRandomPos \in [Id -> Nat] /\ s.source \in [Id -> NewBucket]
        BY <1>1, <1>4, <1>6
    <3>2. Forgotten(s.nRandomPos, a) \in [Id -> Nat]
        BY <3>1 DEF Forgotten
    <3>3. [s.source EXCEPT ![a] = NoBucket] \in [Id -> NewBucket]
        BY <2>1, <3>1
    <3>4. s.nNew - 1 \in Int /\ s.mapInfo \ {a} \in SUBSET Id
        BY <1>1, <1>4
    <3> QED
        BY <3>2, <3>3, <3>4
  <2> DEFINE h == [s.addr EXCEPT ![a] = None]
             c == [s.mapAddr EXCEPT ![m.addr[a]] = NoId]
             o == [s.source EXCEPT ![a] = NoBucket]
             p == Forgotten(s.nRandomPos, a)
             w == Front(s.vRandom)
             t == [s EXCEPT !.vRandom = w, !.nRandomPos = p, !.mapAddr = c, !.addr = h,
                            !.source = o, !.mapInfo = s.mapInfo \ {a}, !.nNew = s.nNew - 1]
  <2>3. h \in [Id -> Addr \cup {None}]
      BY <1>1, <1>4
  <2>4. c \in [Addr -> Id \cup {NoId}]
      BY <1>1, <1>4
  <2>5. d = t
      BY <1>5
  <2>6. p \in [Id -> Nat] /\ o \in [Id -> NewBucket] /\ w \in Seq(Id)
      BY <1>8, <2>2
  <2> HIDE DEF h, c, o, p, w, d
  <2>7. t \in AM
      BY <1>4, <2>2, <2>3, <2>4, <2>6 DEF AM
  <2> QED
      BY <2>5, <2>7
<1> HIDE DEF d
<1>11. Ordered(d)
  <2>0. IsFiniteSet(m.mapInfo)
      BY <1>1, Domains, FS_Subset
  <2>1. Cardinality(m.mapInfo \ {a}) = Cardinality(m.mapInfo) - 1
      BY <2>0, FS_RemoveElement
  <2> QED
      BY <1>8, <1>9, <2>1 DEF Ordered
<1>12. Addressed(d)
  <2>1. m.addr[a] \in Addr /\ m.mapAddr[m.addr[a]] = a
      BY DEF Addressed
  <2>2. ASSUME NEW n \in d.mapInfo
        PROVE  d.addr[n] \in Addr /\ d.mapAddr[d.addr[n]] = n /\ n < d.nIdCount
    <3>1. n \in m.mapInfo /\ n # a
        BY <1>9
    <3>2. m.addr[n] \in Addr /\ m.mapAddr[m.addr[n]] = n /\ n < m.nIdCount
        BY <3>1 DEF Addressed
    <3>3. d.addr[n] = m.addr[n] /\ m.addr[n] # m.addr[a]
        BY <1>1, <1>9, <2>1, <3>1, <3>2
    <3> QED
        BY <1>1, <1>9, <3>2, <3>3
  <2>3. ASSUME NEW x \in Addr, d.mapAddr[x] # NoId
        PROVE  d.mapAddr[x] \in d.mapInfo /\ d.addr[d.mapAddr[x]] = x
    <3>1. x # m.addr[a] /\ d.mapAddr[x] = m.mapAddr[x]
        BY <1>1, <1>9, <2>1, <2>3
    <3>2. m.mapAddr[x] \in m.mapInfo /\ m.addr[m.mapAddr[x]] = x
        BY <2>3, <3>1 DEF Addressed
    <3> QED
        BY <1>1, <1>9, <3>1, <3>2
  <2> QED
      BY <1>9, <2>2, <2>3 DEF Addressed
<1>13. \A x \in Id : x # a => d.addr[x] = m.addr[x]
    BY <1>1, <1>9
<1> QED
    BY <1>9, <1>10, <1>11, <1>12, <1>13 DEF d

-----------------------------------------------------------------------------
(* New entries *)

\* what is counted is finite
LEMMA Finite ==
    ASSUME NEW m \in AM
    PROVE  /\ IsFiniteSet(m.mapInfo) /\ IsFiniteSet(m.fInTried)
           /\ IsFiniteSet(m.mapInfo \ m.fInTried)
           /\ \A b \in NewBucket : IsFiniteSet(m.vvNew[b]) /\ Cardinality(m.vvNew[b]) \in Nat
           /\ \A k \in TriedBucket : IsFiniteSet(m.vvTried[k]) /\ Cardinality(m.vvTried[k]) \in Nat
<1>1. /\ m.mapInfo \in SUBSET Id /\ m.fInTried \in SUBSET Id
      /\ m.mapInfo \ m.fInTried \in SUBSET Id
      /\ \A b \in NewBucket : m.vvNew[b] \in SUBSET Id
      /\ \A k \in TriedBucket : m.vvTried[k] \in SUBSET Id
    BY DEF AM
<1>2. \A S \in SUBSET Id : IsFiniteSet(S)
    BY Domains, FS_Subset
<1> QED
    BY <1>1, <1>2, FS_CardinalityType

LEMMA InFinite ==
    ASSUME NEW m, NEW a
    PROVE  IsFiniteSet(In(m, a)) /\ Cardinality(In(m, a)) \in Nat
<1>1. In(m, a) \in SUBSET NewBucket
    BY DEF In
<1> QED
    BY <1>1, Domains, FS_Subset, FS_CardinalityType

\* an address is put into one bucket more
Joined(vvNew, b, a) == [vvNew EXCEPT ![b] = @ \cup {a}]

LEMMA InJoin ==
    ASSUME NEW m \in AM, NEW n, NEW b \in NewBucket, NEW a, a \notin m.vvNew[b],
           n.vvNew = Joined(m.vvNew, b, a), NEW x
    PROVE  Cardinality(In(n, x)) = Cardinality(In(m, x)) + (IF x = a THEN 1 ELSE 0)
<1>1. m.vvNew \in [NewBucket -> SUBSET Id]
    BY DEF AM
<1>2. CASE x = a
  <2>1. In(n, x) = In(m, x) \cup {b} /\ b \notin In(m, x)
      BY <1>1, <1>2 DEF In, Joined
  <2>2. Cardinality(In(m, x) \cup {b}) = Cardinality(In(m, x)) + 1
      BY <2>1, InFinite, FS_AddElement
  <2> QED
      BY <1>2, <2>1, <2>2
<1>3. CASE x # a
  <2>1. In(n, x) = In(m, x)
      BY <1>1, <1>3 DEF In, Joined
  <2> QED
      BY <1>3, <2>1, InFinite
<1> QED
    BY <1>2, <1>3

\* an address is taken out of a bucket
LEMMA InLeave ==
    ASSUME NEW m \in AM, NEW n, NEW b \in NewBucket, NEW a, a \in m.vvNew[b],
           n.vvNew = [m.vvNew EXCEPT ![b] = @ \ {a}], NEW x
    PROVE  Cardinality(In(n, x)) = Cardinality(In(m, x)) - (IF x = a THEN 1 ELSE 0)
<1>1. m.vvNew \in [NewBucket -> SUBSET Id]
    BY DEF AM
<1>2. CASE x = a
  <2>1. In(n, x) = In(m, x) \ {b} /\ b \in In(m, x)
      BY <1>1, <1>2 DEF In
  <2>2. Cardinality(In(m, x) \ {b}) = Cardinality(In(m, x)) - 1
      BY <2>1, InFinite, FS_RemoveElement
  <2> QED
      BY <1>2, <2>1, <2>2
<1>3. CASE x # a
  <2>1. In(n, x) = In(m, x)
      BY <1>1, <1>3 DEF In
  <2> QED
      BY <1>3, <2>1, InFinite
<1> QED
    BY <1>2, <1>3

\* only entries that are not tried are in new buckets, and they have references
LEMMA InBucket ==
    ASSUME NEW m, NEW p, Sound(m, p), NEW b \in NewBucket, NEW e \in m.vvNew[b]
    PROVE  /\ e \in Id /\ e \in m.mapInfo /\ e \notin m.fInTried
           /\ Cardinality(In(m, e)) >= 1 /\ m.nRefCount[e] >= 1
<1>1. e \in Id
    BY DEF Sound, AM
<1>2. In(m, e) # {}
    BY DEF In
<1>3. Cardinality(In(m, e)) >= 1 /\ Cardinality(In(m, e)) \in Nat
    BY <1>2, InFinite, FS_EmptySet
<1>4. m.nRefCount[e] = Cardinality(In(m, e)) + (IF e \in p THEN 1 ELSE 0)
    BY <1>1 DEF Sound, Counted
<1>5. m.nRefCount[e] >= 1
    BY <1>3, <1>4
<1> QED
    BY <1>1, <1>3, <1>5 DEF Sound, Counted

\* removing an entry from a bucket keeps everything exact
LEMMA ShrinkSound ==
    ASSUME NEW m, NEW a, Sound(m, {a}), NEW b \in NewBucket, a \notin m.vvNew[b],
           NEW s \in ShrinkNew(m, b)
    PROVE  /\ Sound(s, {a}) /\ a \notin s.vvNew[b] /\ s.fInTried = m.fInTried
           /\ Cardinality(s.vvNew[b]) = Cardinality(m.vvNew[b]) - 1
           /\ SameTried(m, s)
<1> DEFINE Out(e) == [m EXCEPT !.nRefCount[e] = @ - 1, !.vvNew[b] = @ \ {e}]
<1>1. PICK e \in m.vvNew[b] : s = IF Out(e).nRefCount[e] = 0 THEN Delete(Out(e), e) ELSE Out(e)
    BY DEF ShrinkNew
<1>2. /\ e \in Id /\ e \in m.mapInfo /\ e \notin m.fInTried /\ e # a
      /\ Cardinality(In(m, e)) >= 1 /\ m.nRefCount[e] >= 1
    BY InBucket
<1> DEFINE out == Out(e)
<1>3. m \in AM /\ m.nRefCount \in [Id -> Int] /\ m.vvNew \in [NewBucket -> SUBSET Id]
    BY DEF Sound, AM
<1>4. /\ out \in AM
      /\ out.mapInfo = m.mapInfo /\ out.fInTried = m.fInTried
      /\ out.nRefCount = [m.nRefCount EXCEPT ![e] = @ - 1]
      /\ out.source = m.source /\ out.addr = m.addr
      /\ out.mapAddr = m.mapAddr /\ out.nIdCount = m.nIdCount /\ out.vRandom = m.vRandom /\ out.nRandomPos = m.nRandomPos
      /\ out.vvNew = [m.vvNew EXCEPT ![b] = @ \ {e}] /\ out.vvTried = m.vvTried
      /\ out.nNew = m.nNew /\ out.nTried = m.nTried
  <2> DEFINE r == [m.nRefCount EXCEPT ![e] = @ - 1]
             v == [m.vvNew EXCEPT ![b] = @ \ {e}]
  <2>1. out = [m EXCEPT !.nRefCount = r, !.vvNew = v]
      BY <1>3 DEF AM
  <2>2. r \in [Id -> Int] /\ v \in [NewBucket -> SUBSET Id]
      BY <1>2, <1>3
  <2> HIDE DEF r, v
  <2>3. [m EXCEPT !.nRefCount = r, !.vvNew = v] \in AM
      BY <1>3, <2>2 DEF AM
  <2> QED
      BY <1>3, <2>1, <2>3 DEF AM, r, v
<1>5. s = IF out.nRefCount[e] = 0 THEN Delete(out, e) ELSE out
    BY <1>1
<1> HIDE DEF out
<1>6. Ordered(out) /\ Addressed(out)
    BY <1>4 DEF Sound, Ordered, Addressed
<1>7. /\ s \in AM /\ Ordered(s) /\ Addressed(s)
      /\ s.mapInfo = IF m.nRefCount[e] = 1 THEN m.mapInfo \ {e} ELSE m.mapInfo
      /\ s.nNew = IF m.nRefCount[e] = 1 THEN m.nNew - 1 ELSE m.nNew
      /\ s.fInTried = m.fInTried /\ s.vvTried = m.vvTried /\ s.nTried = m.nTried
      /\ s.nRefCount = [m.nRefCount EXCEPT ![e] = @ - 1]
      /\ s.vvNew = [m.vvNew EXCEPT ![b] = @ \ {e}]
      /\ \A x \in Id : x # e => s.addr[x] = m.addr[x]
  <2>1. out.nRefCount[e] = m.nRefCount[e] - 1 /\ m.nRefCount[e] \in Int
      BY <1>2, <1>3, <1>4
  <2>2. CASE m.nRefCount[e] = 1
    <3>1. s = Delete(out, e) /\ e \in out.mapInfo
        BY <1>2, <1>4, <1>5, <2>1, <2>2
    <3> QED
        BY <1>4, <1>6, <2>2, <3>1, DeleteSound
  <2>3. CASE m.nRefCount[e] # 1
    <3>1. s = out
        BY <1>5, <2>1, <2>3
    <3> QED
        BY <1>4, <1>6, <2>3, <3>1
  <2> QED
      BY <2>2, <2>3
<1>8. \A x : Cardinality(In(s, x)) = Cardinality(In(m, x)) - (IF x = e THEN 1 ELSE 0)
    BY <1>3, <1>7, InLeave
<1>9. Counted(s, {a})
  <2> SUFFICES ASSUME NEW x \in Id
               PROVE  /\ s.nRefCount[x] = Cardinality(In(s, x)) + (IF x \in {a} THEN 1 ELSE 0)
                      /\ s.nRefCount[x] # 0 <=> x \in s.mapInfo \ s.fInTried
                      /\ s.nRefCount[x] <= BucketsPerAddress
      BY DEF Counted
  <2>1. /\ m.nRefCount[x] = Cardinality(In(m, x)) + (IF x \in {a} THEN 1 ELSE 0)
        /\ m.nRefCount[x] # 0 <=> x \in m.mapInfo \ m.fInTried
        /\ m.nRefCount[x] <= BucketsPerAddress
      BY DEF Sound, Counted
  <2>2. Cardinality(In(m, x)) \in Nat /\ m.nRefCount[x] \in Int /\ BucketsPerAddress \in Nat
      BY <1>3, InFinite, AddrManAssumption
  <2>3. s.nRefCount[x] = m.nRefCount[x] - (IF x = e THEN 1 ELSE 0)
      BY <1>2, <1>3, <1>7, <2>2
  <2>4. CASE x = e
      BY <1>2, <1>7, <1>8, <2>1, <2>2, <2>3, <2>4
  <2>5. CASE x # e
      BY <1>2, <1>7, <1>8, <2>1, <2>2, <2>3, <2>5
  <2> QED
      BY <2>4, <2>5
<1>10. /\ s.vvNew[b] = m.vvNew[b] \ {e} /\ \A c \in NewBucket \ {b} : s.vvNew[c] = m.vvNew[c]
       /\ Cardinality(s.vvNew[b]) = Cardinality(m.vvNew[b]) - 1
  <2>1. s.vvNew[b] = m.vvNew[b] \ {e} /\ \A c \in NewBucket \ {b} : s.vvNew[c] = m.vvNew[c]
      BY <1>3, <1>7
  <2>2. Cardinality(m.vvNew[b] \ {e}) = Cardinality(m.vvNew[b]) - 1
    <3>1. IsFiniteSet(m.vvNew[b])
        BY <1>3, Finite
    <3> QED
        BY <3>1, FS_RemoveElement
  <2> QED
      BY <2>1, <2>2
<1>11. Placed(s)
    BY <1>2, <1>7 DEF Placed, Sound
<1>12. Bounded(s)
  <2>1. \A c \in NewBucket : Cardinality(s.vvNew[c]) <= NewBucketSize
    <3> SUFFICES ASSUME NEW c \in NewBucket PROVE Cardinality(s.vvNew[c]) <= NewBucketSize
        OBVIOUS
    <3>1. Cardinality(m.vvNew[c]) \in Nat /\ NewBucketSize \in Nat /\ Cardinality(m.vvNew[c]) <= NewBucketSize
        BY <1>3, Finite, AddrManAssumption DEF Sound, Bounded
    <3>2. Cardinality(s.vvNew[c]) = IF c = b THEN Cardinality(m.vvNew[c]) - 1 ELSE Cardinality(m.vvNew[c])
        BY <1>10
    <3> QED
        BY <3>1, <3>2
  <2> QED
      BY <1>7, <2>1 DEF Sound, Bounded
<1>13. Totalled(s)
  <2>1. CASE m.nRefCount[e] = 1
    <3>1. s.mapInfo \ s.fInTried = (m.mapInfo \ m.fInTried) \ {e}
        BY <1>7, <2>1
    <3>2. Cardinality((m.mapInfo \ m.fInTried) \ {e}) = Cardinality(m.mapInfo \ m.fInTried) - 1
        BY <1>2, <1>3, Finite, FS_RemoveElement
    <3> QED
        BY <1>2, <1>7, <2>1, <3>1, <3>2 DEF Sound, Totalled
  <2>2. CASE m.nRefCount[e] # 1
      BY <1>7, <2>2 DEF Sound, Totalled
  <2> QED
      BY <2>1, <2>2
<1>14. SameTried(m, s)
    BY <1>2, <1>3, <1>7 DEF AM, SameTried
<1> QED
    BY <1>7, <1>9, <1>10, <1>11, <1>12, <1>13, <1>14 DEF Sound

\* the counted reference is put into its bucket
Join(m, a, b) == [m EXCEPT !.vvNew[b] = @ \cup {a}]

LEMMA JoinSound ==
    ASSUME NEW m, NEW a \in Id, Sound(m, {a}), NEW b \in NewBucket, a \notin m.vvNew[b],
           Cardinality(m.vvNew[b]) < NewBucketSize
    PROVE  /\ Sound(Join(m, a, b), {}) /\ Join(m, a, b).fInTried = m.fInTried
           /\ Join(m, a, b).addr = m.addr
<1> DEFINE s == Join(m, a, b)
<1>1. m \in AM /\ m.vvNew \in [NewBucket -> SUBSET Id]
    BY DEF Sound, AM
<1>2. /\ s \in AM
      /\ s.mapInfo = m.mapInfo /\ s.fInTried = m.fInTried /\ s.nRefCount = m.nRefCount
      /\ s.source = m.source /\ s.addr = m.addr
      /\ s.mapAddr = m.mapAddr /\ s.nIdCount = m.nIdCount /\ s.vRandom = m.vRandom /\ s.nRandomPos = m.nRandomPos
      /\ s.vvNew = [m.vvNew EXCEPT ![b] = @ \cup {a}] /\ s.vvTried = m.vvTried
      /\ s.nNew = m.nNew /\ s.nTried = m.nTried
  <2> DEFINE v == [m.vvNew EXCEPT ![b] = @ \cup {a}]
  <2>1. s = [m EXCEPT !.vvNew = v]
      BY <1>1 DEF AM, Join
  <2>2. v \in [NewBucket -> SUBSET Id]
      BY <1>1
  <2> HIDE DEF v
  <2>3. [m EXCEPT !.vvNew = v] \in AM
      BY <1>1, <2>2 DEF AM
  <2> QED
      BY <1>1, <2>1, <2>3 DEF AM, v
<1> HIDE DEF s
<1>3. \A x : Cardinality(In(s, x)) = Cardinality(In(m, x)) + (IF x = a THEN 1 ELSE 0)
  <2> SUFFICES ASSUME NEW x
               PROVE  Cardinality(In(s, x)) = Cardinality(In(m, x)) + (IF x = a THEN 1 ELSE 0)
      OBVIOUS
  <2>1. s.vvNew = Joined(m.vvNew, b, a)
      BY <1>2 DEF Joined
  <2> QED
      BY <1>1, <2>1, InJoin
<1>4. Counted(s, {})
  <2> SUFFICES ASSUME NEW x \in Id
               PROVE  s.nRefCount[x] = Cardinality(In(s, x)) + 0
      BY <1>2 DEF Sound, Counted
  <2>1. m.nRefCount[x] = Cardinality(In(m, x)) + (IF x \in {a} THEN 1 ELSE 0)
      BY DEF Sound, Counted
  <2>2. Cardinality(In(m, x)) \in Nat /\ s.nRefCount[x] = m.nRefCount[x]
      BY <1>2, InFinite
  <2>3. Cardinality(In(s, x)) = Cardinality(In(m, x)) + (IF x = a THEN 1 ELSE 0)
      BY <1>3
  <2> QED
      BY <2>1, <2>2, <2>3
<1>5. Bounded(s)
  <2>1. \A c \in NewBucket : Cardinality(s.vvNew[c]) <= NewBucketSize
    <3> SUFFICES ASSUME NEW c \in NewBucket PROVE Cardinality(s.vvNew[c]) <= NewBucketSize
        OBVIOUS
    <3>1. CASE c = b
      <4>1. s.vvNew[c] = m.vvNew[b] \cup {a}
          BY <1>1, <1>2, <3>1
      <4>2. IsFiniteSet(m.vvNew[b]) /\ Cardinality(m.vvNew[b]) \in Nat /\ NewBucketSize \in Nat
          BY <1>1, Finite, AddrManAssumption
      <4>3. Cardinality(m.vvNew[b] \cup {a}) = Cardinality(m.vvNew[b]) + 1
          BY <4>2, FS_AddElement
      <4> QED
          BY <4>1, <4>2, <4>3
    <3>2. CASE c # b
        BY <1>1, <1>2, <3>2 DEF Sound, Bounded
    <3> QED
        BY <3>1, <3>2
  <2> QED
      BY <1>2, <2>1 DEF Sound, Bounded
<1>6. Placed(s) /\ Totalled(s) /\ Ordered(s) /\ Addressed(s)
    BY <1>2 DEF Sound, Placed, Totalled, Ordered, Addressed
<1> QED
    BY <1>2, <1>4, <1>5, <1>6 DEF Sound, s

\* one more reference of a known entry is counted
LEMMA CountSound ==
    ASSUME NEW m, Sound(m, {}), NEW a, a \in m.mapInfo, a \notin m.fInTried,
           m.nRefCount[a] # BucketsPerAddress,
           NEW s, s = [m EXCEPT !.nRefCount[a] = @ + 1]
    PROVE  Sound(s, {a}) /\ s.vvNew = m.vvNew /\ s.fInTried = m.fInTried /\ s.addr = m.addr
<1>1. m \in AM /\ m.nRefCount \in [Id -> Int] /\ a \in Id
    BY DEF Sound, AM
<1>2. /\ s \in AM
      /\ s.mapInfo = m.mapInfo /\ s.fInTried = m.fInTried
      /\ s.nRefCount = [m.nRefCount EXCEPT ![a] = @ + 1]
      /\ s.source = m.source /\ s.addr = m.addr
      /\ s.mapAddr = m.mapAddr /\ s.nIdCount = m.nIdCount /\ s.vRandom = m.vRandom /\ s.nRandomPos = m.nRandomPos
      /\ s.vvNew = m.vvNew /\ s.vvTried = m.vvTried
      /\ s.nNew = m.nNew /\ s.nTried = m.nTried
  <2> DEFINE r == [m.nRefCount EXCEPT ![a] = @ + 1]
  <2>1. s = [m EXCEPT !.nRefCount = r]
      BY <1>1 DEF AM
  <2>2. r \in [Id -> Int]
      BY <1>1
  <2> HIDE DEF r
  <2>3. [m EXCEPT !.nRefCount = r] \in AM
      BY <1>1, <2>2 DEF AM
  <2> QED
      BY <1>1, <2>1, <2>3 DEF AM, r
<1>3. Counted(s, {a})
  <2> SUFFICES ASSUME NEW x \in Id
               PROVE  /\ s.nRefCount[x] = Cardinality(In(s, x)) + (IF x \in {a} THEN 1 ELSE 0)
                      /\ s.nRefCount[x] # 0 <=> x \in s.mapInfo \ s.fInTried
                      /\ s.nRefCount[x] <= BucketsPerAddress
      BY DEF Counted
  <2>1. /\ m.nRefCount[x] = Cardinality(In(m, x)) + 0
        /\ m.nRefCount[x] # 0 <=> x \in m.mapInfo \ m.fInTried
        /\ m.nRefCount[x] <= BucketsPerAddress
      BY DEF Sound, Counted
  <2>2. Cardinality(In(m, x)) \in Nat /\ BucketsPerAddress \in Nat /\ In(s, x) = In(m, x)
      BY <1>2, InFinite, AddrManAssumption DEF In
  <2>3. s.nRefCount[x] = m.nRefCount[x] + (IF x = a THEN 1 ELSE 0)
      BY <1>1, <1>2, <2>1, <2>2
  <2>4. CASE x = a
      BY <1>2, <2>1, <2>2, <2>3, <2>4
  <2>5. CASE x # a
      BY <1>2, <2>1, <2>2, <2>3, <2>5
  <2> QED
      BY <2>4, <2>5
<1>4. Placed(s) /\ Totalled(s) /\ Ordered(s) /\ Addressed(s) /\ Bounded(s)
    BY <1>2 DEF Sound, Placed, Totalled, Ordered, Addressed, Bounded
<1> QED
    BY <1>2, <1>3, <1>4 DEF Sound

\* a new entry goes to the end of the order
AtPlace(pos, a, n) == [pos EXCEPT ![a] = n]

LEMMA AppendOrder ==
    ASSUME NEW v \in Seq(Id), NEW pos \in [Id -> Nat], NEW S \in SUBSET Id, Indexed(v, pos, S),
           NEW a \in Id, a \notin S
    PROVE  /\ Append(v, a) \in Seq(Id) /\ AtPlace(pos, a, Len(v) + 1) \in [Id -> Nat]
           /\ Indexed(Append(v, a), AtPlace(pos, a, Len(v) + 1), S \cup {a})
<1> DEFINE w == Append(v, a)
           q == AtPlace(pos, a, Len(v) + 1)
<1>1. Len(v) \in Nat
    OBVIOUS
<1>2. /\ w \in Seq(Id) /\ Len(w) = Len(v) + 1 /\ w[Len(v) + 1] = a
      /\ \A n \in 1 .. Len(v) : w[n] = v[n]
    BY <1>1
<1>3. q \in [Id -> Nat] /\ q[a] = Len(v) + 1 /\ \A x \in S : q[x] = pos[x]
    BY <1>1 DEF AtPlace
<1> HIDE DEF w, q
<1>4. ASSUME NEW x \in S \cup {a} PROVE q[x] \in 1 .. Len(w) /\ w[q[x]] = x
  <2>1. CASE x = a
      BY <2>1, <1>1, <1>2, <1>3
  <2>2. CASE x \in S
    <3>1. PICK n \in 1 .. Len(v) : n = pos[x] /\ v[n] = x
        BY <2>2 DEF Indexed
    <3>2. q[x] = n
        BY <2>2, <3>1, <1>3
    <3>3. n \in 1 .. Len(w) /\ w[n] = v[n]
        BY <1>1, <1>2
    <3> QED
        BY <3>1, <3>2, <3>3
  <2> QED
      BY <2>1, <2>2
<1>5. ASSUME NEW n \in 1 .. Len(w) PROVE w[n] \in S \cup {a} /\ q[w[n]] = n
  <2>1. CASE n = Len(v) + 1
      BY <2>1, <1>2, <1>3
  <2>2. CASE n # Len(v) + 1
    <3>1. n \in 1 .. Len(v)
        BY <2>2, <1>1, <1>2
    <3>2. w[n] = v[n] /\ v[n] \in S /\ pos[v[n]] = n
        BY <3>1, <1>2 DEF Indexed
    <3> QED
        BY <3>2, <1>3
  <2> QED
      BY <2>1, <2>2
<1> QED
    BY <1>2, <1>3, <1>4, <1>5 DEF Indexed, w, q

\* a new entry, with its first reference counted
Created(m, x, b) == [[Create(m, x, b) EXCEPT !.nNew = @ + 1] EXCEPT !.nRefCount[m.nIdCount] = @ + 1]

LEMMA CreateSound ==
    ASSUME NEW m, Sound(m, {}), NEW x \in Addr, ~Known(m, x), m.nIdCount < MaxId, NEW b \in NewBucket,
           NEW a, a = m.nIdCount
    PROVE  /\ a \in Id /\ a \notin m.mapInfo
           /\ Sound(Created(m, x, b), {a}) /\ Created(m, x, b).vvNew = m.vvNew
           /\ Created(m, x, b).fInTried = m.fInTried
           /\ \A e \in m.mapInfo : e \in Created(m, x, b).mapInfo /\ Created(m, x, b).addr[e] = m.addr[e]
<1> DEFINE s == Created(m, x, b)
<1>1. /\ m \in AM /\ m.nRefCount \in [Id -> Int] /\ m.vRandom \in Seq(Id)
      /\ m.nRandomPos \in [Id -> Nat] /\ m.source \in [Id -> NewBucket]
      /\ m.addr \in [Id -> Addr \cup {None}] /\ m.mapAddr \in [Addr -> Id \cup {NoId}]
      /\ m.mapInfo \in SUBSET Id /\ m.nNew \in Int /\ m.nIdCount \in Nat
    BY DEF Sound, AM
<1>0. a \in Id /\ a \notin m.mapInfo /\ m.mapAddr[x] = NoId
  <2>1. a \in Id
      BY <1>1, Domains
  <2>2. a \notin m.mapInfo
      BY <1>1 DEF Sound, Addressed
  <2>3. m.mapAddr[x] = NoId
      BY DEF Sound, Addressed, Known
  <2> QED
      BY <2>1, <2>2, <2>3
<1>2. /\ Append(m.vRandom, a) \in Seq(Id)
      /\ AtPlace(m.nRandomPos, a, Len(m.vRandom) + 1) \in [Id -> Nat]
      /\ Indexed(Append(m.vRandom, a), AtPlace(m.nRandomPos, a, Len(m.vRandom) + 1), m.mapInfo \cup {a})
    BY <1>0, <1>1, AppendOrder DEF Sound, Ordered
<1>3. /\ s \in AM
      /\ s.mapInfo = m.mapInfo \cup {a} /\ s.fInTried = m.fInTried
      /\ s.nRefCount = [m.nRefCount EXCEPT ![a] = @ + 1]
      /\ s.source = [m.source EXCEPT ![a] = b] /\ s.vRandom = Append(m.vRandom, a)
      /\ s.addr = [m.addr EXCEPT ![a] = x] /\ s.mapAddr = [m.mapAddr EXCEPT ![x] = a]
      /\ s.nIdCount = a + 1
      /\ s.nRandomPos = AtPlace(m.nRandomPos, a, Len(m.vRandom) + 1)
      /\ s.vvNew = m.vvNew /\ s.vvTried = m.vvTried
      /\ s.nNew = m.nNew + 1 /\ s.nTried = m.nTried
  <2> DEFINE r == [m.nRefCount EXCEPT ![a] = @ + 1]
             o == [m.source EXCEPT ![a] = b]
             d == [m.addr EXCEPT ![a] = x]
             c == [m.mapAddr EXCEPT ![x] = a]
             p == AtPlace(m.nRandomPos, a, Len(m.vRandom) + 1)
             v == Append(m.vRandom, a)
             t == [m EXCEPT !.nIdCount = a + 1, !.mapInfo = m.mapInfo \cup {a}, !.addr = d, !.source = o,
                            !.mapAddr = c, !.nRandomPos = p, !.vRandom = v,
                            !.nNew = m.nNew + 1, !.nRefCount = r]
  <2>1. s = t
    <3> DEFINE e == Create(m, x, b)
               u == [m EXCEPT !.nIdCount = a + 1, !.mapInfo = m.mapInfo \cup {a}, !.addr = d,
                              !.source = o, !.mapAddr = c, !.nRandomPos = p, !.vRandom = v]
    <3>1. e = u
        BY <1>1 DEF AM, Create, AtPlace
    <3>2. s = [[e EXCEPT !.nNew = @ + 1] EXCEPT !.nRefCount[a] = @ + 1]
        BY DEF Created
    <3> HIDE DEF e, s, o, d, c, p, v
    <3>3. [[u EXCEPT !.nNew = @ + 1] EXCEPT !.nRefCount[a] = @ + 1] = t
        BY <1>1 DEF AM
    <3> QED
        BY <3>1, <3>2, <3>3
  <2>2. r \in [Id -> Int] /\ o \in [Id -> NewBucket]
      BY <1>0, <1>1
  <2>3. m.mapInfo \cup {a} \in SUBSET Id /\ m.nNew + 1 \in Int /\ a + 1 \in Nat
      BY <1>0, <1>1
  <2>4. p \in [Id -> Nat] /\ v \in Seq(Id)
      BY <1>2
  <2>5. d \in [Id -> Addr \cup {None}] /\ c \in [Addr -> Id \cup {NoId}]
      BY <1>0, <1>1
  <2> HIDE DEF r, o, p, v, d, c
  <2>6. t \in AM
      BY <1>1, <2>2, <2>3, <2>4, <2>5 DEF AM
  <2>7. /\ t.mapInfo = m.mapInfo \cup {a} /\ t.fInTried = m.fInTried
        /\ t.nRefCount = r /\ t.source = o /\ t.vRandom = v /\ t.nRandomPos = p
        /\ t.addr = d /\ t.mapAddr = c /\ t.nIdCount = a + 1
        /\ t.vvNew = m.vvNew /\ t.vvTried = m.vvTried /\ t.nNew = m.nNew + 1 /\ t.nTried = m.nTried
      BY <1>1 DEF AM
  <2> QED
      BY <2>1, <2>6, <2>7 DEF r, o, p, v, d, c
<1> HIDE DEF s
<1>4. a \notin m.fInTried /\ m.nRefCount[a] = 0 /\ Cardinality(In(m, a)) = 0
  <2>1. m.nRefCount[a] = 0 /\ a \notin m.fInTried
      BY <1>0 DEF Sound, Counted, Totalled
  <2>2. m.nRefCount[a] = Cardinality(In(m, a)) + 0
      BY <1>0 DEF Sound, Counted
  <2> QED
      BY <2>1, <2>2, InFinite
<1>5. Counted(s, {a})
  <2> SUFFICES ASSUME NEW y \in Id
               PROVE  /\ s.nRefCount[y] = Cardinality(In(s, y)) + (IF y \in {a} THEN 1 ELSE 0)
                      /\ s.nRefCount[y] # 0 <=> y \in s.mapInfo \ s.fInTried
                      /\ s.nRefCount[y] <= BucketsPerAddress
      BY DEF Counted
  <2>1. /\ m.nRefCount[y] = Cardinality(In(m, y)) + 0
        /\ m.nRefCount[y] # 0 <=> y \in m.mapInfo \ m.fInTried
        /\ m.nRefCount[y] <= BucketsPerAddress
      BY DEF Sound, Counted
  <2>2. /\ Cardinality(In(m, y)) \in Nat /\ BucketsPerAddress \in Nat \ {0} /\ In(s, y) = In(m, y)
    <3>1. In(s, y) = In(m, y)
        BY <1>3 DEF In
    <3> QED
        BY <3>1, InFinite, AddrManAssumption
  <2>3. s.nRefCount[y] = m.nRefCount[y] + (IF y = a THEN 1 ELSE 0)
      BY <1>1, <1>3, <2>1, <2>2
  <2>4. CASE y = a
      BY <1>3, <1>4, <2>2, <2>3, <2>4
  <2>5. CASE y # a
      BY <1>3, <2>1, <2>2, <2>3, <2>5
  <2> QED
      BY <2>4, <2>5
<1>6. Totalled(s)
  <2>1. s.mapInfo \ s.fInTried = (m.mapInfo \ m.fInTried) \cup {a}
      BY <1>3, <1>4
  <2>2. IsFiniteSet(m.mapInfo \ m.fInTried)
      BY <1>1, Finite
  <2>3. Cardinality((m.mapInfo \ m.fInTried) \cup {a}) = Cardinality(m.mapInfo \ m.fInTried) + 1
      BY <1>0, <2>2, FS_AddElement
  <2> QED
      BY <1>3, <2>1, <2>3 DEF Sound, Totalled
<1>7. Ordered(s)
  <2>1. IsFiniteSet(m.mapInfo)
      BY <1>1, Finite
  <2>2. Cardinality(m.mapInfo \cup {a}) = Cardinality(m.mapInfo) + 1
      BY <1>0, <2>1, FS_AddElement
  <2>3. Len(Append(m.vRandom, a)) = Len(m.vRandom) + 1
      BY <1>1
  <2> QED
      BY <1>2, <1>3, <2>2, <2>3 DEF Sound, Ordered
<1>8. Addressed(s)
  <2>1. ASSUME NEW n \in s.mapInfo
        PROVE  s.addr[n] \in Addr /\ s.mapAddr[s.addr[n]] = n /\ n < s.nIdCount
    <3>1. CASE n = a
        BY <1>0, <1>1, <1>3, <3>1
    <3>2. CASE n # a
      <4>1. n \in m.mapInfo /\ n \in Id /\ n \in Nat
          BY <1>1, <1>3, <3>2, Domains
      <4>2. m.addr[n] \in Addr /\ m.mapAddr[m.addr[n]] = n /\ n < m.nIdCount
          BY <4>1 DEF Sound, Addressed
      <4>3. s.addr[n] = m.addr[n] /\ m.addr[n] # x
          BY <1>0, <1>1, <1>3, <3>2, <4>1, <4>2, Domains
      <4> QED
          BY <1>1, <1>3, <4>1, <4>2, <4>3
    <3> QED
        BY <3>1, <3>2
  <2>2. ASSUME NEW y \in Addr, s.mapAddr[y] # NoId
        PROVE  s.mapAddr[y] \in s.mapInfo /\ s.addr[s.mapAddr[y]] = y
    <3>1. CASE y = x
        BY <1>0, <1>1, <1>3, <3>1
    <3>2. CASE y # x
      <4>1. s.mapAddr[y] = m.mapAddr[y]
          BY <1>1, <1>3, <3>2
      <4>2. m.mapAddr[y] \in m.mapInfo /\ m.addr[m.mapAddr[y]] = y
          BY <2>2, <4>1 DEF Sound, Addressed
      <4> QED
          BY <1>0, <1>1, <1>3, <4>1, <4>2
    <3> QED
        BY <3>1, <3>2
  <2>3. s.nIdCount <= MaxId
      BY <1>1, <1>3, AddrManAssumption
  <2> QED
      BY <2>1, <2>2, <2>3 DEF Addressed
<1>9. Placed(s) /\ Bounded(s)
  <2>1. \A y \in Id : y # a => s.addr[y] = m.addr[y]
      BY <1>1, <1>3
  <2>2. Placed(s)
      BY <1>3, <1>4, <2>1 DEF Sound, Placed
  <2> QED
      BY <1>3, <2>2 DEF Sound, Bounded
<1>10. \A e \in m.mapInfo : e \in s.mapInfo /\ s.addr[e] = m.addr[e]
    BY <1>0, <1>1, <1>3
<1> QED
    BY <1>0, <1>3, <1>5, <1>6, <1>7, <1>8, <1>9, <1>10 DEF Sound, s

\* a counted reference goes into its bucket, for which another entry may have to leave
LEMMA BucketSound ==
    ASSUME NEW m, NEW a \in Id, Sound(m, {a}), NEW b \in NewBucket, a \notin m.vvNew[b],
           NEW s \in IF Cardinality(m.vvNew[b]) = NewBucketSize THEN ShrinkNew(m, b) ELSE {m}
    PROVE  /\ Sound(Join(s, a, b), {}) /\ Join(s, a, b).fInTried = m.fInTried
           /\ SameTried(m, Join(s, a, b))
<1>1. m \in AM
    BY DEF Sound
<1>2. /\ Cardinality(m.vvNew[b]) \in Nat /\ NewBucketSize \in Nat
      /\ Cardinality(m.vvNew[b]) <= NewBucketSize
    BY <1>1, Finite, AddrManAssumption DEF Sound, Bounded
<1>3. /\ Sound(s, {a}) /\ a \notin s.vvNew[b] /\ s.fInTried = m.fInTried
      /\ Cardinality(s.vvNew[b]) < NewBucketSize
      /\ SameTried(m, s)
  <2>1. CASE Cardinality(m.vvNew[b]) = NewBucketSize
    <3>1. s \in ShrinkNew(m, b)
        BY <2>1
    <3>2. /\ Sound(s, {a}) /\ a \notin s.vvNew[b] /\ s.fInTried = m.fInTried
          /\ Cardinality(s.vvNew[b]) = Cardinality(m.vvNew[b]) - 1
          /\ SameTried(m, s)
        BY <3>1, ShrinkSound
    <3> QED
        BY <1>2, <2>1, <3>2
  <2>2. CASE Cardinality(m.vvNew[b]) # NewBucketSize
      BY <1>2, <2>2 DEF SameTried
  <2> QED
      BY <2>1, <2>2
<1>4. /\ Sound(Join(s, a, b), {}) /\ Join(s, a, b).fInTried = s.fInTried
      /\ Join(s, a, b).addr = s.addr
    BY <1>3, JoinSound
<1> QED
    BY <1>3, <1>4 DEF SameTried

LEMMA AddSound ==
    ASSUME Sound(am, {}), NEW x \in Addr, NEW b \in NewBucket, Add(x, b)
    PROVE  Sound(am', {}) /\ am'.fInTried = am.fInTried
           /\ SameTried(am, am')
<1>1. CASE ~Known(am, x)
  <2>0. PICK a : a = am.nIdCount
      OBVIOUS
  <2> DEFINE more == Created(am, x, b)
             made == [Create(am, x, b) EXCEPT !.nNew = @ + 1]
  <2>1. /\ am.nIdCount < MaxId /\ am' \in Referenced(made, a, b)
      BY <1>1, <2>0 DEF Add
  <2>2. /\ Sound(more, {a}) /\ more.vvNew = am.vvNew /\ more.fInTried = am.fInTried
        /\ a \in Id /\ a \notin am.mapInfo
        /\ \A e \in am.mapInfo : more.addr[e] = am.addr[e]
      BY <1>1, <2>0, <2>1, CreateSound
  <2>3. a \notin more.vvNew[b] /\ made.vvNew = more.vvNew
    <3>1. a \notin am.vvNew[b]
        BY <2>2, InBucket
    <3>2. made.vvNew = am.vvNew
        BY DEF Sound, AM, Create
    <3> QED
        BY <2>2, <3>1, <3>2
  <2>4. PICK s \in IF Cardinality(more.vvNew[b]) = NewBucketSize THEN ShrinkNew(more, b) ELSE {more} :
            am' = Join(s, a, b)
    <3>1. more = [made EXCEPT !.nRefCount[a] = @ + 1]
        BY <2>0 DEF Created
    <3> HIDE DEF made, more
    <3>2. PICK s \in IF Cardinality(made.vvNew[b]) = NewBucketSize THEN ShrinkNew(more, b) ELSE {more} :
              am' = [s EXCEPT !.vvNew[b] = @ \cup {a}]
        BY <2>1, <3>1 DEF Referenced
    <3> QED
        BY <2>3, <3>2 DEF Join
  <2> HIDE DEF more
  <2>5. /\ Sound(Join(s, a, b), {}) /\ Join(s, a, b).fInTried = more.fInTried
        /\ SameTried(more, Join(s, a, b))
      BY <2>2, <2>3, <2>4, BucketSound
  <2> QED
      BY <2>2, <2>4, <2>5 DEF Sound, Totalled, SameTried
<1>2. CASE Known(am, x)
  <2>0. PICK a : a = am.mapAddr[x]
      OBVIOUS
  <2> DEFINE more == [am EXCEPT !.nRefCount[a] = @ + 1]
  <2>1. /\ a \notin am.fInTried /\ am.nRefCount[a] # BucketsPerAddress /\ a \notin am.vvNew[b]
        /\ am' \in Referenced(am, a, b) /\ a \in am.mapInfo /\ a \in Id
      BY <1>2, <2>0 DEF Add, Known, Sound, AM
  <2>2. Sound(more, {a}) /\ more.vvNew = am.vvNew /\ more.fInTried = am.fInTried /\ more.addr = am.addr
      BY <2>1, CountSound
  <2>3. PICK s \in IF Cardinality(am.vvNew[b]) = NewBucketSize THEN ShrinkNew(more, b) ELSE {more} :
            am' = Join(s, a, b)
      BY <2>1 DEF Referenced, Join
  <2> HIDE DEF more
  <2>4. /\ Sound(Join(s, a, b), {}) /\ Join(s, a, b).fInTried = more.fInTried
        /\ SameTried(more, Join(s, a, b))
      BY <2>1, <2>2, <2>3, BucketSound
  <2> QED
      BY <2>2, <2>3, <2>4 DEF SameTried
<1> QED
    BY <1>1, <1>2

-----------------------------------------------------------------------------
(* Tried entries *)

\* the entry has left every new bucket
LEMMA UntieFields ==
    ASSUME NEW m, Sound(m, {}), NEW a \in Id
    PROVE  LET out == Untie(m, a) IN
           /\ out \in AM
           /\ out.mapInfo = m.mapInfo /\ out.fInTried = m.fInTried
           /\ out.nRefCount = [m.nRefCount EXCEPT ![a] = 0]
           /\ out.source = m.source /\ out.addr = m.addr
      /\ out.mapAddr = m.mapAddr /\ out.nIdCount = m.nIdCount /\ out.vRandom = m.vRandom /\ out.nRandomPos = m.nRandomPos
           /\ out.vvNew = [b \in NewBucket |-> m.vvNew[b] \ {a}] /\ out.vvTried = m.vvTried
           /\ out.nNew = m.nNew - 1 /\ out.nTried = m.nTried
           /\ In(out, a) = {} /\ \A x : x # a => In(out, x) = In(m, x)
<1> DEFINE out == Untie(m, a)
           v == [b \in NewBucket |-> m.vvNew[b] \ {a}]
           r == [m.nRefCount EXCEPT ![a] = 0]
           t == [m EXCEPT !.vvNew = v, !.nRefCount = r, !.nNew = m.nNew - 1]
<1>1. /\ m \in AM /\ m.nRefCount \in [Id -> Int] /\ m.vvNew \in [NewBucket -> SUBSET Id]
      /\ m.nNew \in Int
    BY DEF Sound, AM
<1>2. m.nRefCount[a] = Cardinality(In(m, a)) /\ Cardinality(In(m, a)) \in Nat
    BY InFinite DEF Sound, Counted
<1>3. m.nRefCount[a] - Cardinality({b \in NewBucket : a \in m.vvNew[b]}) = 0
    BY <1>2 DEF In
<1>4. out = t
    BY <1>1, <1>3 DEF AM, Untie
<1>5. v \in [NewBucket -> SUBSET Id] /\ r \in [Id -> Int] /\ m.nNew - 1 \in Int
    BY <1>1
<1>6. \A b \in NewBucket : v[b] = m.vvNew[b] \ {a}
    OBVIOUS
<1> HIDE DEF v, r, out
<1>7. /\ t \in AM
      /\ t.mapInfo = m.mapInfo /\ t.fInTried = m.fInTried /\ t.nRefCount = r
      /\ t.source = m.source /\ t.addr = m.addr
      /\ t.mapAddr = m.mapAddr /\ t.nIdCount = m.nIdCount /\ t.vRandom = m.vRandom /\ t.nRandomPos = m.nRandomPos
      /\ t.vvNew = v /\ t.vvTried = m.vvTried /\ t.nNew = m.nNew - 1 /\ t.nTried = m.nTried
    BY <1>1, <1>5 DEF AM
<1> HIDE DEF t
<1>8. In(out, a) = {} /\ \A x : x # a => In(out, x) = In(m, x)
    BY <1>4, <1>6, <1>7 DEF In
<1> QED
    BY <1>4, <1>7, <1>8 DEF out, v, r

\* there is room in the tried bucket
Tried(out, a, k) ==
    [out EXCEPT !.vvTried[k] = @ \cup {a}, !.fInTried = @ \cup {a}, !.nTried = @ + 1]

LEMMA TriedSound ==
    ASSUME NEW m, Sound(m, {}), NEW a \in Id, a \in m.mapInfo, a \notin m.fInTried,
           NEW k, k = GetTriedBucket[m.addr[a]], Cardinality(m.vvTried[k]) < TriedBucketSize
    PROVE  LET s == Tried(Untie(m, a), a, k) IN
           Sound(s, {}) /\ s.mapInfo = m.mapInfo /\ s.fInTried = m.fInTried \cup {a} /\ s.addr = m.addr
<1> DEFINE out == Untie(m, a)
           s == Tried(out, a, k)
<1>1. /\ m \in AM /\ m.nRefCount \in [Id -> Int] /\ m.vvTried \in [TriedBucket -> SUBSET Id]
      /\ m.vvNew \in [NewBucket -> SUBSET Id] /\ m.fInTried \in SUBSET Id /\ m.nTried \in Int
      /\ k \in TriedBucket
    BY AddrManAssumption DEF Sound, AM, Addressed
<1>2. /\ out \in AM
      /\ out.mapInfo = m.mapInfo /\ out.fInTried = m.fInTried
      /\ out.nRefCount = [m.nRefCount EXCEPT ![a] = 0]
      /\ out.source = m.source /\ out.addr = m.addr
      /\ out.mapAddr = m.mapAddr /\ out.nIdCount = m.nIdCount /\ out.vRandom = m.vRandom /\ out.nRandomPos = m.nRandomPos
      /\ out.vvNew = [b \in NewBucket |-> m.vvNew[b] \ {a}] /\ out.vvTried = m.vvTried
      /\ out.nNew = m.nNew - 1 /\ out.nTried = m.nTried
      /\ In(out, a) = {} /\ \A x : x # a => In(out, x) = In(m, x)
    BY UntieFields
<1> HIDE DEF out
<1>3. /\ s \in AM
      /\ s.mapInfo = m.mapInfo /\ s.fInTried = m.fInTried \cup {a}
      /\ s.nRefCount = [m.nRefCount EXCEPT ![a] = 0]
      /\ s.source = m.source /\ s.addr = m.addr
      /\ s.mapAddr = m.mapAddr /\ s.nIdCount = m.nIdCount /\ s.vRandom = m.vRandom /\ s.nRandomPos = m.nRandomPos
      /\ s.vvNew = [b \in NewBucket |-> m.vvNew[b] \ {a}]
      /\ s.vvTried = [m.vvTried EXCEPT ![k] = @ \cup {a}]
      /\ s.nNew = m.nNew - 1 /\ s.nTried = m.nTried + 1
      /\ s.vvNew = out.vvNew
  <2> DEFINE v == [m.vvTried EXCEPT ![k] = @ \cup {a}]
             t == [out EXCEPT !.vvTried = v, !.fInTried = m.fInTried \cup {a}, !.nTried = m.nTried + 1]
  <2>1. s = t
      BY <1>2 DEF AM, Tried
  <2>2. v \in [TriedBucket -> SUBSET Id] /\ m.fInTried \cup {a} \in SUBSET Id /\ m.nTried + 1 \in Int
      BY <1>1
  <2> HIDE DEF v
  <2>3. t \in AM
      BY <1>2, <2>2 DEF AM
  <2>4. /\ t.mapInfo = out.mapInfo /\ t.fInTried = m.fInTried \cup {a} /\ t.nRefCount = out.nRefCount
        /\ t.source = out.source /\ t.addr = out.addr
      /\ t.mapAddr = out.mapAddr /\ t.nIdCount = out.nIdCount /\ t.vRandom = out.vRandom /\ t.nRandomPos = out.nRandomPos
        /\ t.vvNew = out.vvNew /\ t.vvTried = v /\ t.nNew = out.nNew /\ t.nTried = m.nTried + 1
      BY <1>2 DEF AM
  <2>5. v = [m.vvTried EXCEPT ![k] = @ \cup {a}]
      BY DEF v
  <2> HIDE DEF t, s
  <2> QED
      BY <1>2, <2>1, <2>3, <2>4, <2>5
<1> HIDE DEF s
<1>4. \A x : In(s, x) = In(out, x)
    BY <1>3 DEF In
<1>5. Counted(s, {})
  <2> SUFFICES ASSUME NEW x \in Id
               PROVE  /\ s.nRefCount[x] = Cardinality(In(s, x)) + 0
                      /\ s.nRefCount[x] # 0 <=> x \in s.mapInfo \ s.fInTried
                      /\ s.nRefCount[x] <= BucketsPerAddress
      BY DEF Counted
  <2>1. CASE x = a
    <3>1. In(s, x) = {} /\ Cardinality({}) = 0
        BY <1>2, <1>4, <2>1, FS_EmptySet
    <3>2. s.nRefCount[x] = 0 /\ x \in s.fInTried
        BY <1>1, <1>3, <2>1
    <3>3. 0 <= BucketsPerAddress
        BY AddrManAssumption
    <3> QED
        BY <3>1, <3>2, <3>3
  <2>2. CASE x # a
    <3>1. s.nRefCount[x] = m.nRefCount[x] /\ In(s, x) = In(m, x)
        BY <1>1, <1>2, <1>3, <1>4, <2>2
    <3>2. /\ m.nRefCount[x] = Cardinality(In(m, x)) + 0
          /\ m.nRefCount[x] # 0 <=> x \in m.mapInfo \ m.fInTried
          /\ m.nRefCount[x] <= BucketsPerAddress
        BY DEF Sound, Counted
    <3> QED
        BY <1>3, <2>2, <3>1, <3>2
  <2> QED
      BY <2>1, <2>2
<1>6. Placed(s)
  <2> SUFFICES ASSUME NEW x \in Id, NEW j \in TriedBucket
               PROVE  x \in s.vvTried[j] <=> x \in s.fInTried /\ j = GetTriedBucket[s.addr[x]]
      BY DEF Placed
  <2>1. x \in m.vvTried[j] <=> x \in m.fInTried /\ j = GetTriedBucket[m.addr[x]]
      BY DEF Sound, Placed
  <2>2. s.vvTried[j] = IF j = k THEN m.vvTried[j] \cup {a} ELSE m.vvTried[j]
      BY <1>1, <1>3
  <2> QED
      BY <1>3, <2>1, <2>2
<1>7. Totalled(s)
  <2>1. IsFiniteSet(m.mapInfo \ m.fInTried) /\ IsFiniteSet(m.fInTried)
      BY <1>1, Finite
  <2>2. s.mapInfo \ s.fInTried = (m.mapInfo \ m.fInTried) \ {a}
      BY <1>3
  <2>3. Cardinality((m.mapInfo \ m.fInTried) \ {a}) = Cardinality(m.mapInfo \ m.fInTried) - 1
      BY <2>1, FS_RemoveElement
  <2>4. Cardinality(m.fInTried \cup {a}) = Cardinality(m.fInTried) + 1
      BY <2>1, FS_AddElement
  <2> QED
      BY <1>3, <2>2, <2>3, <2>4 DEF Sound, Totalled
<1>8. Bounded(s)
  <2>1. ASSUME NEW b \in NewBucket PROVE Cardinality(s.vvNew[b]) <= NewBucketSize
    <3>1. s.vvNew[b] \in SUBSET m.vvNew[b]
        BY <1>1, <1>3
    <3>2. IsFiniteSet(m.vvNew[b]) /\ Cardinality(m.vvNew[b]) \in Nat /\ Cardinality(m.vvNew[b]) <= NewBucketSize
        BY <1>1, Finite DEF Sound, Bounded
    <3>3. Cardinality(s.vvNew[b]) <= Cardinality(m.vvNew[b]) /\ Cardinality(s.vvNew[b]) \in Nat
        BY <3>1, <3>2, FS_Subset, FS_CardinalityType
    <3> QED
        BY <3>2, <3>3, AddrManAssumption
  <2>2. ASSUME NEW j \in TriedBucket PROVE Cardinality(s.vvTried[j]) <= TriedBucketSize
    <3>1. IsFiniteSet(m.vvTried[j]) /\ Cardinality(m.vvTried[j]) \in Nat /\ Cardinality(m.vvTried[j]) <= TriedBucketSize
        BY <1>1, Finite DEF Sound, Bounded
    <3>2. CASE j = k
      <4>1. s.vvTried[j] = m.vvTried[j] \cup {a}
          BY <1>1, <1>3, <3>2
      <4>2. a \notin m.vvTried[j]
          BY DEF Sound, Placed
      <4>3. Cardinality(m.vvTried[j] \cup {a}) = Cardinality(m.vvTried[j]) + 1
          BY <3>1, <4>2, FS_AddElement
      <4>4. Cardinality(m.vvTried[j]) < TriedBucketSize
          BY <3>2
      <4> QED
          BY <3>1, <4>1, <4>3, <4>4, AddrManAssumption
    <3>3. CASE j # k
        BY <1>1, <1>3, <3>1, <3>3
    <3> QED
        BY <3>2, <3>3
  <2> QED
      BY <2>1, <2>2 DEF Bounded
<1>9. Ordered(s) /\ Addressed(s)
    BY <1>3 DEF Sound, Ordered, Addressed
<1> QED
    BY <1>3, <1>5, <1>6, <1>7, <1>8, <1>9 DEF Sound, s, out

\* the tried bucket is full: one of its entries goes back to a new bucket
Moved(vvTried, k, a, e) == [vvTried EXCEPT ![k] = (@ \ {e}) \cup {a}]

LEMMA ReplaceFields ==
    ASSUME NEW out \in AM, NEW a \in Id, out.addr[a] \in Addr, NEW e \in Id, NEW nOrigin \in NewBucket
    PROVE  LET s == Replace(out, a, e, nOrigin)
               g == Evict(out, e, nOrigin) IN
           /\ s \in AM /\ g \in NewBucket /\ GetTriedBucket[out.addr[a]] \in TriedBucket
           /\ s.mapInfo = out.mapInfo /\ s.fInTried = (out.fInTried \ {e}) \cup {a}
           /\ s.nRefCount = [out.nRefCount EXCEPT ![e] = 1]
           /\ s.source = out.source /\ s.addr = out.addr
      /\ s.mapAddr = out.mapAddr /\ s.nIdCount = out.nIdCount /\ s.vRandom = out.vRandom /\ s.nRandomPos = out.nRandomPos
           /\ s.vvNew = Joined(out.vvNew, g, e)
           /\ s.vvTried = Moved(out.vvTried, GetTriedBucket[out.addr[a]], a, e)
           /\ s.nNew = out.nNew + 1 /\ s.nTried = out.nTried
<1> DEFINE s == Replace(out, a, e, nOrigin)
           g == Evict(out, e, nOrigin)
           k == GetTriedBucket[out.addr[a]]
           v == Joined(out.vvNew, g, e)
           w == Moved(out.vvTried, k, a, e)
           r == [out.nRefCount EXCEPT ![e] = 1]
           f == (out.fInTried \ {e}) \cup {a}
           t == [out EXCEPT !.vvTried = w, !.fInTried = f, !.nRefCount = r, !.vvNew = v,
                            !.nNew = out.nNew + 1]
<1>1. /\ out.nRefCount \in [Id -> Int] /\ out.vvTried \in [TriedBucket -> SUBSET Id]
      /\ out.vvNew \in [NewBucket -> SUBSET Id] /\ out.fInTried \in SUBSET Id
      /\ out.source \in [Id -> NewBucket] /\ out.nNew \in Int /\ k \in TriedBucket
    BY AddrManAssumption DEF AM
<1>2. g \in NewBucket
    BY <1>1 DEF Evict
<1>3. s = t
    BY <1>1 DEF AM, Replace, Joined, Moved
<1> HIDE DEF s, g, k
<1>4. v \in [NewBucket -> SUBSET Id]
    BY <1>1, <1>2 DEF Joined
<1>5. w \in [TriedBucket -> SUBSET Id]
    BY <1>1 DEF Moved
<1>6. r \in [Id -> Int] /\ f \in SUBSET Id /\ out.nNew + 1 \in Int
    BY <1>1
<1> HIDE DEF v, w, r, f
<1>7. t \in AM
    BY <1>4, <1>5, <1>6 DEF AM
<1>8. /\ t.mapInfo = out.mapInfo /\ t.fInTried = f /\ t.nRefCount = r
      /\ t.source = out.source /\ t.addr = out.addr
      /\ t.mapAddr = out.mapAddr /\ t.nIdCount = out.nIdCount /\ t.vRandom = out.vRandom /\ t.nRandomPos = out.nRandomPos
      /\ t.vvNew = v /\ t.vvTried = w /\ t.nNew = out.nNew + 1 /\ t.nTried = out.nTried
    BY DEF AM
<1> HIDE DEF t
<1>9. f = (out.fInTried \ {e}) \cup {a} /\ r = [out.nRefCount EXCEPT ![e] = 1]
    BY DEF f, r
<1> QED
    BY <1>1, <1>2, <1>3, <1>7, <1>8, <1>9 DEF s, g, k, v, w

LEMMA ReplaceSound ==
    ASSUME NEW m, Sound(m, {}), NEW a \in Id, a \in m.mapInfo, a \notin m.fInTried,
           NEW nOrigin \in NewBucket, a \in m.vvNew[nOrigin],
           NEW e \in m.vvTried[GetTriedBucket[m.addr[a]]]
    PROVE  LET s == Replace(Untie(m, a), a, e, nOrigin) IN
           Sound(s, {}) /\ s.mapInfo = m.mapInfo /\ s.addr = m.addr
<1> DEFINE out == Untie(m, a)
           g == Evict(out, e, nOrigin)
           s == Replace(out, a, e, nOrigin)
           k == GetTriedBucket[m.addr[a]]
<1>1. /\ m \in AM /\ m.nRefCount \in [Id -> Int] /\ m.vvTried \in [TriedBucket -> SUBSET Id]
      /\ m.vvNew \in [NewBucket -> SUBSET Id] /\ m.fInTried \in SUBSET Id /\ m.nNew \in Int
      /\ k \in TriedBucket /\ m.mapInfo \in SUBSET Id /\ m.addr[a] \in Addr
    BY AddrManAssumption DEF Sound, AM, Addressed
<1>2. /\ out \in AM
      /\ out.mapInfo = m.mapInfo /\ out.fInTried = m.fInTried
      /\ out.nRefCount = [m.nRefCount EXCEPT ![a] = 0]
      /\ out.source = m.source /\ out.addr = m.addr
      /\ out.mapAddr = m.mapAddr /\ out.nIdCount = m.nIdCount /\ out.vRandom = m.vRandom /\ out.nRandomPos = m.nRandomPos
      /\ out.vvNew = [b \in NewBucket |-> m.vvNew[b] \ {a}] /\ out.vvTried = m.vvTried
      /\ out.nNew = m.nNew - 1 /\ out.nTried = m.nTried
      /\ In(out, a) = {} /\ \A x : x # a => In(out, x) = In(m, x)
    BY UntieFields
<1>3. e \in Id /\ e \in m.fInTried /\ e # a /\ GetTriedBucket[m.addr[e]] = k
    BY <1>1 DEF Sound, Placed
<1> HIDE DEF out
<1>4. /\ s \in AM /\ g \in NewBucket
      /\ s.mapInfo = m.mapInfo /\ s.fInTried = (m.fInTried \ {e}) \cup {a}
      /\ s.nRefCount = [out.nRefCount EXCEPT ![e] = 1]
      /\ s.source = m.source /\ s.addr = m.addr
      /\ s.mapAddr = m.mapAddr /\ s.nIdCount = m.nIdCount /\ s.vRandom = m.vRandom /\ s.nRandomPos = m.nRandomPos
      /\ s.vvNew = Joined(out.vvNew, g, e)
      /\ s.vvTried = Moved(m.vvTried, k, a, e)
      /\ s.nNew = m.nNew - 1 + 1 /\ s.nTried = m.nTried
    BY <1>1, <1>2, <1>3, ReplaceFields
<1>5. Cardinality(out.vvNew[g]) < NewBucketSize
  <2>1. /\ IsFiniteSet(m.vvNew[nOrigin]) /\ Cardinality(m.vvNew[nOrigin]) \in Nat
        /\ Cardinality(m.vvNew[nOrigin]) <= NewBucketSize
      BY <1>1, Finite DEF Sound, Bounded
  <2>2. Cardinality(m.vvNew[nOrigin] \ {a}) = Cardinality(m.vvNew[nOrigin]) - 1
      BY <2>1, FS_RemoveElement
  <2>3. out.vvNew[nOrigin] = m.vvNew[nOrigin] \ {a}
      BY <1>2
  <2>4. Cardinality(out.vvNew[nOrigin]) < NewBucketSize
      BY <2>1, <2>2, <2>3, AddrManAssumption
  <2> QED
      BY <2>4 DEF Evict
<1> HIDE DEF s, g
<1>6. In(m, e) = {} /\ e \notin out.vvNew[g]
  <2>1. m.nRefCount[e] = 0 /\ m.nRefCount[e] = Cardinality(In(m, e)) + 0
      BY <1>3 DEF Sound, Counted
  <2>2. In(m, e) = {}
      BY <2>1, InFinite, FS_EmptySet
  <2> QED
      BY <1>2, <1>4, <2>2 DEF In
<1>7. \A x \in Id : Cardinality(In(s, x)) = Cardinality(In(out, x)) + (IF x = e THEN 1 ELSE 0)
  <2> TAKE x \in Id
  <2> QED
      BY <1>2, <1>4, <1>6, InJoin
<1>8. Counted(s, {})
  <2> SUFFICES ASSUME NEW x \in Id
               PROVE  /\ s.nRefCount[x] = Cardinality(In(s, x)) + 0
                      /\ s.nRefCount[x] # 0 <=> x \in s.mapInfo \ s.fInTried
                      /\ s.nRefCount[x] <= BucketsPerAddress
      BY DEF Counted
  <2>1. CASE x = a
    <3>1. In(out, x) = {} /\ Cardinality({}) = 0
        BY <1>2, <2>1, FS_EmptySet
    <3>2. Cardinality(In(s, x)) = 0
        BY <1>3, <1>7, <2>1, <3>1
    <3>3. s.nRefCount[x] = 0 /\ x \in s.fInTried
        BY <1>1, <1>2, <1>3, <1>4, <2>1
    <3>4. 0 <= BucketsPerAddress
        BY AddrManAssumption
    <3> QED
        BY <3>2, <3>3, <3>4
  <2>2. CASE x = e
    <3>1. Cardinality(In(out, x)) = 0
        BY <1>2, <1>3, <1>6, <2>2, FS_EmptySet
    <3>2. Cardinality(In(s, x)) = 1
        BY <1>7, <2>2, <3>1
    <3>3. s.nRefCount[x] = 1 /\ x \notin s.fInTried
        BY <1>1, <1>2, <1>3, <1>4, <2>2
    <3>4. x \in s.mapInfo
        BY <1>3, <1>4, <2>2 DEF Sound, Totalled
    <3>5. 1 <= BucketsPerAddress
        BY AddrManAssumption
    <3> QED
        BY <3>2, <3>3, <3>4, <3>5
  <2>3. CASE x # a /\ x # e
    <3>1. s.nRefCount[x] = m.nRefCount[x]
        BY <1>1, <1>2, <1>4, <2>3
    <3>2. Cardinality(In(m, x)) \in Nat
        BY InFinite
    <3>3. Cardinality(In(s, x)) = Cardinality(In(m, x))
        BY <1>2, <1>7, <2>3, <3>2
    <3>4. /\ m.nRefCount[x] = Cardinality(In(m, x)) + 0
          /\ m.nRefCount[x] # 0 <=> x \in m.mapInfo \ m.fInTried
          /\ m.nRefCount[x] <= BucketsPerAddress
        BY DEF Sound, Counted
    <3> QED
        BY <1>4, <2>3, <3>1, <3>3, <3>4
  <2> QED
      BY <2>1, <2>2, <2>3
<1>9. Placed(s)
  <2> SUFFICES ASSUME NEW x \in Id, NEW j \in TriedBucket
               PROVE  x \in s.vvTried[j] <=> x \in s.fInTried /\ j = GetTriedBucket[s.addr[x]]
      BY DEF Placed
  <2>1. x \in m.vvTried[j] <=> x \in m.fInTried /\ j = GetTriedBucket[m.addr[x]]
      BY DEF Sound, Placed
  <2>2. s.vvTried[j] = IF j = k THEN (m.vvTried[j] \ {e}) \cup {a} ELSE m.vvTried[j]
      BY <1>1, <1>4 DEF Moved
  <2> QED
      BY <1>3, <1>4, <2>1, <2>2
<1>10. Totalled(s)
  <2>1. IsFiniteSet(m.mapInfo \ m.fInTried) /\ IsFiniteSet(m.fInTried)
      BY <1>1, Finite
  <2> DEFINE T == m.fInTried \ {e}
             N == (m.mapInfo \ m.fInTried) \ {a}
  <2>2. Cardinality(T) = Cardinality(m.fInTried) - 1 /\ IsFiniteSet(T)
      BY <1>3, <2>1, FS_RemoveElement
  <2>3. Cardinality(N) = Cardinality(m.mapInfo \ m.fInTried) - 1 /\ IsFiniteSet(N)
      BY <2>1, FS_RemoveElement
  <2>4. a \notin T /\ e \notin N
      BY <1>3
  <2>5. s.fInTried = T \cup {a}
      BY <1>4
  <2>6. s.mapInfo \ s.fInTried = N \cup {e}
    <3>1. e \in m.mapInfo
        BY <1>3 DEF Sound, Totalled
    <3> QED
        BY <1>3, <1>4, <3>1
  <2>7. /\ Cardinality(m.fInTried) \in Nat /\ Cardinality(m.mapInfo \ m.fInTried) \in Nat
        /\ m.nTried = Cardinality(m.fInTried) /\ m.nNew = Cardinality(m.mapInfo \ m.fInTried)
      BY <2>1, FS_CardinalityType DEF Sound, Totalled
  <2> HIDE DEF T, N
  <2>8. Cardinality(T \cup {a}) = Cardinality(T) + 1
      BY <2>2, <2>4, FS_AddElement
  <2>9. Cardinality(N \cup {e}) = Cardinality(N) + 1
      BY <2>3, <2>4, FS_AddElement
  <2>10. s.fInTried \subseteq s.mapInfo
      BY <1>4 DEF Sound, Totalled
  <2>11. s.nTried = m.nTried /\ s.nNew = m.nNew - 1 + 1
      BY <1>4
  <2>12. s.nTried = Cardinality(s.fInTried)
      BY <2>2, <2>5, <2>7, <2>8, <2>11
  <2>13. s.nNew = Cardinality(s.mapInfo \ s.fInTried)
      BY <2>3, <2>6, <2>7, <2>9, <2>11
  <2> QED
      BY <2>10, <2>12, <2>13 DEF Totalled
<1>11. Bounded(s)
  <2>1. ASSUME NEW b \in NewBucket PROVE Cardinality(s.vvNew[b]) <= NewBucketSize
    <3>1. out.vvNew[b] \in SUBSET m.vvNew[b] /\ out.vvNew \in [NewBucket -> SUBSET Id]
        BY <1>1, <1>2
    <3>2. IsFiniteSet(m.vvNew[b]) /\ Cardinality(m.vvNew[b]) \in Nat /\ Cardinality(m.vvNew[b]) <= NewBucketSize
        BY <1>1, Finite DEF Sound, Bounded
    <3>3. /\ Cardinality(out.vvNew[b]) <= Cardinality(m.vvNew[b]) /\ Cardinality(out.vvNew[b]) \in Nat
          /\ IsFiniteSet(out.vvNew[b])
        BY <3>1, <3>2, FS_Subset, FS_CardinalityType
    <3>4. CASE b = g
      <4>1. s.vvNew[b] = out.vvNew[b] \cup {e} /\ e \notin out.vvNew[b]
          BY <1>4, <1>6, <3>1, <3>4 DEF Joined
      <4>2. Cardinality(out.vvNew[b] \cup {e}) = Cardinality(out.vvNew[b]) + 1
          BY <3>3, <4>1, FS_AddElement
      <4>3. Cardinality(out.vvNew[b]) < NewBucketSize
          BY <1>5, <3>4
      <4> QED
          BY <3>3, <4>1, <4>2, <4>3, AddrManAssumption
    <3>5. CASE b # g
      <4>1. s.vvNew[b] = out.vvNew[b]
          BY <1>4, <3>1, <3>5 DEF Joined
      <4> QED
          BY <3>2, <3>3, <4>1, AddrManAssumption
    <3> QED
        BY <3>4, <3>5
  <2>2. ASSUME NEW j \in TriedBucket PROVE Cardinality(s.vvTried[j]) <= TriedBucketSize
    <3>1. IsFiniteSet(m.vvTried[j]) /\ Cardinality(m.vvTried[j]) \in Nat /\ Cardinality(m.vvTried[j]) <= TriedBucketSize
        BY <1>1, Finite DEF Sound, Bounded
    <3>2. CASE j = k
      <4> DEFINE T == m.vvTried[j] \ {e}
      <4>1. s.vvTried[j] = T \cup {a}
          BY <1>1, <1>4, <3>2 DEF Moved
      <4>2. a \notin T
          BY DEF Sound, Placed
      <4>3. Cardinality(T) = Cardinality(m.vvTried[j]) - 1 /\ IsFiniteSet(T)
          BY <3>1, <3>2, FS_RemoveElement
      <4> HIDE DEF T
      <4>4. Cardinality(T \cup {a}) = Cardinality(T) + 1
          BY <4>2, <4>3, FS_AddElement
      <4> QED
          BY <3>1, <4>1, <4>3, <4>4
    <3>3. CASE j # k
        BY <1>1, <1>4, <3>1, <3>3 DEF Moved
    <3> QED
        BY <3>2, <3>3
  <2> QED
      BY <2>1, <2>2 DEF Bounded
<1>12. Ordered(s) /\ Addressed(s)
    BY <1>4 DEF Sound, Ordered, Addressed
<1> QED
    BY <1>4, <1>8, <1>9, <1>10, <1>11, <1>12 DEF Sound, s, out

LEMMA GoodSound ==
    ASSUME Sound(am, {}), NEW x \in Addr, NEW b \in NewBucket, Good(x, b)
    PROVE  Sound(am', {}) /\ am'.mapInfo = am.mapInfo /\ am'.addr = am.addr
<1>0. PICK a : a = am.mapAddr[x]
    OBVIOUS
<1> DEFINE k == GetTriedBucket[am.addr[a]]
<1>1. /\ a \in am.mapInfo /\ a \notin am.fInTried /\ a \in am.vvNew[b] /\ a \in Id
      /\ am' \in MakeTried(am, a, b)
    BY <1>0 DEF Good, Known, Sound, AM
<1>2. CASE Cardinality(am.vvTried[k]) < TriedBucketSize
  <2>1. am' = Tried(Untie(am, a), a, k)
      BY <1>1, <1>2 DEF MakeTried, Tried
  <2> QED
      BY <1>1, <1>2, <2>1, TriedSound
<1>3. CASE ~(Cardinality(am.vvTried[k]) < TriedBucketSize)
  <2>1. PICK e \in am.vvTried[k] : am' = Replace(Untie(am, a), a, e, b)
      BY <1>1, <1>3 DEF MakeTried
  <2> QED
      BY <1>1, <2>1, ReplaceSound
<1> QED
    BY <1>2, <1>3

-----------------------------------------------------------------------------
(* The shuffle of GetAddr_, by induction on its steps *)

LEMMA LeastNat ==
    ASSUME NEW T, T \subseteq Nat, T # {}
    PROVE  \E x \in T : \A y \in T : x <= y
<1>1. \E x \in T : \A y \in T : ~(<<y, x>> \in OpToRel(<, Nat))
    BY NatLessThanWellFounded, WFMin
<1>2. OpToRel(<, Nat) = {ss \in Nat \X Nat : ss[1] < ss[2]}
    BY Zenon DEF OpToRel
<1>3. \E x \in T : \A y \in T : ~(<<y, x>> \in {ss \in Nat \X Nat : ss[1] < ss[2]})
    BY <1>1, <1>2, Zenon
<1>4. PICK x \in T : \A y \in T : ~(<<y, x>> \in {ss \in Nat \X Nat : ss[1] < ss[2]})
    BY <1>3
<1>5. ASSUME NEW y \in T PROVE x <= y
  <2>1. x \in Nat /\ y \in Nat
      OBVIOUS
  <2>2. ~(y < x)
      BY <1>4, <2>1
  <2> QED
      BY <2>1, <2>2
<1> QED
    BY <1>5

LEMMA NatInd ==
    ASSUME NEW S, 0 \in S, \A n \in S \cap Nat : n + 1 \in S
    PROVE  Nat \subseteq S
<1> SUFFICES ASSUME Nat \ S # {} PROVE FALSE
    OBVIOUS
<1>1. PICK x \in Nat \ S : \A y \in Nat \ S : x <= y
  <2>1. Nat \ S \subseteq Nat
      OBVIOUS
  <2> QED
      BY <2>1, LeastNat
<1>2. x # 0 /\ x - 1 \in Nat /\ x - 1 \in S
    BY <1>1
<1>3. (x - 1) + 1 \in S
    BY <1>2
<1> QED
    BY <1>1, <1>2, <1>3

LEMMA SwapSound ==
    ASSUME NEW m, Sound(m, {}), NEW i \in 1 .. Len(m.vRandom), NEW j \in 1 .. Len(m.vRandom)
    PROVE  LET s == SwapRandom(m, i, j) IN
           /\ Sound(s, {}) /\ s.mapInfo = m.mapInfo /\ s.addr = m.addr
           /\ Len(s.vRandom) = Len(m.vRandom)
<1> DEFINE s == SwapRandom(m, i, j)
           v == Exchanged(m.vRandom, i, j)
           q == Remembered(m.vRandom, m.nRandomPos, i, j)
<1>1. /\ m \in AM /\ m.vRandom \in Seq(Id) /\ m.nRandomPos \in [Id -> Nat]
      /\ m.mapInfo \in SUBSET Id /\ Indexed(m.vRandom, m.nRandomPos, m.mapInfo)
    BY DEF Sound, AM, Ordered
<1>2. /\ s \in AM
      /\ s.mapInfo = m.mapInfo /\ s.fInTried = m.fInTried /\ s.nRefCount = m.nRefCount
      /\ s.source = m.source /\ s.addr = m.addr
      /\ s.mapAddr = m.mapAddr /\ s.nIdCount = m.nIdCount /\ s.vvNew = m.vvNew /\ s.vvTried = m.vvTried
      /\ s.nNew = m.nNew /\ s.nTried = m.nTried
      /\ s.vRandom = v /\ s.nRandomPos = q
    BY <1>1, SwapType
<1>3. v \in Seq(Id) /\ q \in [Id -> Nat] /\ Indexed(v, q, m.mapInfo)
    BY <1>1, SwapOrder
<1>4. Len(v) = Len(m.vRandom)
    BY <1>1 DEF Exchanged
<1>5. \A x \in Id \ m.mapInfo : q[x] = m.nRandomPos[x]
  <2>1. m.vRandom[i] \in m.mapInfo /\ m.vRandom[j] \in m.mapInfo
      BY <1>1 DEF Indexed
  <2> QED
      BY <1>1, <2>1 DEF Remembered
<1> HIDE DEF s, v, q
<1>6. Ordered(s) /\ Addressed(s)
    BY <1>2, <1>3, <1>4, <1>5 DEF Sound, Ordered, Addressed
<1>7. Counted(s, {})
    BY <1>2 DEF Sound, Counted, In
<1>8. Placed(s) /\ Totalled(s) /\ Bounded(s)
    BY <1>2 DEF Sound, Placed, Totalled, Bounded
<1> QED
    BY <1>2, <1>4, <1>6, <1>7, <1>8 DEF Sound, s

\* the states between the steps of a shuffle of n places
IsShuffle(f, m, n, pos) ==
    f = [l \in 0 .. n |-> IF l = 0 THEN m ELSE SwapRandom(f[l - 1], l, pos[l])]

LEMMA ShuffleExists ==
    ASSUME NEW m, NEW pos
    PROVE  \A n \in Nat : \E f : IsShuffle(f, m, n, pos)
<1> DEFINE S == {n \in Nat : \E f : IsShuffle(f, m, n, pos)}
<1>1. 0 \in S
  <2> DEFINE f == [l \in 0 .. 0 |-> m]
  <2>1. IsShuffle(f, m, 0, pos)
      BY DEF IsShuffle
  <2> QED
      BY <2>1
<1>2. ASSUME NEW n \in S \cap Nat PROVE n + 1 \in S
  <2>1. PICK f : IsShuffle(f, m, n, pos)
      OBVIOUS
  <2> DEFINE g == [l \in 0 .. n + 1 |-> IF l = n + 1 THEN SwapRandom(f[n], n + 1, pos[n + 1]) ELSE f[l]]
  <2>2. \A l \in 0 .. n : f[l] = IF l = 0 THEN m ELSE SwapRandom(f[l - 1], l, pos[l])
      BY <2>1 DEF IsShuffle
  <2>3. \A l \in 0 .. n : g[l] = f[l]
      OBVIOUS
  <2>4. g[n + 1] = SwapRandom(f[n], n + 1, pos[n + 1])
      OBVIOUS
  <2> DEFINE h == [l \in 0 .. n + 1 |-> IF l = 0 THEN m ELSE SwapRandom(g[l - 1], l, pos[l])]
  <2>5. ASSUME NEW l \in 0 .. n + 1 PROVE g[l] = IF l = 0 THEN m ELSE SwapRandom(g[l - 1], l, pos[l])
    <3> HIDE DEF g
    <3>1. CASE l = n + 1
      <4>1. l - 1 = n /\ l # 0 /\ n \in 0 .. n
          BY <3>1
      <4>2. g[l - 1] = f[n]
          BY <2>3, <4>1
      <4> QED
          BY <2>4, <3>1, <4>1, <4>2
    <3>2. CASE l = 0
        BY <2>2, <2>3, <3>2
    <3>3. CASE l # 0 /\ l # n + 1
      <4>1. l \in 0 .. n /\ l - 1 \in 0 .. n
          BY <3>3
      <4>2. g[l] = f[l] /\ g[l - 1] = f[l - 1]
          BY <2>3, <4>1
      <4>3. f[l] = SwapRandom(f[l - 1], l, pos[l])
          BY <2>2, <3>3, <4>1
      <4> QED
          BY <3>3, <4>2, <4>3
    <3> QED
        BY <3>1, <3>2, <3>3
  <2>6. g = h
      BY <2>5
  <2>7. IsShuffle(g, m, n + 1, pos)
      BY <2>6 DEF IsShuffle
  <2> QED
      BY <2>7
<1>3. Nat \subseteq S
  <2> HIDE DEF S
  <2> QED
      BY <1>1, <1>2, NatInd
<1> QED
    BY <1>3

LEMMA GetAddrSound ==
    ASSUME Sound(am, {}), GetAddr
    PROVE  Sound(am', {}) /\ am'.mapInfo = am.mapInfo /\ am'.addr = am.addr
<1> DEFINE N == nNodes
           L == Len(am.vRandom)
<1>1. GetAddrMaxPct \in Int /\ L \in Nat
    BY AddrManAssumption DEF Sound, AM
<1>2. N \in Int /\ N > 0
  <2>1. GetAddrMaxPct * L \in Int
      BY <1>1
  <2> QED
      BY <2>1 DEF GetAddr, nNodes
<1>3. PICK pos \in [1 .. N -> 1 .. L] :
          /\ \A n \in 1 .. N : pos[n] >= n
          /\ am' = (CHOOSE f : IsShuffle(f, am, N, pos))[N]
    BY DEF GetAddr, IsShuffle
<1> DEFINE F == CHOOSE f : IsShuffle(f, am, N, pos)
<1>4. IsShuffle(F, am, N, pos)
  <2>1. N \in Nat
      BY <1>2
  <2>2. \E f : IsShuffle(f, am, N, pos)
      BY <2>1, ShuffleExists
  <2> QED
      BY <2>2
<1>5. am' = F[N]
    BY <1>3
<1> HIDE DEF F, N
<1>6. F[0] = am /\ \A l \in 1 .. N : F[l] = SwapRandom(F[l - 1], l, pos[l])
    BY <1>2, <1>4 DEF IsShuffle
<1> DEFINE S == {n \in Nat : n <= N => /\ Sound(F[n], {}) /\ F[n].mapInfo = am.mapInfo /\ F[n].addr = am.addr
                                       /\ Len(F[n].vRandom) = L}
<1>7. 0 \in S
    BY <1>6
<1>8. ASSUME NEW n \in S \cap Nat PROVE n + 1 \in S
  <2> SUFFICES ASSUME n + 1 <= N
               PROVE  /\ Sound(F[n + 1], {}) /\ F[n + 1].mapInfo = am.mapInfo /\ F[n + 1].addr = am.addr
                      /\ Len(F[n + 1].vRandom) = L
      OBVIOUS
  <2>1. Sound(F[n], {}) /\ F[n].mapInfo = am.mapInfo /\ F[n].addr = am.addr /\ Len(F[n].vRandom) = L
      BY <1>2
  <2>2. n + 1 \in 1 .. N /\ (n + 1) - 1 = n
      BY <1>2
  <2>3. pos[n + 1] \in 1 .. L /\ n + 1 \in 1 .. L
      BY <1>1, <1>3, <2>2
  <2>4. F[n + 1] = SwapRandom(F[n], n + 1, pos[n + 1])
      BY <1>6, <2>2
  <2>5. n + 1 \in 1 .. Len(F[n].vRandom) /\ pos[n + 1] \in 1 .. Len(F[n].vRandom)
      BY <2>1, <2>3
  <2> QED
      BY <2>1, <2>4, <2>5, SwapSound
<1>9. Nat \subseteq S
  <2> HIDE DEF S
  <2> QED
      BY <1>7, <1>8, NatInd
<1>10. N \in S /\ N <= N
    BY <1>2, <1>9
<1> QED
    BY <1>5, <1>10

-----------------------------------------------------------------------------
(* peers.dat: the numbers that the entries have in it *)

LEMMA ImageCard ==
    ASSUME NEW S, IsFiniteSet(S), NEW g, \A x, y \in S : g[x] = g[y] => x = y
    PROVE  /\ IsFiniteSet({g[x] : x \in S})
           /\ Cardinality({g[x] : x \in S}) = Cardinality(S)
<1> DEFINE T == {g[x] : x \in S}
           f == [x \in S |-> g[x]]
<1>1. f \in [S -> T] /\ \A x \in S : f[x] = g[x]
    OBVIOUS
<1>2. f \in Injection(S, T)
    BY <1>1 DEF Injection, IsInjective
<1>3. \A y \in T : \E x \in S : f[x] = y
    BY <1>1
<1> HIDE DEF T, f
<1>4. f \in Surjection(S, T)
    BY <1>1, <1>3 DEF Surjection
<1>5. f \in Bijection(S, T)
    BY <1>2, <1>4 DEF Bijection
<1>6. ExistsBijection(S, T)
    BY <1>5 DEF ExistsBijection
<1> QED
    BY <1>6, FS_Bijection DEF T

\* how many come before n, in the order of the ids
LEMMA RankOf ==
    ASSUME NEW S \in SUBSET Nat, IsFiniteSet(S)
    PROVE  /\ Cardinality(S) \in Nat
           /\ \A n \in S : Rank(S, n) \in 0 .. Cardinality(S) - 1
           /\ \A n, k \in S : Rank(S, n) = Rank(S, k) => n = k
           /\ \A i \in 0 .. Cardinality(S) - 1 : \E n \in S : Rank(S, n) = i
<1> DEFINE Before(n) == {i \in S : i < n}
           N == Cardinality(S)
<1>1. N \in Nat
    BY FS_CardinalityType
<1>2. \A n \in S : IsFiniteSet(Before(n)) /\ Rank(S, n) \in Nat /\ Rank(S, n) = Cardinality(Before(n))
    BY FS_Subset, FS_CardinalityType DEF Rank
<1>3. ASSUME NEW n \in S PROVE Rank(S, n) \in 0 .. N - 1
  <2>1. Before(n) \in SUBSET (S \ {n})
      OBVIOUS
  <2>2. IsFiniteSet(S \ {n}) /\ Cardinality(S \ {n}) = N - 1
      BY FS_RemoveElement
  <2> HIDE DEF Before
  <2>3. Cardinality(Before(n)) <= Cardinality(S \ {n})
      BY <2>1, <2>2, FS_Subset
  <2>4. Rank(S, n) \in Nat /\ Rank(S, n) = Cardinality(Before(n))
      BY <1>2
  <2> HIDE DEF N
  <2> QED
      BY <1>1, <2>2, <2>3, <2>4
<1>4. ASSUME NEW n \in S, NEW k \in S, n < k PROVE Rank(S, n) < Rank(S, k)
  <2>0. n \in Nat /\ k \in Nat /\ \A i \in S : i \in Nat /\ (i < n => i < k /\ i # n)
      BY <1>4
  <2>1. Before(n) \in SUBSET (Before(k) \ {n}) /\ n \in Before(k)
      BY <1>4, <2>0
  <2> HIDE DEF Before
  <2>2. IsFiniteSet(Before(k) \ {n}) /\ Cardinality(Before(k) \ {n}) = Cardinality(Before(k)) - 1
      BY <1>2, <2>1, FS_RemoveElement
  <2>3. Cardinality(Before(n)) <= Cardinality(Before(k) \ {n})
      BY <2>1, <2>2, FS_Subset
  <2> QED
      BY <1>2, <2>2, <2>3
<1>5. ASSUME NEW n \in S, NEW k \in S, Rank(S, n) = Rank(S, k) PROVE n = k
  <2>1. n \in Nat /\ k \in Nat /\ Rank(S, n) \in Nat
      BY <1>2
  <2>2. ~(n < k) /\ ~(k < n)
    <3>1. ~(Rank(S, n) < Rank(S, k)) /\ ~(Rank(S, k) < Rank(S, n))
        BY <1>5, <2>1
    <3> QED
        BY <1>4, <3>1
  <2> QED
      BY <2>1, <2>2
<1> DEFINE R == [n \in S |-> Rank(S, n)]
           I == 0 .. N - 1
<1>6. \A n \in S : R[n] = Rank(S, n)
    OBVIOUS
<1>7. IsFiniteSet(I) /\ Cardinality(I) = N
  <2> HIDE DEF N
  <2>1. /\ IsFiniteSet(0 .. N - 1)
        /\ Cardinality(0 .. N - 1) = IF 0 > N - 1 THEN 0 ELSE N - 1 - 0 + 1
      BY <1>1, FS_Interval
  <2> QED
      BY <1>1, <2>1
<1>8. R \in [S -> I]
    BY <1>3
<1> HIDE DEF R, I, N
<1>9. R \in Injection(S, I)
    BY <1>5, <1>6, <1>8 DEF Injection, IsInjective
<1>10. R \in Surjection(S, I)
    BY <1>7, <1>9, FS_Injection DEF N
<1>11. \A i \in I : \E n \in S : R[n] = i
    BY <1>10 DEF Surjection
<1> QED
    BY <1>1, <1>3, <1>5, <1>6, <1>11 DEF N, I

\* every entry of the set is written, at the place of its number
LEMMA WrittenIs ==
    ASSUME NEW m, NEW S \in SUBSET Nat, IsFiniteSet(S), NEW nMax, nMax = Cardinality(S),
           NEW w, w = Written(m, S, nMax)
    PROVE  /\ DOMAIN w = 0 .. nMax - 1
           /\ \A n \in S : /\ Rank(S, n) \in 0 .. nMax - 1
                           /\ w[Rank(S, n)].addr = m.addr[n] /\ w[Rank(S, n)].source = m.source[n]
<1>1. /\ \A n \in S : Rank(S, n) \in 0 .. nMax - 1
      /\ \A n, k \in S : Rank(S, n) = Rank(S, k) => n = k
      /\ \A i \in 0 .. nMax - 1 : \E n \in S : Rank(S, n) = i
    BY RankOf
<1>2. {Rank(S, n) : n \in S} \cap 0 .. nMax - 1 = 0 .. nMax - 1
    BY <1>1
<1> DEFINE First(i) == CHOOSE n \in S : Rank(S, n) = i
<1>3. w = [i \in 0 .. nMax - 1 |-> [addr |-> m.addr[First(i)], source |-> m.source[First(i)]]]
    BY <1>2 DEF Written
<1>4. ASSUME NEW n \in S PROVE First(Rank(S, n)) = n
    BY <1>1
<1> HIDE DEF First
<1>5. \A i \in 0 .. nMax - 1 : w[i].addr = m.addr[First(i)] /\ w[i].source = m.source[First(i)]
    BY <1>3
<1> QED
    BY <1>1, <1>3, <1>4, <1>5

-----------------------------------------------------------------------------
(* peers.dat: an address manager with other ids *)

(* l has the entries of m under the ids that g gives them. *)
Renumbered(m, l, g) ==
    /\ g \in [m.mapInfo -> Id] /\ \A x, y \in m.mapInfo : g[x] = g[y] => x = y
    /\ l.mapInfo = {g[n] : n \in m.mapInfo}
    /\ l.fInTried = {g[n] : n \in m.fInTried}
    /\ \A n \in m.mapInfo : /\ l.addr[g[n]] = m.addr[n] /\ l.source[g[n]] = m.source[n]
                            /\ l.nRefCount[g[n]] = m.nRefCount[n]
                            /\ l.mapAddr[m.addr[n]] = g[n]
    /\ \A n \in Id \ l.mapInfo : l.nRefCount[n] = 0
    /\ \A a \in Addr : l.mapAddr[a] # NoId => \E n \in m.mapInfo : m.addr[n] = a
    /\ \A b \in NewBucket : l.vvNew[b] = {g[n] : n \in m.vvNew[b]}
    /\ \A k \in TriedBucket : l.vvTried[k] = {g[n] : n \in m.vvTried[k]}
    /\ l.nNew = m.nNew /\ l.nTried = m.nTried

\* which buckets an entry is in does not change
LEMMA SameBuckets ==
    ASSUME NEW m, Sound(m, {}), NEW l, NEW g, Renumbered(m, l, g)
    PROVE  /\ \A b \in NewBucket : m.vvNew[b] \subseteq m.mapInfo
           /\ \A k \in TriedBucket : m.vvTried[k] \subseteq m.fInTried
           /\ m.fInTried \subseteq m.mapInfo
           /\ \A n \in m.mapInfo : /\ In(l, g[n]) = In(m, n)
                                   /\ g[n] \in l.fInTried <=> n \in m.fInTried
                                   /\ \A k \in TriedBucket : g[n] \in l.vvTried[k] <=> n \in m.vvTried[k]
           /\ \A i \in Id \ l.mapInfo : In(l, i) = {}
<1>1. \A b \in NewBucket : m.vvNew[b] \subseteq m.mapInfo
    BY InBucket
<1>2. m.fInTried \subseteq m.mapInfo
    BY DEF Sound, Totalled
<1>3. \A k \in TriedBucket : m.vvTried[k] \subseteq m.fInTried
    BY DEF Sound, Placed, AM
<1>4. ASSUME NEW n \in m.mapInfo, NEW S, S \subseteq m.mapInfo
      PROVE  g[n] \in {g[x] : x \in S} <=> n \in S
    BY <1>4 DEF Renumbered
<1>5. ASSUME NEW n \in m.mapInfo
      PROVE  /\ In(l, g[n]) = In(m, n)
             /\ g[n] \in l.fInTried <=> n \in m.fInTried
             /\ \A k \in TriedBucket : g[n] \in l.vvTried[k] <=> n \in m.vvTried[k]
  <2>1. \A b \in NewBucket : g[n] \in l.vvNew[b] <=> n \in m.vvNew[b]
    <3> TAKE b \in NewBucket
    <3>1. l.vvNew[b] = {g[x] : x \in m.vvNew[b]} /\ m.vvNew[b] \subseteq m.mapInfo
        BY <1>1 DEF Renumbered
    <3> QED
        BY <1>4, <3>1
  <2>2. \A k \in TriedBucket : g[n] \in l.vvTried[k] <=> n \in m.vvTried[k]
    <3> TAKE k \in TriedBucket
    <3>1. l.vvTried[k] = {g[x] : x \in m.vvTried[k]} /\ m.vvTried[k] \subseteq m.mapInfo
        BY <1>2, <1>3 DEF Renumbered
    <3> QED
        BY <1>4, <3>1
  <2>3. g[n] \in l.fInTried <=> n \in m.fInTried
    <3>1. l.fInTried = {g[x] : x \in m.fInTried}
        BY DEF Renumbered
    <3> QED
        BY <1>2, <1>4, <3>1
  <2> QED
      BY <2>1, <2>2, <2>3 DEF In
<1>6. ASSUME NEW i \in Id \ l.mapInfo PROVE In(l, i) = {}
  <2>1. \A b \in NewBucket : l.vvNew[b] \subseteq l.mapInfo
    <3> TAKE b \in NewBucket
    <3>1. l.vvNew[b] = {g[x] : x \in m.vvNew[b]} /\ m.vvNew[b] \subseteq m.mapInfo
        BY <1>1 DEF Renumbered
    <3>2. l.mapInfo = {g[x] : x \in m.mapInfo}
        BY DEF Renumbered
    <3> QED
        BY <3>1, <3>2
  <2> QED
      BY <2>1 DEF In
<1> QED
    BY <1>1, <1>2, <1>3, <1>5, <1>6

LEMMA RenumberedSound ==
    ASSUME NEW m, Sound(m, {}), NEW l \in AM, NEW g, Renumbered(m, l, g), Ordered(l),
           \A n \in l.mapInfo : n < l.nIdCount, l.nIdCount <= MaxId
    PROVE  Sound(l, {})
<1>1. /\ \A b \in NewBucket : m.vvNew[b] \subseteq m.mapInfo
      /\ \A k \in TriedBucket : m.vvTried[k] \subseteq m.fInTried
      /\ m.fInTried \subseteq m.mapInfo
      /\ \A n \in m.mapInfo : /\ In(l, g[n]) = In(m, n)
                              /\ g[n] \in l.fInTried <=> n \in m.fInTried
                              /\ \A k \in TriedBucket : g[n] \in l.vvTried[k] <=> n \in m.vvTried[k]
      /\ \A i \in Id \ l.mapInfo : In(l, i) = {}
    BY SameBuckets
<1>2. m \in AM /\ m.mapInfo \in SUBSET Id /\ IsFiniteSet(m.mapInfo)
    BY Finite DEF Sound, AM
<1>3. \A n \in m.mapInfo : /\ g[n] \in Id /\ g[n] \in l.mapInfo
                           /\ l.addr[g[n]] = m.addr[n] /\ l.nRefCount[g[n]] = m.nRefCount[n]
                           /\ l.mapAddr[m.addr[n]] = g[n]
    BY DEF Renumbered
<1>4. \A i \in l.mapInfo : \E n \in m.mapInfo : i = g[n]
    BY DEF Renumbered
<1>5. l.fInTried \subseteq l.mapInfo
    BY <1>1 DEF Renumbered
<1>6. ASSUME NEW S, S \subseteq m.mapInfo
      PROVE  Cardinality({g[n] : n \in S}) = Cardinality(S)
  <2>1. IsFiniteSet(S)
      BY <1>2, <1>6, FS_Subset
  <2>2. \A x, y \in S : g[x] = g[y] => x = y
      BY <1>6 DEF Renumbered
  <2> QED
      BY <2>1, <2>2, ImageCard
<1>7. Counted(l, {})
  <2> SUFFICES ASSUME NEW i \in Id
               PROVE  /\ l.nRefCount[i] = Cardinality(In(l, i)) + 0
                      /\ l.nRefCount[i] # 0 <=> i \in l.mapInfo \ l.fInTried
                      /\ l.nRefCount[i] <= BucketsPerAddress
      BY DEF Counted
  <2>1. CASE i \in l.mapInfo
    <3>1. PICK n \in m.mapInfo : i = g[n]
        BY <1>4, <2>1
    <3>2. /\ m.nRefCount[n] = Cardinality(In(m, n)) + 0
          /\ m.nRefCount[n] # 0 <=> n \in m.mapInfo \ m.fInTried
          /\ m.nRefCount[n] <= BucketsPerAddress
        BY <1>2 DEF Sound, Counted
    <3> QED
        BY <1>1, <1>3, <2>1, <3>1, <3>2
  <2>2. CASE i \notin l.mapInfo
    <3>1. In(l, i) = {} /\ l.nRefCount[i] = 0 /\ Cardinality({}) = 0
        BY <1>1, <2>2, FS_EmptySet DEF Renumbered
    <3>2. 0 <= BucketsPerAddress
        BY AddrManAssumption
    <3> QED
        BY <2>2, <3>1, <3>2
  <2> QED
      BY <2>1, <2>2
<1>8. Placed(l)
  <2> SUFFICES ASSUME NEW i \in Id, NEW k \in TriedBucket
               PROVE  i \in l.vvTried[k] <=> i \in l.fInTried /\ k = GetTriedBucket[l.addr[i]]
      BY DEF Placed
  <2>1. CASE i \in l.mapInfo
    <3>1. PICK n \in m.mapInfo : i = g[n]
        BY <1>4, <2>1
    <3>2. n \in m.vvTried[k] <=> n \in m.fInTried /\ k = GetTriedBucket[m.addr[n]]
        BY <1>2 DEF Sound, Placed
    <3> QED
        BY <1>1, <1>3, <3>1, <3>2
  <2>2. CASE i \notin l.mapInfo
    <3>1. l.vvTried[k] = {g[n] : n \in m.vvTried[k]} /\ m.vvTried[k] \subseteq m.mapInfo
        BY <1>1 DEF Renumbered
    <3> QED
        BY <1>3, <1>5, <2>2, <3>1
  <2> QED
      BY <2>1, <2>2
<1>9. Totalled(l)
  <2>1. l.mapInfo \ l.fInTried = {g[n] : n \in m.mapInfo \ m.fInTried}
      BY <1>1, <1>3, <1>4
  <2>2. Cardinality(l.mapInfo \ l.fInTried) = Cardinality(m.mapInfo \ m.fInTried)
      BY <1>6, <2>1
  <2>3. l.fInTried = {g[n] : n \in m.fInTried}
      BY DEF Renumbered
  <2>4. Cardinality(l.fInTried) = Cardinality(m.fInTried)
      BY <1>1, <1>6, <2>3
  <2> QED
      BY <1>5, <2>2, <2>4 DEF Renumbered, Sound, Totalled
<1>10. Bounded(l)
  <2>1. \A b \in NewBucket : Cardinality(l.vvNew[b]) <= NewBucketSize
    <3> TAKE b \in NewBucket
    <3>1. l.vvNew[b] = {g[n] : n \in m.vvNew[b]}
        BY DEF Renumbered
    <3>2. Cardinality(l.vvNew[b]) = Cardinality(m.vvNew[b])
        BY <1>1, <1>6, <3>1
    <3> QED
        BY <3>2 DEF Sound, Bounded
  <2>2. \A k \in TriedBucket : Cardinality(l.vvTried[k]) <= TriedBucketSize
    <3> TAKE k \in TriedBucket
    <3>1. l.vvTried[k] = {g[n] : n \in m.vvTried[k]} /\ m.vvTried[k] \subseteq m.mapInfo
        BY <1>1 DEF Renumbered
    <3>2. Cardinality(l.vvTried[k]) = Cardinality(m.vvTried[k])
        BY <1>6, <3>1
    <3> QED
        BY <3>2 DEF Sound, Bounded
  <2> QED
      BY <2>1, <2>2 DEF Bounded
<1>11. Addressed(l)
  <2>1. ASSUME NEW i \in l.mapInfo PROVE l.addr[i] \in Addr /\ l.mapAddr[l.addr[i]] = i
    <3>1. PICK n \in m.mapInfo : i = g[n]
        BY <1>4
    <3>2. m.addr[n] \in Addr
        BY DEF Sound, Addressed
    <3> QED
        BY <1>3, <3>1, <3>2
  <2>2. ASSUME NEW a \in Addr, l.mapAddr[a] # NoId
        PROVE  l.mapAddr[a] \in l.mapInfo /\ l.addr[l.mapAddr[a]] = a
    <3>1. PICK n \in m.mapInfo : m.addr[n] = a
        BY <2>2 DEF Renumbered
    <3> QED
        BY <1>3, <3>1
  <2> QED
      BY <2>1, <2>2 DEF Addressed
<1> QED
    BY <1>7, <1>8, <1>9, <1>10, <1>11 DEF Sound

LEMMA RenumberedContents ==
    ASSUME NEW m, Sound(m, {}), NEW l, NEW g, Renumbered(m, l, g)
    PROVE  Contents(l) = Contents(m)
<1>1. \A n \in m.mapInfo : /\ In(l, g[n]) = In(m, n)
                           /\ g[n] \in l.fInTried <=> n \in m.fInTried
                           /\ \A k \in TriedBucket : g[n] \in l.vvTried[k] <=> n \in m.vvTried[k]
    BY SameBuckets
<1>2. ASSUME NEW n \in m.mapInfo PROVE Entry(l, g[n]) = Entry(m, n)
  <2>1. /\ l.addr[g[n]] = m.addr[n] /\ l.source[g[n]] = m.source[n]
        /\ l.nRefCount[g[n]] = m.nRefCount[n] /\ l.mapAddr[m.addr[n]] = g[n]
      BY DEF Renumbered
  <2>2. m.mapAddr[m.addr[n]] = n
      BY DEF Sound, Addressed
  <2>3. {b \in NewBucket : g[n] \in l.vvNew[b]} = {b \in NewBucket : n \in m.vvNew[b]}
      BY <1>1 DEF In
  <2>4. {k \in TriedBucket : g[n] \in l.vvTried[k]} = {k \in TriedBucket : n \in m.vvTried[k]}
      BY <1>1
  <2>5. (g[n] \in l.fInTried) = (n \in m.fInTried) /\ (l.mapAddr[l.addr[g[n]]] = g[n]) = (m.mapAddr[m.addr[n]] = n)
      BY <1>1, <2>1, <2>2
  <2> QED
      BY <2>1, <2>3, <2>4, <2>5 DEF Entry
<1>3. l.mapInfo = {g[n] : n \in m.mapInfo} /\ l.nNew = m.nNew /\ l.nTried = m.nTried
    BY DEF Renumbered
<1>4. {Entry(l, i) : i \in l.mapInfo} = {Entry(m, n) : n \in m.mapInfo}
    BY <1>2, <1>3
<1> QED
    BY <1>3, <1>4 DEF Contents

-----------------------------------------------------------------------------
(* peers.dat: what is read is what was written *)

New(m) == m.mapInfo \ m.fInTried

\* what the file of a sound address manager has
LEMMA SavedIs ==
    ASSUME NEW m, Sound(m, {}), NEW f, f = Saved(m), NEW W, W = New(m)
    PROVE  /\ W \in SUBSET Nat /\ IsFiniteSet(W)
           /\ m.fInTried \in SUBSET Nat /\ IsFiniteSet(m.fInTried)
           /\ m.nNew = Cardinality(W) /\ m.nTried = Cardinality(m.fInTried)
           /\ m.nNew \in Nat /\ m.nTried \in Nat
           /\ f.nNew = m.nNew /\ f.nTried = m.nTried
           /\ DOMAIN f.new = 0 .. m.nNew - 1 /\ DOMAIN f.tried = 0 .. m.nTried - 1
           /\ \A n \in W : /\ Rank(W, n) \in 0 .. m.nNew - 1
                           /\ f.new[Rank(W, n)].addr = m.addr[n]
                           /\ f.new[Rank(W, n)].source = m.source[n]
           /\ \A n \in m.fInTried : /\ Rank(m.fInTried, n) \in 0 .. m.nTried - 1
                                    /\ f.tried[Rank(m.fInTried, n)].addr = m.addr[n]
                                    /\ f.tried[Rank(m.fInTried, n)].source = m.source[n]
           /\ \A b \in NewBucket : /\ DOMAIN f.vvNew[b] = m.vvNew[b]
                                   /\ \A n \in m.vvNew[b] : n \in W /\ f.vvNew[b][n] = Rank(W, n)
<1>1. m \in AM /\ m.mapInfo \in SUBSET Id /\ m.fInTried \in SUBSET Id
    BY DEF Sound, AM
<1>2. W \in SUBSET Nat /\ IsFiniteSet(W) /\ m.fInTried \in SUBSET Nat /\ IsFiniteSet(m.fInTried)
    BY <1>1, Finite, Domains DEF New
<1>3. m.nNew = Cardinality(W) /\ m.nTried = Cardinality(m.fInTried) /\ m.nNew \in Nat /\ m.nTried \in Nat
    BY <1>2, FS_CardinalityType DEF New, Sound, Totalled
<1>4. WithReferences(m) = W
  <2>1. \A n \in m.mapInfo : m.nRefCount[n] # 0 <=> n \in m.mapInfo \ m.fInTried
      BY <1>1 DEF Sound, Counted
  <2> QED
      BY <2>1 DEF WithReferences, New
<1>5. /\ f.nNew = m.nNew /\ f.nTried = m.nTried
      /\ f.new = Written(m, W, m.nNew) /\ f.tried = Written(m, m.fInTried, m.nTried)
      /\ f.vvNew = [b \in NewBucket |-> [n \in m.vvNew[b] |-> Index(m, n)]]
    BY <1>4 DEF Saved
<1>6. /\ DOMAIN f.new = 0 .. m.nNew - 1
      /\ \A n \in W : /\ Rank(W, n) \in 0 .. m.nNew - 1
                      /\ f.new[Rank(W, n)].addr = m.addr[n]
                      /\ f.new[Rank(W, n)].source = m.source[n]
    BY <1>2, <1>3, <1>5, WrittenIs
<1>7. /\ DOMAIN f.tried = 0 .. m.nTried - 1
      /\ \A n \in m.fInTried : /\ Rank(m.fInTried, n) \in 0 .. m.nTried - 1
                               /\ f.tried[Rank(m.fInTried, n)].addr = m.addr[n]
                               /\ f.tried[Rank(m.fInTried, n)].source = m.source[n]
    BY <1>2, <1>3, <1>5, WrittenIs
<1>8. \A b \in NewBucket : /\ DOMAIN f.vvNew[b] = m.vvNew[b]
                           /\ \A n \in m.vvNew[b] : n \in W /\ f.vvNew[b][n] = Rank(W, n)
  <2> TAKE b \in NewBucket
  <2>1. f.vvNew[b] = [n \in m.vvNew[b] |-> Index(m, n)]
      BY <1>5
  <2>2. \A n \in m.vvNew[b] : n \in W
      BY InBucket DEF New
  <2>3. \A n \in W : Index(m, n) = Rank(W, n)
      BY <1>3, <1>4, <1>6 DEF Index
  <2> QED
      BY <2>1, <2>2, <2>3
<1> QED
    BY <1>2, <1>3, <1>5, <1>6, <1>7, <1>8

\* no tried entry is dropped: none of their buckets is too full
LEMMA KeptAll ==
    ASSUME NEW m, Sound(m, {}), NEW f, f = Saved(m)
    PROVE  /\ Kept(f) = 0 .. m.nTried - 1 /\ Cardinality(Kept(f)) = m.nTried
           /\ \A j \in Kept(f) : Rank(Kept(f), j) = j
<1> DEFINE T == m.fInTried
           Bucket(i) == GetTriedBucket[f.tried[i].addr]
           I == 0 .. m.nTried - 1
<1>1. /\ T \in SUBSET Nat /\ IsFiniteSet(T)
      /\ m.nTried = Cardinality(T) /\ m.nTried \in Nat
      /\ DOMAIN f.tried = I
      /\ \A n \in T : Rank(T, n) \in I /\ f.tried[Rank(T, n)].addr = m.addr[n]
    BY SavedIs
<1>2. /\ \A n, k \in T : Rank(T, n) = Rank(T, k) => n = k
      /\ \A i \in I : \E n \in T : Rank(T, n) = i
    BY <1>1, RankOf
<1>3. T \subseteq m.mapInfo /\ T \subseteq Id
    BY DEF Sound, Totalled, AM
<1>4. ASSUME NEW j \in I
      PROVE  Cardinality({i \in I : i < j /\ Bucket(i) = Bucket(j)}) < TriedBucketSize
  <2>1. PICK n \in T : Rank(T, n) = j
      BY <1>2
  <2> DEFINE k == GetTriedBucket[m.addr[n]]
             V == m.vvTried[k]
             L == {i \in I : i < j /\ Bucket(i) = Bucket(j)}
             G == {Rank(T, x) : x \in V \ {n}}
  <2>2. k \in TriedBucket
      BY <1>3, AddrManAssumption DEF Sound, Addressed
  <2>3. V = {x \in T : GetTriedBucket[m.addr[x]] = k}
      BY <1>3, <2>2 DEF Sound, Placed, AM
  <2>4. IsFiniteSet(V) /\ Cardinality(V) \in Nat /\ Cardinality(V) <= TriedBucketSize
      BY <2>2, Finite DEF Sound, Bounded
  <2>5. IsFiniteSet(V \ {n}) /\ Cardinality(V \ {n}) = Cardinality(V) - 1
      BY <2>3, <2>4, FS_RemoveElement
  <2>6. L \subseteq G
    <3> SUFFICES ASSUME NEW i \in L PROVE i \in G
        OBVIOUS
    <3>1. i \in I /\ i < j /\ Bucket(i) = Bucket(j)
        OBVIOUS
    <3>2. PICK x \in T : Rank(T, x) = i
        BY <1>2, <3>1
    <3>3. Bucket(i) = GetTriedBucket[m.addr[x]] /\ Bucket(j) = k
        BY <1>1, <2>1, <3>2
    <3>4. x # n
        BY <2>1, <3>1, <3>2
    <3> QED
        BY <2>3, <3>1, <3>2, <3>3, <3>4
  <2>7. IsFiniteSet(G) /\ Cardinality(G) = Cardinality(V \ {n})
    <3> DEFINE g == [x \in T |-> Rank(T, x)]
               S == V \ {n}
    <3>1. S \subseteq T
        BY <2>3
    <3>2. \A x, y \in S : g[x] = g[y] => x = y
        BY <1>2, <3>1
    <3>3. G = {g[x] : x \in S}
        BY <3>1
    <3>4. IsFiniteSet(S)
        BY <2>5
    <3> HIDE DEF g, S, G
    <3>5. IsFiniteSet({g[x] : x \in S}) /\ Cardinality({g[x] : x \in S}) = Cardinality(S)
        BY <3>2, <3>4, ImageCard
    <3> QED
        BY <3>3, <3>5 DEF S
  <2> HIDE DEF L, G, V
  <2>8. Cardinality(L) <= Cardinality(G) /\ IsFiniteSet(L)
      BY <2>6, <2>7, FS_Subset
  <2>9. Cardinality(L) \in Nat
      BY <2>8, FS_CardinalityType
  <2>10. Cardinality(L) < TriedBucketSize
      BY <2>4, <2>5, <2>7, <2>8, <2>9, AddrManAssumption
  <2> QED
      BY <2>10 DEF L
<1>5. Kept(f) = I
    BY <1>1, <1>4 DEF Kept
<1>6. /\ IsFiniteSet(I)
      /\ Cardinality(I) = m.nTried
  <2>1. /\ IsFiniteSet(0 .. m.nTried - 1)
        /\ Cardinality(0 .. m.nTried - 1) = IF 0 > m.nTried - 1 THEN 0 ELSE m.nTried - 1 - 0 + 1
    <3>1. 0 \in Int /\ m.nTried - 1 \in Int
        BY <1>1
    <3> QED
        BY <3>1, FS_Interval
  <2> QED
      BY <1>1, <2>1
<1>7. ASSUME NEW j \in I PROVE Rank(I, j) = j
  <2>1. j \in Nat /\ j - 1 \in Int /\ {i \in I : i < j} = 0 .. j - 1
      BY <1>1
  <2>2. Cardinality(0 .. j - 1) = IF 0 > j - 1 THEN 0 ELSE j - 1 - 0 + 1
      BY <2>1, FS_Interval
  <2> HIDE DEF I
  <2>3. Rank(I, j) = Cardinality(0 .. j - 1)
      BY <2>1 DEF Rank
  <2> QED
      BY <2>1, <2>2, <2>3
<1> QED
    BY <1>5, <1>6, <1>7

\* the references that an entry gets back from the buckets before b
LEMMA EarlierIs ==
    ASSUME NEW m, Sound(m, {}), NEW f, f = Saved(m), NEW W, W = New(m),
           NEW b \in 1 .. NewBucketCount + 1
    PROVE  /\ \A n \in W : /\ IsFiniteSet({c \in In(m, n) : c < b})
                           /\ Cardinality(Earlier(f, Rank(W, n), b)) = Cardinality({c \in In(m, n) : c < b})
           /\ \A i : (\A n \in W : i # Rank(W, n)) => Earlier(f, i, b) = {}
<1>1. /\ W \in SUBSET Nat /\ IsFiniteSet(W)
      /\ \A c \in NewBucket : /\ DOMAIN f.vvNew[c] = m.vvNew[c]
                              /\ \A n \in m.vvNew[c] : n \in W /\ f.vvNew[c][n] = Rank(W, n)
    BY SavedIs
<1>2. \A n, k \in W : Rank(W, n) = Rank(W, k) => n = k
    BY <1>1, RankOf
<1>3. NewBucketCount \in Nat /\ NewBucket = 1 .. NewBucketCount
    BY AddrManAssumption DEF NewBucket
<1>4. \A c : c \in 1 .. b - 1 <=> c \in NewBucket /\ c < b
    BY <1>3
<1> DEFINE Places(i) == {e \in UNION {{c} \X m.vvNew[c] : c \in 1 .. b - 1} : f.vvNew[e[1]][e[2]] = i}
<1>5. \A i : Earlier(f, i, b) = Places(i)
  <2>1. \A c \in 1 .. b - 1 : DOMAIN f.vvNew[c] = m.vvNew[c]
      BY <1>1, <1>4
  <2>2. {{c} \X DOMAIN f.vvNew[c] : c \in 1 .. b - 1} = {{c} \X m.vvNew[c] : c \in 1 .. b - 1}
      BY <2>1
  <2> QED
      BY <2>2 DEF Earlier
<1>6. ASSUME NEW i PROVE Places(i) = {e \in NewBucket \X W : /\ e[1] < b /\ e[2] \in m.vvNew[e[1]]
                                                             /\ Rank(W, e[2]) = i}
  <2>1. ASSUME NEW e \in Places(i)
        PROVE  e \in NewBucket \X W /\ e[1] < b /\ e[2] \in m.vvNew[e[1]] /\ Rank(W, e[2]) = i
    <3>1. PICK c \in 1 .. b - 1 : e \in {c} \X m.vvNew[c]
        OBVIOUS
    <3>2. f.vvNew[e[1]][e[2]] = i
        OBVIOUS
    <3>3. PICK n \in m.vvNew[c] : e = <<c, n>>
        BY <3>1
    <3>4. c \in NewBucket /\ c < b /\ n \in W /\ f.vvNew[c][n] = Rank(W, n)
        BY <1>1, <1>4
    <3> QED
        BY <3>2, <3>3, <3>4
  <2>2. ASSUME NEW e \in NewBucket \X W, e[1] < b, e[2] \in m.vvNew[e[1]], Rank(W, e[2]) = i
        PROVE  e \in Places(i)
    <3>1. PICK c \in NewBucket, n \in W : e = <<c, n>>
        OBVIOUS
    <3>2. c \in 1 .. b - 1 /\ n \in m.vvNew[c] /\ f.vvNew[c][n] = i
        BY <1>1, <1>4, <2>2, <3>1
    <3> QED
        BY <3>1, <3>2
  <2> HIDE DEF Places
  <2> QED
      BY <2>1, <2>2
<1> HIDE DEF Places
<1>7. ASSUME NEW n \in W
      PROVE  /\ IsFiniteSet({c \in In(m, n) : c < b})
             /\ Cardinality(Earlier(f, Rank(W, n), b)) = Cardinality({c \in In(m, n) : c < b})
  <2> DEFINE C == {c \in In(m, n) : c < b}
             g == [c \in C |-> <<c, n>>]
             D == {g[c] : c \in C}
  <2>1. D = Places(Rank(W, n))
    <3>1. \A c \in C : g[c] = <<c, n>> /\ c \in NewBucket /\ c < b /\ n \in m.vvNew[c]
        BY DEF In
    <3>2. ASSUME NEW e \in D PROVE e \in Places(Rank(W, n))
      <4>1. PICK c \in C : e = <<c, n>>
          OBVIOUS
      <4> QED
          BY <1>6, <3>1, <4>1
    <3>3. ASSUME NEW e \in Places(Rank(W, n)) PROVE e \in D
      <4>1. PICK c \in NewBucket, x \in W : e = <<c, x>> /\ c < b /\ x \in m.vvNew[c] /\ Rank(W, x) = Rank(W, n)
          BY <1>6
      <4>2. x = n
          BY <1>2, <4>1
      <4>3. c \in C
          BY <4>1, <4>2 DEF In
      <4> QED
          BY <3>1, <4>1, <4>2, <4>3
    <3> HIDE DEF D
    <3> QED
        BY <3>2, <3>3
  <2>2. IsFiniteSet(C)
      BY InFinite, FS_Subset
  <2>3. \A x, y \in C : g[x] = g[y] => x = y
      OBVIOUS
  <2> HIDE DEF C, g
  <2>4. Cardinality(D) = Cardinality(C)
      BY <2>2, <2>3, ImageCard
  <2> QED
      BY <1>5, <2>1, <2>2, <2>4 DEF C
<1>8. ASSUME NEW i, \A n \in W : i # Rank(W, n) PROVE Earlier(f, i, b) = {}
    BY <1>5, <1>6, <1>8
<1> QED
    BY <1>7, <1>8


\* mapInfo as it is read back: the tried entries follow the new ones
LEMMA EntriesIs ==
    ASSUME NEW m, Sound(m, {}), NEW f, f = Saved(m), NEW N, N = m.nNew, NEW T, T = m.nTried
    PROVE  Entries(f) = [n \in 0 .. N + T - 1 |-> IF n \in 0 .. N - 1 THEN f.new[n] ELSE f.tried[n - N]]
<1> DEFINE K == Kept(f)
           D == {f.nNew + Rank(K, j) : j \in K}
           Place(n) == CHOOSE j \in K : f.nNew + Rank(K, j) = n
           tried == [n \in D |-> f.tried[Place(n)]]
<1>1. N \in Nat /\ T \in Nat /\ f.nNew = N /\ DOMAIN f.new = 0 .. N - 1
    BY SavedIs
<1>2. K = 0 .. T - 1 /\ \A j \in K : Rank(K, j) = j
    BY KeptAll
<1>3. D = {N + j : j \in 0 .. T - 1}
    BY <1>1, <1>2
<1>4. D = N .. N + T - 1
  <2>1. ASSUME NEW n \in N .. N + T - 1 PROVE n \in {N + j : j \in 0 .. T - 1}
    <3>1. n - N \in 0 .. T - 1 /\ n = N + (n - N)
        BY <1>1
    <3> QED
        BY <3>1
  <2>2. \A j \in 0 .. T - 1 : N + j \in N .. N + T - 1
      BY <1>1
  <2> HIDE DEF D
  <2> QED
      BY <1>3, <2>1, <2>2
<1>5. ASSUME NEW n \in D PROVE Place(n) = n - N
  <2>1. n - N \in 0 .. T - 1 /\ n = N + (n - N)
    <3>1. n \in N .. N + T - 1
        BY <1>4
    <3> HIDE DEF D
    <3> QED
        BY <1>1, <3>1
  <2>2. \A j \in K : f.nNew + Rank(K, j) = n <=> j = n - N
    <3>1. \A j \in K : f.nNew + Rank(K, j) = N + j /\ j \in Int
        BY <1>1, <1>2
    <3> QED
        BY <1>1, <2>1, <3>1
  <2>3. n - N \in K
      BY <1>2, <2>1
  <2> HIDE DEF K
  <2> QED
      BY <2>2, <2>3
<1>6. DOMAIN f.new \cup DOMAIN tried = 0 .. N + T - 1
  <2>1. DOMAIN f.new \cup DOMAIN tried = (0 .. N - 1) \cup (N .. N + T - 1)
      BY <1>1, <1>4
  <2>2. (0 .. N - 1) \cup (N .. N + T - 1) = 0 .. N + T - 1
      BY <1>1
  <2> QED
      BY <2>1, <2>2
<1>7. Entries(f) = [n \in DOMAIN f.new \cup DOMAIN tried |-> IF n \in DOMAIN f.new THEN f.new[n] ELSE tried[n]]
    BY DEF Entries
<1>8. \A n \in 0 .. N + T - 1 : n \notin 0 .. N - 1 => tried[n] = f.tried[n - N]
  <2>1. ASSUME NEW n \in 0 .. N + T - 1, n \notin 0 .. N - 1 PROVE n \in D
    <3>1. n \in N .. N + T - 1
        BY <1>1, <2>1
    <3> QED
        BY <1>4, <3>1
  <2>2. \A n \in D : tried[n] = f.tried[Place(n)]
      OBVIOUS
  <2> QED
      BY <1>5, <2>1, <2>2
<1> HIDE DEF tried
<1> QED
    BY <1>1, <1>6, <1>7, <1>8

\* the ids that entries have when they are read back
Number(m) ==
    [n \in m.mapInfo |-> IF n \in m.fInTried THEN m.nNew + Rank(m.fInTried, n) ELSE Rank(New(m), n)]

LEMMA NumberIs ==
    ASSUME NEW m, Sound(m, {}), NEW g, g = Number(m), NEW W, W = New(m),
           NEW N, N = m.nNew, NEW T, T = m.nTried
    PROVE  /\ N \in Nat /\ T \in Nat /\ N + T <= MaxId /\ MaxId \in Nat
           /\ m.mapInfo = W \cup m.fInTried /\ W \cap m.fInTried = {}
           /\ \A n \in W : g[n] = Rank(W, n) /\ g[n] \in 0 .. N - 1
           /\ \A n \in m.fInTried : g[n] = N + Rank(m.fInTried, n) /\ g[n] \in N .. N + T - 1
           /\ \A n, k \in m.mapInfo : g[n] = g[k] => n = k
           /\ \A i \in 0 .. N + T - 1 : \E n \in m.mapInfo : g[n] = i
           /\ \A i \in N .. N + T - 1 : \E n \in m.fInTried : g[n] = i
<1> DEFINE F == m.fInTried
<1>1. /\ W \in SUBSET Nat /\ IsFiniteSet(W) /\ F \in SUBSET Nat /\ IsFiniteSet(F)
      /\ N = Cardinality(W) /\ T = Cardinality(F) /\ N \in Nat /\ T \in Nat
  <2> PICK f : f = Saved(m)
      OBVIOUS
  <2> QED
      BY SavedIs
<1>2. m.mapInfo = W \cup F /\ W \cap F = {} /\ m.mapInfo \in SUBSET Id
    BY DEF New, Sound, Totalled, AM
<1>3. N + T <= MaxId /\ MaxId \in Nat
  <2>1. Cardinality(W \cup F) = N + T - Cardinality(W \cap F) /\ Cardinality(W \cap F) = 0
      BY <1>1, <1>2, FS_Union, FS_EmptySet
  <2>2. Cardinality(m.mapInfo) <= MaxId
      BY <1>2, Domains, FS_Subset
  <2> QED
      BY <1>1, <1>2, <2>1, <2>2, AddrManAssumption
<1>4. /\ \A n \in W : Rank(W, n) \in 0 .. N - 1
      /\ \A n, k \in W : Rank(W, n) = Rank(W, k) => n = k
      /\ \A i \in 0 .. N - 1 : \E n \in W : Rank(W, n) = i
    BY <1>1, RankOf
<1>5. /\ \A n \in F : Rank(F, n) \in 0 .. T - 1
      /\ \A n, k \in F : Rank(F, n) = Rank(F, k) => n = k
      /\ \A i \in 0 .. T - 1 : \E n \in F : Rank(F, n) = i
    BY <1>1, RankOf
<1>6. \A n \in W : g[n] = Rank(W, n) /\ g[n] \in 0 .. N - 1
    BY <1>2, <1>4 DEF Number
<1>7. \A n \in F : g[n] = N + Rank(F, n)
    BY <1>2 DEF Number
<1>8. \A n \in F : g[n] \in N .. N + T - 1
    BY <1>1, <1>5, <1>7
<1>9. ASSUME NEW n \in m.mapInfo, NEW k \in m.mapInfo, g[n] = g[k] PROVE n = k
  <2>1. CASE n \in W /\ k \in W
      BY <1>4, <1>6, <1>9, <2>1
  <2>2. CASE n \in F /\ k \in F
    <3>1. N + Rank(F, n) = N + Rank(F, k) /\ Rank(F, n) \in Int /\ Rank(F, k) \in Int
        BY <1>5, <1>7, <1>9, <2>2
    <3>2. Rank(F, n) = Rank(F, k)
        BY <1>1, <3>1
    <3> QED
        BY <1>5, <2>2, <3>2
  <2>3. CASE n \in W /\ k \in F
      BY <1>1, <1>6, <1>8, <1>9, <2>3
  <2>4. CASE n \in F /\ k \in W
      BY <1>1, <1>6, <1>8, <1>9, <2>4
  <2> QED
      BY <1>2, <2>1, <2>2, <2>3, <2>4
<1>10. ASSUME NEW i \in N .. N + T - 1 PROVE \E n \in F : g[n] = i
  <2>1. i - N \in 0 .. T - 1 /\ N + (i - N) = i
      BY <1>1
  <2>2. PICK n \in F : Rank(F, n) = i - N
      BY <1>5, <2>1
  <2> QED
      BY <1>7, <2>1, <2>2
<1>11. ASSUME NEW i \in 0 .. N + T - 1 PROVE \E n \in m.mapInfo : g[n] = i
  <2>1. CASE i \in 0 .. N - 1
      BY <1>2, <1>4, <1>6, <2>1
  <2>2. CASE i \notin 0 .. N - 1
    <3>1. i \in N .. N + T - 1
        BY <1>1, <2>2
    <3> QED
        BY <1>2, <1>10, <3>1
  <2> QED
      BY <2>1, <2>2
<1> HIDE DEF F
<1> QED
    BY <1>1, <1>2, <1>3, <1>6, <1>7, <1>8, <1>9, <1>10, <1>11 DEF F

\* what was saved is read back under the numbers of the file
LEMMA LoadedRenumbers ==
    ASSUME NEW m, Sound(m, {}), NEW l, l = Loaded(Saved(m)), NEW g, g = Number(m)
    PROVE  /\ l \in AM /\ Ordered(l) /\ (\A n \in l.mapInfo : n < l.nIdCount) /\ l.nIdCount <= MaxId
           /\ Renumbered(m, l, g)
<1>0. PICK f, W, F, N, T :
          f = Saved(m) /\ W = New(m) /\ F = m.fInTried /\ N = m.nNew /\ T = m.nTried
    OBVIOUS
<1> DEFINE total == N + T
<1>1. /\ N \in Nat /\ T \in Nat /\ N + T <= MaxId /\ MaxId \in Nat
      /\ m.mapInfo = W \cup F /\ W \cap F = {}
      /\ \A n \in W : g[n] = Rank(W, n) /\ g[n] \in 0 .. N - 1
      /\ \A n \in F : g[n] = N + Rank(F, n) /\ g[n] \in N .. N + T - 1
      /\ \A n, k \in m.mapInfo : g[n] = g[k] => n = k
      /\ \A i \in 0 .. N + T - 1 : \E n \in m.mapInfo : g[n] = i
      /\ \A i \in N .. N + T - 1 : \E n \in F : g[n] = i
    BY <1>0, NumberIs
<1>2. /\ f.nNew = N
      /\ DOMAIN f.new = 0 .. N - 1 /\ DOMAIN f.tried = 0 .. T - 1
      /\ \A n \in W : /\ f.new[Rank(W, n)].addr = m.addr[n]
                      /\ f.new[Rank(W, n)].source = m.source[n]
      /\ \A n \in F : /\ Rank(F, n) \in 0 .. T - 1
                      /\ f.tried[Rank(F, n)].addr = m.addr[n]
                      /\ f.tried[Rank(F, n)].source = m.source[n]
      /\ \A b \in NewBucket : /\ DOMAIN f.vvNew[b] = m.vvNew[b]
                              /\ \A n \in m.vvNew[b] : n \in W /\ f.vvNew[b][n] = Rank(W, n)
    BY <1>0, SavedIs
<1>3. PICK e : e = Entries(f)
    OBVIOUS
<1>4. e = [n \in 0 .. N + T - 1 |-> IF n \in 0 .. N - 1 THEN f.new[n] ELSE f.tried[n - N]]
    BY <1>0, <1>3, EntriesIs
<1>5. total \in Nat /\ total <= MaxId /\ DOMAIN e = 0 .. total - 1 /\ 0 .. total - 1 \in SUBSET Id
  <2>1. total \in Nat /\ total <= MaxId
      BY <1>1
  <2>2. DOMAIN e = 0 .. total - 1
    <3>1. DOMAIN e = 0 .. N + T - 1
        BY <1>4
    <3>2. N + T - 1 = total - 1
        BY <1>1
    <3> QED
        BY <3>1, <3>2
  <2>3. 0 .. total - 1 \in SUBSET Id
    <3>1. total - 1 \in Int /\ MaxId \in Int /\ total - 1 <= MaxId - 1
        BY <1>1
    <3>2. \A i \in 0 .. total - 1 : i \in 0 .. MaxId - 1
        BY <3>1
    <3> QED
        BY <3>2 DEF Id
  <2> QED
      BY <2>1, <2>2, <2>3
<1>6. ASSUME NEW n \in m.mapInfo
      PROVE  /\ g[n] \in DOMAIN e /\ g[n] \in Id
             /\ e[g[n]].addr = m.addr[n] /\ e[g[n]].source = m.source[n]
  <2>1. CASE n \in W
    <3>1. g[n] \in 0 .. N + T - 1 /\ g[n] \in 0 .. N - 1
        BY <1>1, <2>1
    <3>2. e[g[n]] = f.new[Rank(W, n)]
        BY <1>1, <1>4, <2>1, <3>1
    <3>3. g[n] \in DOMAIN e /\ g[n] \in Id
        BY <1>4, <1>5, <3>1
    <3> QED
        BY <1>2, <2>1, <3>2, <3>3
  <2>2. CASE n \in F
    <3>1. N \in Nat /\ T \in Nat /\ g[n] = N + Rank(F, n) /\ Rank(F, n) \in 0 .. T - 1
        BY <1>1, <1>2, <2>2
    <3>2. g[n] \in 0 .. N + T - 1 /\ g[n] \notin 0 .. N - 1 /\ g[n] - N = Rank(F, n)
        BY <3>1
    <3>3. e[g[n]] = f.tried[Rank(F, n)]
        BY <1>4, <3>2
    <3>4. g[n] \in DOMAIN e /\ g[n] \in Id
        BY <1>4, <1>5, <3>2
    <3> QED
        BY <1>2, <2>2, <3>3, <3>4
  <2> QED
      BY <1>1, <2>1, <2>2
<1>7. DOMAIN e = {g[n] : n \in m.mapInfo}
  <2>1. \A i \in 0 .. total - 1 : \E n \in m.mapInfo : g[n] = i
      BY <1>0, <1>1
  <2>2. \A n \in m.mapInfo : g[n] \in DOMAIN e
      BY <1>6
  <2> QED
      BY <1>5, <2>1, <2>2
<1>8. DOMAIN e \ DOMAIN f.new = {g[n] : n \in F}
  <2>1. DOMAIN e \ DOMAIN f.new = N .. N + T - 1
    <3>1. (0 .. N + T - 1) \ (0 .. N - 1) = N .. N + T - 1
        BY <1>1
    <3> QED
        BY <1>2, <1>4, <3>1
  <2>2. /\ \A i \in N .. N + T - 1 : \E n \in F : g[n] = i
        /\ \A n \in F : g[n] \in N .. N + T - 1
      BY <1>1
  <2> QED
      BY <2>1, <2>2
<1>9. Cardinality(Kept(f)) = T
    BY <1>0, KeptAll
<1>10. /\ l.nIdCount = total /\ l.mapInfo = DOMAIN e
       /\ l.fInTried = DOMAIN e \ DOMAIN f.new
       /\ l.nNew = N /\ l.nTried = T
    BY <1>0, <1>2, <1>3, <1>9 DEF Loaded
<1>11. l.addr = [n \in Id |-> IF n \in DOMAIN e THEN e[n].addr ELSE None]
    BY <1>0, <1>3 DEF Loaded
<1>12. l.source = [n \in Id |-> IF n \in DOMAIN e THEN e[n].source ELSE NoBucket]
    BY <1>0, <1>3 DEF Loaded
<1>13. l.nRandomPos = [n \in Id |-> IF n \in DOMAIN e THEN n + 1 ELSE 0]
    BY <1>0, <1>3 DEF Loaded
<1>14. l.vRandom = [i \in 1 .. total |-> i - 1]
    BY <1>0, <1>2, <1>9 DEF Loaded
<1>15. l.nRefCount = [n \in Id |->
                        LET found == Cardinality(Earlier(f, n, NewBucketCount + 1))
                        IN IF found < BucketsPerAddress THEN found ELSE BucketsPerAddress]
    BY <1>0 DEF Loaded
<1>16. l.vvNew = [b \in NewBucket |->
                    {i \in {f.vvNew[b][n] : n \in DOMAIN f.vvNew[b]} :
                        Cardinality(Earlier(f, i, b)) < BucketsPerAddress}]
    BY <1>0 DEF Loaded
<1>17. l.vvTried = [k \in TriedBucket |->
                      {n \in DOMAIN e \ DOMAIN f.new : GetTriedBucket[e[n].addr] = k}]
    BY <1>0, <1>3 DEF Loaded
<1>18. l.mapAddr = [a \in Addr |->
                      IF \E n \in DOMAIN e : e[n].addr = a
                      THEN CHOOSE n \in DOMAIN e :
                               e[n].addr = a /\ \A i \in DOMAIN e : e[i].addr = a => i <= n
                      ELSE NoId]
    BY <1>0, <1>3 DEF Loaded
<1>19. /\ m \in AM /\ W \subseteq m.mapInfo /\ F \subseteq m.mapInfo
       /\ m.mapInfo \in SUBSET Id /\ F \in SUBSET Id
       /\ \A n \in m.mapInfo : m.addr[n] \in Addr /\ m.mapAddr[m.addr[n]] = n
       /\ \A n \in m.mapInfo : m.source[n] \in NewBucket
    BY <1>0, <1>1 DEF Sound, Addressed, AM
<1>20. ASSUME NEW n \in m.mapInfo PROVE l.addr[g[n]] = m.addr[n] /\ l.source[g[n]] = m.source[n]
    BY <1>5, <1>6, <1>11, <1>12
<1>21. NewBucketCount \in Nat \ {0} /\ NewBucket = 1 .. NewBucketCount
       /\ BucketsPerAddress \in Nat \ {0}
    BY AddrManAssumption DEF NewBucket
<1>22. ASSUME NEW i, NEW b \in 1 .. NewBucketCount + 1, \A n \in W : i # g[n]
       PROVE  Cardinality(Earlier(f, i, b)) = 0
  <2>1. \A n \in W : i # Rank(W, n)
      BY <1>1, <1>22
  <2>2. Earlier(f, i, b) = {}
      BY <1>0, <2>1, EarlierIs
  <2> QED
      BY <2>2, FS_EmptySet
<1>23. \A n \in Id : /\ m.nRefCount[n] = Cardinality(In(m, n)) + 0
                     /\ m.nRefCount[n] # 0 <=> n \in m.mapInfo \ m.fInTried
                     /\ m.nRefCount[n] <= BucketsPerAddress
    BY DEF Sound, Counted
<1>24. NewBucketCount + 1 \in 1 .. NewBucketCount + 1
    BY <1>21
<1>25. ASSUME NEW i \in Id, \A n \in W : i # g[n] PROVE l.nRefCount[i] = 0
  <2>1. Cardinality(Earlier(f, i, NewBucketCount + 1)) = 0
      BY <1>22, <1>24, <1>25
  <2> QED
      BY <1>15, <1>21, <2>1
<1>26. ASSUME NEW n \in m.mapInfo PROVE l.nRefCount[g[n]] = m.nRefCount[n]
  <2>1. CASE n \in W
    <3>1. Cardinality(Earlier(f, g[n], NewBucketCount + 1)) = Cardinality({c \in In(m, n) : c < NewBucketCount + 1})
      <4>1. PICK last \in 1 .. NewBucketCount + 1 : last = NewBucketCount + 1
          BY <1>24
      <4>2. Cardinality(Earlier(f, Rank(W, n), last)) = Cardinality({c \in In(m, n) : c < last})
          BY <1>0, <2>1, EarlierIs
      <4>3. g[n] = Rank(W, n)
          BY <1>1, <2>1
      <4> QED
          BY <4>1, <4>2, <4>3
    <3>2. {c \in In(m, n) : c < NewBucketCount + 1} = In(m, n)
        BY <1>21 DEF In
    <3>3. m.nRefCount[n] = Cardinality(In(m, n)) /\ m.nRefCount[n] <= BucketsPerAddress
        BY <1>19, <1>23, InFinite
    <3>4. Cardinality(In(m, n)) \in Nat /\ g[n] \in Id
        BY <1>6, InFinite
    <3>5. PICK found : found = Cardinality(Earlier(f, g[n], NewBucketCount + 1))
        OBVIOUS
    <3>6. l.nRefCount[g[n]] = IF found < BucketsPerAddress THEN found ELSE BucketsPerAddress
        BY <1>15, <3>4, <3>5
    <3>7. found = m.nRefCount[n] /\ found \in Nat
        BY <3>1, <3>2, <3>3, <3>4, <3>5
    <3> QED
        BY <1>21, <3>3, <3>6, <3>7
  <2>2. CASE n \in F
    <3>1. m.nRefCount[n] = 0
        BY <1>0, <1>19, <1>23, <2>2
    <3>2. \A x \in W : g[n] # g[x]
        BY <1>1, <1>19, <2>2
    <3> QED
        BY <1>6, <1>25, <3>1, <3>2
  <2> QED
      BY <1>1, <2>1, <2>2
<1>27. \A i \in Id \ l.mapInfo : l.nRefCount[i] = 0
    BY <1>7, <1>10, <1>19, <1>25
<1>28. ASSUME NEW n \in m.mapInfo PROVE l.mapAddr[m.addr[n]] = g[n]
  <2>1. PICK a \in Addr : a = m.addr[n]
      BY <1>19
  <2>2. g[n] \in DOMAIN e /\ e[g[n]].addr = a /\ g[n] <= g[n]
      BY <1>5, <1>6, <2>1
  <2>3. ASSUME NEW i \in DOMAIN e, e[i].addr = a PROVE i = g[n]
    <3>1. PICK k \in m.mapInfo : i = g[k]
        BY <1>7
    <3>2. m.addr[k] = a
        BY <1>6, <2>3, <3>1
    <3>3. k = n
        BY <1>19, <2>1, <3>2
    <3> QED
        BY <3>1, <3>3
  <2>4. (CHOOSE i \in DOMAIN e : e[i].addr = a /\ \A x \in DOMAIN e : e[x].addr = a => x <= i) = g[n]
    <3> DEFINE P(i) == e[i].addr = a /\ \A x \in DOMAIN e : e[x].addr = a => x <= i
    <3>1. P(g[n])
        BY <2>2, <2>3
    <3>2. \A i \in DOMAIN e : P(i) => i = g[n]
        BY <2>3
    <3> HIDE DEF P
    <3>3. (CHOOSE i \in DOMAIN e : P(i)) = g[n]
        BY <2>2, <3>1, <3>2
    <3> QED
        BY <3>3 DEF P
  <2>5. l.mapAddr[a] = CHOOSE i \in DOMAIN e : e[i].addr = a /\ \A x \in DOMAIN e : e[x].addr = a => x <= i
      BY <1>18, <2>2
  <2> QED
      BY <2>1, <2>4, <2>5
<1>29. ASSUME NEW a \in Addr, l.mapAddr[a] # NoId PROVE \E n \in m.mapInfo : m.addr[n] = a
  <2>1. PICK i \in DOMAIN e : e[i].addr = a
      BY <1>18, <1>29
  <2>2. PICK n \in m.mapInfo : i = g[n]
      BY <1>7
  <2> QED
      BY <1>6, <2>1, <2>2
<1>30. ASSUME NEW b \in NewBucket PROVE l.vvNew[b] = {g[n] : n \in m.vvNew[b]}
  <2>1. \A n \in m.vvNew[b] : n \in W /\ f.vvNew[b][n] = g[n]
      BY <1>1, <1>2
  <2>2. {f.vvNew[b][n] : n \in DOMAIN f.vvNew[b]} = {g[n] : n \in m.vvNew[b]}
      BY <1>2, <2>1
  <2>3. ASSUME NEW n \in m.vvNew[b] PROVE Cardinality(Earlier(f, g[n], b)) < BucketsPerAddress
    <3>1. b \in 1 .. NewBucketCount + 1 /\ b \in Nat /\ n \in W
        BY <1>21, <2>1
    <3>9. Cardinality(Earlier(f, Rank(W, n), b)) = Cardinality({c \in In(m, n) : c < b})
        BY <1>0, <3>1, EarlierIs
    <3> DEFINE C == {c \in In(m, n) : c < b}
    <3>2. Cardinality(Earlier(f, g[n], b)) = Cardinality(C)
        BY <1>1, <3>1, <3>9
    <3>3. b \in In(m, n) /\ IsFiniteSet(In(m, n)) /\ Cardinality(In(m, n)) \in Nat
        BY InFinite DEF In
    <3>4. C \in SUBSET (In(m, n) \ {b})
        BY <3>1
    <3>5. IsFiniteSet(In(m, n) \ {b}) /\ Cardinality(In(m, n) \ {b}) = Cardinality(In(m, n)) - 1
        BY <3>3, FS_RemoveElement
    <3> HIDE DEF C
    <3>6. Cardinality(C) <= Cardinality(In(m, n) \ {b}) /\ Cardinality(C) \in Nat
        BY <3>4, <3>5, FS_Subset, FS_CardinalityType
    <3>7. m.nRefCount[n] = Cardinality(In(m, n)) /\ m.nRefCount[n] <= BucketsPerAddress
        BY <1>19, <1>23, <3>1, InFinite
    <3> QED
        BY <1>21, <3>2, <3>3, <3>5, <3>6, <3>7
  <2>4. l.vvNew[b] = {i \in {f.vvNew[b][n] : n \in DOMAIN f.vvNew[b]} :
                         Cardinality(Earlier(f, i, b)) < BucketsPerAddress}
      BY <1>16
  <2> QED
      BY <2>2, <2>3, <2>4
<1>31. ASSUME NEW k \in TriedBucket PROVE l.vvTried[k] = {g[n] : n \in m.vvTried[k]}
  <2>1. m.vvTried[k] = {n \in F : GetTriedBucket[m.addr[n]] = k}
      BY <1>0, <1>19 DEF Sound, Placed, AM
  <2>2. l.vvTried[k] = {i \in {g[n] : n \in F} : GetTriedBucket[e[i].addr] = k}
      BY <1>8, <1>17
  <2>3. \A n \in F : e[g[n]].addr = m.addr[n]
      BY <1>6, <1>19
  <2> QED
      BY <2>1, <2>2, <2>3
<1>32. Renumbered(m, l, g)
  <2>1. g \in [m.mapInfo -> Id]
    <3>1. \A n \in m.mapInfo : g[n] \in Id
        BY <1>6
    <3>2. g = [n \in m.mapInfo |-> g[n]]
        BY DEF Number
    <3> QED
        BY <3>1, <3>2
  <2>2. l.mapInfo = {g[n] : n \in m.mapInfo} /\ l.fInTried = {g[n] : n \in m.fInTried}
      BY <1>0, <1>7, <1>8, <1>10
  <2>3. \A x, y \in m.mapInfo : g[x] = g[y] => x = y
      BY <1>1
  <2>4. l.nNew = m.nNew /\ l.nTried = m.nTried
      BY <1>0, <1>10
  <2> QED
      BY <1>20, <1>26, <1>27, <1>28, <1>29, <1>30, <1>31, <2>1, <2>2, <2>3, <2>4 DEF Renumbered
<1>33. l \in AM
  <2>1. l.mapInfo \in SUBSET Id /\ l.fInTried \in SUBSET Id /\ l.nIdCount \in Nat
        /\ l.nNew \in Int /\ l.nTried \in Int
      BY <1>1, <1>5, <1>10
  <2>2. l.addr \in [Id -> Addr \cup {None}]
    <3>1. \A n \in DOMAIN e : e[n].addr \in Addr
        BY <1>6, <1>7, <1>19
    <3> QED
        BY <1>11, <3>1
  <2>3. l.source \in [Id -> NewBucket]
    <3>1. \A n \in DOMAIN e : e[n].source \in NewBucket
        BY <1>6, <1>7, <1>19
    <3>2. NoBucket \in NewBucket
        BY Domains
    <3> QED
        BY <1>12, <3>1, <3>2
  <2>4. l.mapAddr \in [Addr -> Id \cup {NoId}]
    <3>1. \A a \in Addr : l.mapAddr[a] \in Id \cup {NoId}
      <4> TAKE a \in Addr
      <4>1. CASE l.mapAddr[a] = NoId
          BY <4>1
      <4>2. CASE l.mapAddr[a] # NoId
          BY <1>6, <1>28, <1>29, <4>2
      <4> QED
          BY <4>1, <4>2
    <3>2. l.mapAddr = [a \in Addr |-> l.mapAddr[a]]
        BY <1>18
    <3> QED
        BY <3>1, <3>2
  <2>5. l.nRefCount \in [Id -> Int]
    <3>1. ASSUME NEW i \in Id PROVE l.nRefCount[i] \in Int
      <4>1. CASE i \in l.mapInfo
        <5>1. PICK n \in m.mapInfo : i = g[n]
            BY <1>7, <1>10, <4>1
        <5>2. m.nRefCount[n] \in Int
            BY <1>19 DEF AM
        <5> QED
            BY <1>26, <5>1, <5>2
      <4>2. CASE i \notin l.mapInfo
          BY <1>27, <4>2
      <4> QED
          BY <4>1, <4>2
    <3>2. l.nRefCount = [i \in Id |-> l.nRefCount[i]]
        BY <1>15
    <3> QED
        BY <3>1, <3>2
  <2>6. l.vRandom \in Seq(Id)
    <3>1. \A i \in 1 .. total : i - 1 \in Id
        BY <1>5 DEF Id
    <3> QED
        BY <1>5, <1>14, <3>1
  <2>7. l.nRandomPos \in [Id -> Nat]
    <3>1. \A n \in Id : n + 1 \in Nat
        BY Domains
    <3> QED
        BY <1>13, <3>1
  <2>8. l.vvNew \in [NewBucket -> SUBSET Id]
    <3>1. \A b \in NewBucket : l.vvNew[b] \in SUBSET Id
        BY <1>1, <1>2, <1>6, <1>30
    <3>2. l.vvNew = [b \in NewBucket |-> l.vvNew[b]]
        BY <1>16
    <3> QED
        BY <3>1, <3>2
  <2>9. l.vvTried \in [TriedBucket -> SUBSET Id]
    <3>1. \A k \in TriedBucket : l.vvTried[k] \in SUBSET Id
        BY <1>5, <1>17
    <3>2. l.vvTried = [k \in TriedBucket |-> l.vvTried[k]]
        BY <1>17
    <3> QED
        BY <3>1, <3>2
  <2>10. l = [nIdCount |-> l.nIdCount, mapInfo |-> l.mapInfo, mapAddr |-> l.mapAddr,
              addr |-> l.addr, source |-> l.source, fInTried |-> l.fInTried,
              nRefCount |-> l.nRefCount, vRandom |-> l.vRandom, nRandomPos |-> l.nRandomPos,
              vvNew |-> l.vvNew, vvTried |-> l.vvTried, nNew |-> l.nNew, nTried |-> l.nTried]
    <3> DEFINE fields == [nIdCount |-> l.nIdCount, mapInfo |-> l.mapInfo, mapAddr |-> l.mapAddr,
              addr |-> l.addr, source |-> l.source, fInTried |-> l.fInTried,
              nRefCount |-> l.nRefCount, vRandom |-> l.vRandom, nRandomPos |-> l.nRandomPos,
              vvNew |-> l.vvNew, vvTried |-> l.vvTried, nNew |-> l.nNew, nTried |-> l.nTried]
    <3> QED
        BY DEF Loaded
  <2> QED
      BY <2>1, <2>2, <2>3, <2>4, <2>5, <2>6, <2>7, <2>8, <2>9, <2>10 DEF AM
<1>34. Ordered(l)
  <2>1. Len(l.vRandom) = total
      BY <1>5, <1>14
  <2>2. l.mapInfo = 0 .. total - 1 /\ \A n \in l.mapInfo : n \in Id /\ n \in Nat
      BY <1>5, <1>10, Domains
  <2>3. ASSUME NEW n \in l.mapInfo
        PROVE  l.nRandomPos[n] \in 1 .. Len(l.vRandom) /\ l.vRandom[l.nRandomPos[n]] = n
    <3>1. l.nRandomPos[n] = n + 1 /\ n + 1 \in 1 .. total
        BY <1>5, <1>10, <1>13, <2>2
    <3>2. l.vRandom[n + 1] = (n + 1) - 1
        BY <1>14, <3>1
    <3> QED
        BY <2>1, <2>2, <3>1, <3>2
  <2>4. ASSUME NEW i \in 1 .. Len(l.vRandom)
        PROVE  l.vRandom[i] \in l.mapInfo /\ l.nRandomPos[l.vRandom[i]] = i
    <3>1. i \in 1 .. total /\ l.vRandom[i] = i - 1
        BY <1>14, <2>1
    <3>2. i - 1 \in l.mapInfo
        BY <1>5, <2>2, <3>1
    <3>3. l.nRandomPos[i - 1] = (i - 1) + 1
        BY <1>10, <1>13, <2>2, <3>2
    <3> QED
        BY <3>1, <3>2, <3>3
  <2>5. Cardinality(0 .. total - 1) = total
    <3>1. Cardinality(0 .. total - 1) = IF 0 > total - 1 THEN 0 ELSE total - 1 - 0 + 1
        BY <1>5, FS_Interval
    <3> QED
        BY <1>5, <3>1
  <2> QED
      BY <2>1, <2>2, <2>3, <2>4, <2>5 DEF Ordered, Indexed
<1>35. (\A n \in l.mapInfo : n < l.nIdCount) /\ l.nIdCount <= MaxId
    BY <1>5, <1>10
<1> QED
    BY <1>32, <1>33, <1>34, <1>35

LEMMA RestartSound ==
    ASSUME Sound(am, {}), Restart
    PROVE  Sound(am', {}) /\ {am.addr[n] : n \in am.fInTried} \subseteq {am'.addr[n] : n \in am'.mapInfo}
<1>1. PICK m, l, g : m = am /\ l = Loaded(Saved(m)) /\ g = Number(m)
    OBVIOUS
<1>2. Sound(m, {}) /\ am' = l
    BY <1>1 DEF Restart
<1>3. /\ l \in AM /\ Ordered(l) /\ (\A n \in l.mapInfo : n < l.nIdCount) /\ l.nIdCount <= MaxId
      /\ Renumbered(m, l, g)
    BY <1>1, <1>2, LoadedRenumbers
<1>4. Sound(l, {})
    BY <1>2, <1>3, RenumberedSound
<1>5. {m.addr[n] : n \in m.fInTried} \subseteq {l.addr[n] : n \in l.mapInfo}
  <2>1. m.fInTried \subseteq m.mapInfo
      BY <1>2 DEF Sound, Totalled
  <2>2. \A n \in m.mapInfo : g[n] \in l.mapInfo /\ l.addr[g[n]] = m.addr[n]
      BY <1>3 DEF Renumbered
  <2> QED
      BY <2>1, <2>2
<1> QED
    BY <1>1, <1>2, <1>4, <1>5

-----------------------------------------------------------------------------
(* The theorems *)

LEMMA InitSound == Init => Sound(am, {})
<1> SUFFICES ASSUME Init PROVE Sound(am, {})
    OBVIOUS
<1>1. /\ am.nIdCount = 0 /\ am.mapAddr = [a \in Addr |-> NoId]
      /\ am.mapInfo = {} /\ am.fInTried = {} /\ am.nRefCount = [a \in Id |-> 0]
      /\ am.source = [a \in Id |-> NoBucket] /\ am.vRandom = <<>>
      /\ am.nRandomPos = [a \in Id |-> 0] /\ am.vvNew = [b \in NewBucket |-> {}]
      /\ am.vvTried = [k \in TriedBucket |-> {}] /\ am.nNew = 0 /\ am.nTried = 0
    BY DEF Init, Empty
<1>2. NoBucket \in NewBucket
    BY Domains
<1>3. am \in AM
  <2> DEFINE r == [a \in Id |-> 0]
             o == [a \in Id |-> NoBucket]
             v == [b \in NewBucket |-> {}]
             w == [k \in TriedBucket |-> {}]
             c == [a \in Addr |-> NoId]
             h == [a \in Id |-> None]
  <2>1. /\ r \in [Id -> Int] /\ r \in [Id -> Nat] /\ o \in [Id -> NewBucket]
        /\ v \in [NewBucket -> SUBSET Id] /\ w \in [TriedBucket -> SUBSET Id]
        /\ <<>> \in Seq(Id)
        /\ c \in [Addr -> Id \cup {NoId}] /\ h \in [Id -> Addr \cup {None}]
      BY <1>2
  <2>2. am = [nIdCount |-> 0, mapInfo |-> {}, mapAddr |-> c, addr |-> h, source |-> o,
              fInTried |-> {}, nRefCount |-> r, vRandom |-> <<>>, nRandomPos |-> r, vvNew |-> v, vvTried |-> w, nNew |-> 0, nTried |-> 0]
      BY DEF Init, Empty
  <2> HIDE DEF r, o, v, w, c, h
  <2> QED
      BY <2>1, <2>2 DEF AM
<1>4. Cardinality({}) = 0
    BY FS_EmptySet
<1>5. Counted(am, {})
  <2> SUFFICES ASSUME NEW a \in Id
               PROVE  /\ am.nRefCount[a] = Cardinality(In(am, a)) + 0
                      /\ am.nRefCount[a] # 0 <=> a \in am.mapInfo \ am.fInTried
                      /\ am.nRefCount[a] <= BucketsPerAddress
      BY DEF Counted
  <2>1. In(am, a) = {}
      BY <1>1 DEF In
  <2>2. am.nRefCount[a] = 0 /\ 0 <= BucketsPerAddress
      BY <1>1, AddrManAssumption
  <2> QED
      BY <1>1, <1>4, <2>1, <2>2
<1>6. Placed(am)
    BY <1>1 DEF Placed
<1>7. Totalled(am)
  <2>1. am.mapInfo \ am.fInTried = {}
      BY <1>1
  <2> QED
      BY <1>1, <1>4, <2>1 DEF Totalled
<1>8. Bounded(am)
  <2>1. /\ \A b \in NewBucket : am.vvNew[b] = {}
        /\ \A k \in TriedBucket : am.vvTried[k] = {}
        /\ 0 <= NewBucketSize /\ 0 <= TriedBucketSize
      BY <1>1, AddrManAssumption
  <2> QED
      BY <1>4, <2>1 DEF Bounded
<1>9. Ordered(am)
    BY <1>1, <1>4 DEF Ordered, Indexed
<1>10. Addressed(am)
    BY <1>1, AddrManAssumption DEF Addressed
<1> QED
    BY <1>3, <1>5, <1>6, <1>7, <1>8, <1>9, <1>10 DEF Sound

LEMMA StepSound ==
    ASSUME Sound(am, {}), [Next]_am
    PROVE  Sound(am', {}) /\ {am.addr[n] : n \in am.fInTried} \subseteq {am'.addr[n] : n \in am'.mapInfo}
<1>1. am.fInTried \subseteq am.mapInfo
    BY DEF Sound, Totalled
<1>2. ASSUME NEW a \in Addr, NEW b \in NewBucket, Add(a, b)
      PROVE  Sound(am', {}) /\ {am.addr[n] : n \in am.fInTried} \subseteq {am'.addr[n] : n \in am'.mapInfo}
  <2>1. Sound(am', {}) /\ am'.fInTried = am.fInTried /\ SameTried(am, am')
      BY <1>2, AddSound
  <2>2. am'.fInTried \subseteq am'.mapInfo
      BY <2>1 DEF Sound, Totalled
  <2> QED
      BY <2>1, <2>2 DEF SameTried
<1>3. ASSUME NEW a \in Addr, NEW b \in NewBucket, Good(a, b)
      PROVE  Sound(am', {}) /\ {am.addr[n] : n \in am.fInTried} \subseteq {am'.addr[n] : n \in am'.mapInfo}
  <2>1. Sound(am', {}) /\ am'.mapInfo = am.mapInfo /\ am'.addr = am.addr
      BY <1>3, GoodSound
  <2> QED
      BY <1>1, <2>1
<1>4. CASE GetAddr
  <2>1. Sound(am', {}) /\ am'.mapInfo = am.mapInfo /\ am'.addr = am.addr
      BY <1>4, GetAddrSound
  <2> QED
      BY <1>1, <2>1
<1>5. CASE Restart
    BY <1>5, RestartSound
<1>6. CASE UNCHANGED am
    BY <1>1, <1>6
<1> QED
    BY <1>2, <1>3, <1>4, <1>5, <1>6 DEF Next

\* a sound address manager passes Check_
LEMMA SoundChecks == Sound(am, {}) => Check
<1> SUFFICES ASSUME Sound(am, {}) PROVE Check
    OBVIOUS
<1>1. am \in AM
    BY DEF Sound
<1>2. \A a \in Id : /\ am.nRefCount[a] = Cardinality(In(am, a)) + 0
                    /\ am.nRefCount[a] # 0 <=> a \in am.mapInfo \ am.fInTried
                    /\ am.nRefCount[a] <= BucketsPerAddress
    BY DEF Sound, Counted
<1>3. \A a \in Id : am.nRefCount[a] = Cardinality(In(am, a)) /\ am.nRefCount[a] \in 0 .. BucketsPerAddress
  <2> TAKE a \in Id
  <2>1. Cardinality(In(am, a)) \in Nat
      BY InFinite
  <2>2. /\ am.nRefCount[a] = Cardinality(In(am, a)) + 0
        /\ am.nRefCount[a] <= BucketsPerAddress
      BY <1>2
  <2> QED
      BY <2>1, <2>2, AddrManAssumption
<1>4. RefsAreExact
  <2> SUFFICES ASSUME NEW a \in Id
               PROVE  /\ am.nRefCount[a] = Cardinality({b \in NewBucket : a \in am.vvNew[b]})
                      /\ am.nRefCount[a] # 0 <=> a \in am.mapInfo \ am.fInTried
      BY DEF RefsAreExact
  <2>1. In(am, a) = {b \in NewBucket : a \in am.vvNew[b]}
      BY DEF In
  <2> QED
      BY <1>2, <1>3, <2>1
<1>5. TypeOK
  <2> DEFINE R == 0 .. BucketsPerAddress
             T == 0 .. MaxId
  <2>1. am.nRefCount \in [Id -> R]
      BY <1>1, <1>3 DEF AM
  <2>2. am.nNew \in T /\ am.nTried \in T
    <3>1. am.mapInfo \ am.fInTried \in SUBSET Id /\ am.fInTried \in SUBSET Id
        BY <1>1 DEF AM
    <3>2. /\ Cardinality(am.mapInfo \ am.fInTried) \in Nat
          /\ Cardinality(am.mapInfo \ am.fInTried) <= MaxId
          /\ Cardinality(am.fInTried) \in Nat /\ Cardinality(am.fInTried) <= MaxId
        BY <1>1, <3>1, Finite, Domains, FS_Subset, FS_CardinalityType
    <3>3. am.nNew = Cardinality(am.mapInfo \ am.fInTried) /\ am.nTried = Cardinality(am.fInTried)
        BY DEF Sound, Totalled
    <3> QED
        BY <3>2, <3>3, AddrManAssumption
  <2>3. am.nIdCount \in T
      BY <1>1, AddrManAssumption DEF Sound, Addressed, AM
  <2> HIDE DEF R, T
  <2>4. am \in [nIdCount : T, mapInfo : SUBSET Id, mapAddr : [Addr -> Id \cup {NoId}],
                addr : [Id -> Addr \cup {None}], source : [Id -> NewBucket],
                fInTried : SUBSET Id, nRefCount : [Id -> R],
                vRandom : Seq(Id), nRandomPos : [Id -> Nat],
                vvNew : [NewBucket -> SUBSET Id], vvTried : [TriedBucket -> SUBSET Id],
                nNew : T, nTried : T]
      BY <1>1, <2>1, <2>2, <2>3 DEF AM
  <2> QED
      BY <2>4 DEF TypeOK, R, T
<1>6. OrderIsExact
    BY DEF Sound, Ordered, Indexed, OrderIsExact
<1>7. AddressesAreExact
    BY DEF Sound, Addressed, AddressesAreExact, Known
<1> QED
    BY <1>4, <1>5, <1>6, <1>7
    DEF Check, Sound, Placed, TriedInPlace, Totalled, TotalsAreExact, Bounded, BucketsBounded

\* a sound address manager is read back with the contents it has
LEMMA SoundReturns == Sound(am, {}) => FileRoundTrips
<1> SUFFICES ASSUME Sound(am, {}) PROVE FileRoundTrips
    OBVIOUS
<1>1. PICK l, g : l = Loaded(Saved(am)) /\ g = Number(am)
    OBVIOUS
<1>2. Renumbered(am, l, g)
    BY <1>1, LoadedRenumbers
<1>3. Contents(l) = Contents(am)
    BY <1>2, RenumberedContents
<1> QED
    BY <1>1, <1>3 DEF FileRoundTrips

(* Between two operations the whole CAddrMan is sound: counted, placed, totalled,
   bounded, ordered and addressed. *)
THEOREM SoundHolds == Spec => []Sound(am, {})
<1>1. Sound(am, {}) /\ [Next]_am => Sound(am, {})'
    BY StepSound
<1> QED
    BY InitSound, <1>1, PTL DEF Spec

(* Whatever is added, promoted, evicted, shuffled and read back under other ids,
   the structures pass the tests that CAddrMan::Check_ makes of counts, totals,
   order, addresses and buckets (all but those of the times of an entry). *)
THEOREM CheckHolds == Spec => []Check
    BY SoundHolds, SoundChecks, PTL

(* peers.dat, saved in any state, is read back with the same contents: the
   numbers that Serialize gives the entries are the ids that Unserialize
   finds them under, and no loop ends too early. *)
THEOREM RoundTrips == Spec => []FileRoundTrips
    BY SoundHolds, SoundReturns, PTL

(* A tried address keeps an entry in every step, an eviction and a restart
   included. *)
THEOREM TriedKept == Spec => TriedIsKept
<1>1. Sound(am, {}) /\ [Next]_am
      => [{am.addr[n] : n \in am.fInTried} \subseteq {am'.addr[n] : n \in am'.mapInfo}]_am
    BY StepSound
<1> QED
    BY SoundHolds, <1>1, PTL DEF Spec, TriedIsKept
=============================================================================
