---------------------------- MODULE LedgerProofs ----------------------------
(***************************************************************************)
(* The transaction index describes the coins of the chain, connecting a    *)
(* block is undone by disconnecting it, only a replaced duplicate can keep *)
(* the tip from being disconnected, and the blocks that connect are those  *)
(* that the coins of the chain allow: for any transactions and any blocks  *)
(* of them.                                                                *)
(***************************************************************************)
EXTENDS Ledger, FiniteSetTheorems, SequenceTheorems, WellFoundedInduction, TLAPS

\* an index in which every record fits its transaction
IsIndex(x) == DOMAIN x = Tx /\ \A t \in Tx : x[t] \in Record(t)

\* the unspent outputs of an index
Unspents(x) == {o \in Outpoint : x[o[1]] # Absent /\ x[o[1]].spent[o[2]] = Unspent}

\* the first i transactions of a block spend coins that exist and replace none
Fits(base, b, i) ==
    \A j \in 1..i : /\ In[b[j]] \subseteq Coins(base, b)[j - 1]
                    /\ Outputs(b[j]) \cap Coins(base, b)[j - 1] = {}

(* The chain is a history of such blocks, and its coins are in the index. *)
Described ==
    /\ TypeOK
    /\ CoinsInIndex = TipCoins
    /\ \A h \in 1..Len(chain) :
          IsInjective(chain[h]) /\ Fits(ChainCoins(chain)[h - 1], chain[h], Len(chain[h]))

(* Without a duplicate the chain holds every transaction once, with its record. *)
Unique ==
    /\ \A g, h \in 1..Len(chain) : g # h => ToSet(chain[g]) \cap ToSet(chain[h]) = {}
    /\ \A h \in 1..Len(chain) : \A t \in ToSet(chain[h]) : txindex[t] # Absent

Inv == Described /\ (~replaced => Unique)

-----------------------------------------------------------------------------
(* Records *)

Mark(r, p, t, mark) ==
    [r EXCEPT !.spent = [n \in DOMAIN @ |-> IF <<p, n>> \in In[t] THEN mark ELSE @[n]]]

IsMark(mark) == mark \in {Unspent} \cup (Height \X Tx)

LEMMA HeightPositive == Height \subseteq Nat /\ 0 \notin Height
    BY LedgerAssumption DEF Height

\* a record is absent, or has a height and a mark for each output
LEMMA RecordIs ==
    ASSUME NEW p \in Tx, NEW r
    PROVE  /\ Absent \in Record(p)
           /\ r \in Record(p) /\ r # Absent =>
                 /\ r \in [pos : Height, spent : [1..Len(Out[p]) -> {Unspent} \cup (Height \X Tx)]]
                 /\ r.pos \in Height /\ DOMAIN r.spent = 1..Len(Out[p])
                 /\ \A n \in 1..Len(Out[p]) : r.spent[n] \in {Unspent} \cup (Height \X Tx)
           /\ r \in [pos : Height, spent : [1..Len(Out[p]) -> {Unspent} \cup (Height \X Tx)]] =>
                 r \in Record(p) /\ r # Absent
<1>1. Absent.pos \notin Height
    BY HeightPositive DEF Absent
<1>2. Absent \in Record(p)
    BY DEF Record
<1>3. ASSUME r \in [pos : Height, spent : [1..Len(Out[p]) -> {Unspent} \cup (Height \X Tx)]]
      PROVE  /\ r \in Record(p) /\ r # Absent /\ r.pos \in Height
             /\ DOMAIN r.spent = 1..Len(Out[p])
             /\ \A n \in 1..Len(Out[p]) : r.spent[n] \in {Unspent} \cup (Height \X Tx)
    BY <1>1, <1>3 DEF Record
<1> QED
    BY <1>2, <1>3 DEF Record

\* s is r with the outputs that t spends marked
Marked(s, r, p, t, mark) ==
    /\ s \in Record(p) /\ (s = Absent <=> r = Absent)
    /\ r # Absent =>
          /\ s.pos = r.pos
          /\ \A n \in 1..Len(Out[p]) :
                s.spent[n] = IF <<p, n>> \in In[t] THEN mark ELSE r.spent[n]

LEMMA MarkIs ==
    ASSUME NEW p \in Tx, NEW t, NEW mark, IsMark(mark), NEW r \in Record(p)
    PROVE  Marked(Mark(r, p, t, mark), r, p, t, mark)
<1> DEFINE s == Mark(r, p, t, mark)
           M == {Unspent} \cup (Height \X Tx)
           f == [n \in 1..Len(Out[p]) |-> IF <<p, n>> \in In[t] THEN mark ELSE r.spent[n]]
<1>1. CASE r = Absent
  <2>1. Absent.spent = <<>> /\ DOMAIN Absent.spent = {}
      BY DEF Absent
  <2>2. [n \in {} |-> IF <<p, n>> \in In[t] THEN mark ELSE Absent.spent[n]] = <<>>
      OBVIOUS
  <2>3. Mark(Absent, p, t, mark) = [Absent EXCEPT !.spent = <<>>]
      BY <2>1, <2>2 DEF Mark
  <2>4. Mark(Absent, p, t, mark) = Absent
      BY <2>3 DEF Absent
  <2> QED
      BY <1>1, <2>4 DEF Marked
<1>2. CASE r # Absent
  <2>1. /\ r \in [pos : Height, spent : [1..Len(Out[p]) -> M]]
        /\ DOMAIN r.spent = 1..Len(Out[p]) /\ \A n \in 1..Len(Out[p]) : r.spent[n] \in M
      BY <1>2, RecordIs
  <2> HIDE DEF M
  <2>2. s = [r EXCEPT !.spent = f]
      BY <2>1 DEF Mark
  <2>3. f \in [1..Len(Out[p]) -> M]
      BY <2>1 DEF M, IsMark
  <2>4. \A n \in 1..Len(Out[p]) : f[n] = IF <<p, n>> \in In[t] THEN mark ELSE r.spent[n]
      OBVIOUS
  <2> HIDE DEF s, f
  <2>5. s \in [pos : Height, spent : [1..Len(Out[p]) -> M]] /\ s.pos = r.pos /\ s.spent = f
      BY <2>1, <2>2, <2>3
  <2>6. s \in Record(p) /\ s # Absent
      BY <2>5, RecordIs DEF M
  <2> QED
      BY <1>2, <2>4, <2>5, <2>6 DEF s, Marked
<1> QED
    BY <1>1, <1>2

\* coins by transaction and output
LEMMA UnspentIs ==
    ASSUME NEW x
    PROVE  /\ Unspents(x) \subseteq Outpoint
           /\ \A p \in Tx : \A n \in 1..Len(Out[p]) :
                 <<p, n>> \in Unspents(x) <=> x[p] # Absent /\ x[p].spent[n] = Unspent
    BY DEF Unspents, Outpoint

LEMMA OutpointIs == ASSUME NEW o \in Outpoint
                    PROVE  \E p \in Tx : \E n \in 1..Len(Out[p]) : o = <<p, n>>
    BY DEF Outpoint

-----------------------------------------------------------------------------
(* One transaction *)

\* index y is x after transaction t of block h has been connected
Connected(x, y, t, h) ==
    /\ IsIndex(y)
    /\ y[t] # Absent /\ y[t].pos = h /\ \A n \in 1..Len(Out[t]) : y[t].spent[n] = Unspent
    /\ \A p \in Tx \ {t} : Marked(y[p], x[p], p, t, <<h, t>>)

\* index y is x after transaction t has been disconnected
Disconnected(x, y, t) ==
    /\ IsIndex(y)
    /\ y[t] = Absent
    /\ \A p \in Tx \ {t} : Marked(y[p], x[p], p, t, Unspent)

\* the index with the queued changes
View(index, queue) == [p \in Tx |-> Fetched(index, queue, p)]

LEMMA ViewIs ==
    ASSUME NEW index, IsIndex(index), NEW queue, IsIndex(queue)
    PROVE  IsIndex(View(index, queue)) /\ \A p \in Tx : View(index, queue)[p] = Fetched(index, queue, p)
    BY DEF IsIndex, View, Fetched

LEMMA ConnectStep ==
    ASSUME NEW index, IsIndex(index), NEW queue, IsIndex(queue), NEW t \in Tx, NEW h \in Height,
           \A o \in In[t] : Spendable(index, queue, o, h)
    PROVE  LET after == Queued(index, queue, t, h) IN
           IsIndex(after) /\ Connected(View(index, queue), View(index, after), t, h)
<1> DEFINE after == Queued(index, queue, t, h)
           x == View(index, queue)
           y == View(index, after)
           new == [pos |-> h, spent |-> [n \in 1..Len(Out[t]) |-> Unspent]]
<1>1. IsIndex(x) /\ \A p \in Tx : x[p] = Fetched(index, queue, p)
    BY ViewIs
<1>2. DOMAIN after = Tx /\ after[t] = new
    BY DEF Queued
<1>3. \A p \in Tx \ {t} : (\E o \in In[t] : o[1] = p) => after[p] = Mark(x[p], p, t, <<h, t>>)
    BY <1>1 DEF Queued, Mark
<1>4. \A p \in Tx \ {t} : ~(\E o \in In[t] : o[1] = p) => after[p] = queue[p]
    BY DEF Queued
<1>5. /\ new \in Record(t) /\ new # Absent /\ new.pos = h
      /\ \A n \in 1..Len(Out[t]) : new.spent[n] = Unspent
    BY RecordIs
<1> HIDE DEF after, x, new
<1>6. IsMark(<<h, t>>)
    BY DEF IsMark
<1>7. ASSUME NEW p \in Tx \ {t}
      PROVE  /\ after[p] \in Record(p)
             /\ Marked(Fetched(index, after, p), x[p], p, t, <<h, t>>)
  <2>1. CASE \E o \in In[t] : o[1] = p
    <3>1. PICK o \in In[t] : o[1] = p
        BY <2>1
    <3>2. x[p] # Absent /\ x[p] \in Record(p)
      <4>1. Fetched(index, queue, o[1]) # Absent
          BY <3>1 DEF Spendable, Found
      <4> QED
          BY <1>1, <3>1, <4>1 DEF IsIndex
    <3>3. after[p] = Mark(x[p], p, t, <<h, t>>)
        BY <1>3, <2>1
    <3>4. Marked(after[p], x[p], p, t, <<h, t>>)
        BY <1>6, <3>2, <3>3, MarkIs
    <3>5. Fetched(index, after, p) = after[p]
        BY <3>2, <3>4 DEF Fetched, Marked
    <3> QED
        BY <3>4, <3>5 DEF Marked
  <2>2. CASE ~\E o \in In[t] : o[1] = p
    <3>1. after[p] = queue[p] /\ Fetched(index, after, p) = x[p]
        BY <1>1, <1>4, <2>2 DEF Fetched
    <3>2. \A n \in 1..Len(Out[p]) : <<p, n>> \notin In[t]
        BY <2>2
    <3> QED
        BY <1>1, <3>1, <3>2 DEF Marked, IsIndex
  <2> QED
      BY <2>1, <2>2
<1>8. IsIndex(after)
    BY <1>2, <1>5, <1>7 DEF IsIndex
<1>9. IsIndex(y) /\ \A p \in Tx : y[p] = Fetched(index, after, p)
    BY <1>8, ViewIs
<1>10. y[t] = new
    BY <1>2, <1>5, <1>9 DEF Fetched
<1> HIDE DEF y
<1>11. Connected(x, y, t, h)
    BY <1>5, <1>7, <1>9, <1>10 DEF Connected
<1> QED
    BY <1>8, <1>11 DEF after, x, y

LEMMA DisconnectStep ==
    ASSUME NEW x, IsIndex(x), NEW t \in Tx
    PROVE  Disconnected(x, [Released(x, t) EXCEPT ![t] = Absent], t)
<1> DEFINE y == [Released(x, t) EXCEPT ![t] = Absent]
<1>1. DOMAIN y = Tx /\ y[t] = Absent /\ \A p \in Tx \ {t} : y[p] = Mark(x[p], p, t, Unspent)
    BY DEF Released, Mark
<1> HIDE DEF y
<1>2. ASSUME NEW p \in Tx \ {t} PROVE Marked(y[p], x[p], p, t, Unspent)
  <2>1. x[p] \in Record(p) /\ IsMark(Unspent) /\ y[p] = Mark(x[p], p, t, Unspent)
      BY <1>1 DEF IsIndex, IsMark
  <2> QED
      BY <2>1, MarkIs
<1>3. IsIndex(y)
    BY <1>1, <1>2, RecordIs DEF IsIndex, Marked
<1> QED
    BY <1>1, <1>2, <1>3 DEF Disconnected, y

\* the coins after a transaction has been connected and disconnected
LEMMA CoinsStep ==
    ASSUME NEW x, NEW y, NEW t \in Tx, NEW h \in Height, Connected(x, y, t, h)
    PROVE  Unspents(y) = Spend(Unspents(x), t)
<1>1. Outputs(t) \subseteq Outpoint /\ Unspents(x) \subseteq Outpoint /\ Unspents(y) \subseteq Outpoint
    BY UnspentIs DEF Outputs, Outpoint
<1>2. <<h, t>> # Unspent
    BY HeightPositive DEF Unspent
<1>3. ASSUME NEW p \in Tx, NEW n \in 1..Len(Out[p])
      PROVE  <<p, n>> \in Unspents(y) <=> <<p, n>> \in Spend(Unspents(x), t)
  <2>1. <<p, n>> \in Unspents(y) <=> y[p] # Absent /\ y[p].spent[n] = Unspent
      BY UnspentIs
  <2>2. <<p, n>> \in Unspents(x) <=> x[p] # Absent /\ x[p].spent[n] = Unspent
      BY UnspentIs
  <2>3. CASE p = t
      BY <2>1, <2>3 DEF Connected, Spend, Outputs
  <2>4. CASE p # t
    <3>1. Marked(y[p], x[p], p, t, <<h, t>>)
        BY <2>4 DEF Connected
    <3>2. <<p, n>> \notin Outputs(t)
        BY <2>4 DEF Outputs
    <3>3. <<p, n>> \in Spend(Unspents(x), t) <=> <<p, n>> \in Unspents(x) /\ <<p, n>> \notin In[t]
        BY <3>2 DEF Spend
    <3> QED
        BY <1>2, <2>1, <2>2, <3>1, <3>3 DEF Marked
  <2> QED
      BY <2>3, <2>4
<1>4. \A o \in Outpoint : o \in Unspents(y) <=> o \in Spend(Unspents(x), t)
    BY <1>3, OutpointIs
<1>5. Spend(Unspents(x), t) \subseteq Outpoint
    BY <1>1 DEF Spend
<1> QED
    BY <1>1, <1>4, <1>5

LEMMA CoinsBack ==
    ASSUME NEW x, IsIndex(x), NEW y, NEW t \in Tx, Disconnected(x, y, t),
           \A o \in In[t] : o \in Outpoint /\ x[o[1]] # Absent
    PROVE  Unspents(y) = (Unspents(x) \cup In[t]) \ Outputs(t)
<1>1. In[t] \subseteq Outpoint /\ Unspents(x) \subseteq Outpoint /\ Unspents(y) \subseteq Outpoint
    BY UnspentIs
<1>2. ASSUME NEW p \in Tx, NEW n \in 1..Len(Out[p])
      PROVE  <<p, n>> \in Unspents(y) <=> <<p, n>> \in (Unspents(x) \cup In[t]) \ Outputs(t)
  <2>1. <<p, n>> \in Unspents(y) <=> y[p] # Absent /\ y[p].spent[n] = Unspent
      BY UnspentIs
  <2>2. <<p, n>> \in Unspents(x) <=> x[p] # Absent /\ x[p].spent[n] = Unspent
      BY UnspentIs
  <2>3. CASE p = t
      BY <2>1, <2>3 DEF Disconnected, Outputs
  <2>4. CASE p # t
    <3>1. Marked(y[p], x[p], p, t, Unspent)
        BY <2>4 DEF Disconnected
    <3>2. <<p, n>> \notin Outputs(t)
        BY <2>4 DEF Outputs
    <3>3. <<p, n>> \in In[t] => x[p] # Absent
      <4>1. <<p, n>>[1] = p
          OBVIOUS
      <4> QED
          BY <4>1
    <3> QED
        BY <2>1, <2>2, <3>1, <3>2, <3>3 DEF Marked
  <2> QED
      BY <2>3, <2>4
<1>3. \A o \in Outpoint : o \in Unspents(y) <=> o \in (Unspents(x) \cup In[t]) \ Outputs(t)
    BY <1>2, OutpointIs
<1> QED
    BY <1>1, <1>3

-----------------------------------------------------------------------------
(* Blocks and chains: the rounds of the loops, by induction on them *)

LEMMA LeastNat ==
    ASSUME NEW T, T \subseteq Nat, T # {}
    PROVE  \E x \in T : \A y \in T : x <= y
<1>1. \E x \in T : \A y \in T : ~(<<y, x>> \in OpToRel(<, Nat))
    BY NatLessThanWellFounded, WFMin
<1>2. OpToRel(<, Nat) = {ss \in Nat \X Nat : ss[1] < ss[2]}
    BY Zenon DEF OpToRel
<1>3. \E x \in T : \A y \in T : ~(<<y, x>> \in {ss \in Nat \X Nat : ss[1] < ss[2]})
    BY <1>1, <1>2, Zenon
<1>4. PICK x \in T : \A y \in T : ~(<<y, x>> \in {ss \in Nat \X Nat : ss[1] < ss[2]})
    BY <1>3
<1>5. ASSUME NEW y \in T PROVE x <= y
  <2>1. x \in Nat /\ y \in Nat
      OBVIOUS
  <2>2. ~(y < x)
      BY <1>4, <2>1
  <2> QED
      BY <2>1, <2>2
<1> QED
    BY <1>5

LEMMA NatInd ==
    ASSUME NEW S, 0 \in S, \A n \in S \cap Nat : n + 1 \in S
    PROVE  Nat \subseteq S
<1> SUFFICES ASSUME Nat \ S # {} PROVE FALSE
    OBVIOUS
<1>1. PICK x \in Nat \ S : \A y \in Nat \ S : x <= y
  <2>1. Nat \ S \subseteq Nat
      OBVIOUS
  <2> QED
      BY <2>1, LeastNat
<1>2. x # 0 /\ x - 1 \in Nat /\ x - 1 \in S
    BY <1>1
<1>3. (x - 1) + 1 \in S
    BY <1>2
<1> QED
    BY <1>1, <1>2, <1>3

CoinsFirst(base, b) == base
CoinsRound(base, b, s, i) == Spend(s, b[i])
IsCoins(r, base, b, n) ==
    r = [i \in 0..n |-> IF i = 0 THEN CoinsFirst(base, b) ELSE CoinsRound(base, b, r[i - 1], i)]

LEMMA CoinsExist ==
    ASSUME NEW base, NEW b
    PROVE  \A n \in Nat : \E r : IsCoins(r, base, b, n)
<1> DEFINE S == {n \in Nat : \E r : IsCoins(r, base, b, n)}
<1>1. 0 \in S
  <2> DEFINE r == [i \in 0..0 |-> CoinsFirst(base, b)]
  <2>1. IsCoins(r, base, b, 0)
      BY DEF IsCoins
  <2> QED
      BY <2>1
<1>2. ASSUME NEW n \in S \cap Nat PROVE n + 1 \in S
  <2>1. PICK r : IsCoins(r, base, b, n)
      OBVIOUS
  <2> DEFINE new == CoinsRound(base, b, r[n], n + 1)
             g == [i \in 0..n + 1 |-> IF i = n + 1 THEN new ELSE r[i]]
  <2>2. \A i \in 0..n : r[i] = IF i = 0 THEN CoinsFirst(base, b) ELSE CoinsRound(base, b, r[i - 1], i)
      BY <2>1 DEF IsCoins
  <2> HIDE DEF new
  <2>3. g[n + 1] = new /\ \A i \in 0..n : g[i] = r[i]
      OBVIOUS
  <2> DEFINE s == [i \in 0..n + 1 |-> IF i = 0 THEN CoinsFirst(base, b) ELSE CoinsRound(base, b, g[i - 1], i)]
  <2>4. ASSUME NEW i \in 0..n + 1
        PROVE  g[i] = IF i = 0 THEN CoinsFirst(base, b) ELSE CoinsRound(base, b, g[i - 1], i)
    <3> HIDE DEF g
    <3>1. CASE i = n + 1
      <4>1. i - 1 = n /\ i # 0 /\ n \in 0..n
          BY <3>1
      <4>2. g[i - 1] = r[n]
          BY <2>3, <4>1
      <4> QED
          BY <2>3, <3>1, <4>1, <4>2 DEF new
    <3>2. CASE i = 0
        BY <2>2, <2>3, <3>2
    <3>3. CASE i # 0 /\ i # n + 1
      <4>1. i \in 0..n /\ i - 1 \in 0..n
          BY <3>3
      <4>2. g[i] = r[i] /\ g[i - 1] = r[i - 1]
          BY <2>3, <4>1
      <4>3. r[i] = CoinsRound(base, b, r[i - 1], i)
          BY <2>2, <3>3, <4>1
      <4> QED
          BY <3>3, <4>2, <4>3
    <3> QED
        BY <3>1, <3>2, <3>3
  <2>5. g = s
      BY <2>4
  <2>6. IsCoins(g, base, b, n + 1)
      BY <2>5 DEF IsCoins
  <2> QED
      BY <2>6
<1>3. Nat \subseteq S
  <2> HIDE DEF S
  <2> QED
      BY <1>1, <1>2, NatInd
<1> QED
    BY <1>3

ChainFirst(blocks) == {}
ChainRound(blocks, s, i) == Coins(s, blocks[i])[Len(blocks[i])]
IsChain(r, blocks, n) ==
    r = [i \in 0..n |-> IF i = 0 THEN ChainFirst(blocks) ELSE ChainRound(blocks, r[i - 1], i)]

LEMMA ChainExists ==
    ASSUME NEW blocks
    PROVE  \A n \in Nat : \E r : IsChain(r, blocks, n)
<1> DEFINE S == {n \in Nat : \E r : IsChain(r, blocks, n)}
<1>1. 0 \in S
  <2> DEFINE r == [i \in 0..0 |-> ChainFirst(blocks)]
  <2>1. IsChain(r, blocks, 0)
      BY DEF IsChain
  <2> QED
      BY <2>1
<1>2. ASSUME NEW n \in S \cap Nat PROVE n + 1 \in S
  <2>1. PICK r : IsChain(r, blocks, n)
      OBVIOUS
  <2> DEFINE new == ChainRound(blocks, r[n], n + 1)
             g == [i \in 0..n + 1 |-> IF i = n + 1 THEN new ELSE r[i]]
  <2>2. \A i \in 0..n : r[i] = IF i = 0 THEN ChainFirst(blocks) ELSE ChainRound(blocks, r[i - 1], i)
      BY <2>1 DEF IsChain
  <2> HIDE DEF new
  <2>3. g[n + 1] = new /\ \A i \in 0..n : g[i] = r[i]
      OBVIOUS
  <2> DEFINE s == [i \in 0..n + 1 |-> IF i = 0 THEN ChainFirst(blocks) ELSE ChainRound(blocks, g[i - 1], i)]
  <2>4. ASSUME NEW i \in 0..n + 1
        PROVE  g[i] = IF i = 0 THEN ChainFirst(blocks) ELSE ChainRound(blocks, g[i - 1], i)
    <3> HIDE DEF g
    <3>1. CASE i = n + 1
      <4>1. i - 1 = n /\ i # 0 /\ n \in 0..n
          BY <3>1
      <4>2. g[i - 1] = r[n]
          BY <2>3, <4>1
      <4> QED
          BY <2>3, <3>1, <4>1, <4>2 DEF new
    <3>2. CASE i = 0
        BY <2>2, <2>3, <3>2
    <3>3. CASE i # 0 /\ i # n + 1
      <4>1. i \in 0..n /\ i - 1 \in 0..n
          BY <3>3
      <4>2. g[i] = r[i] /\ g[i - 1] = r[i - 1]
          BY <2>3, <4>1
      <4>3. r[i] = ChainRound(blocks, r[i - 1], i)
          BY <2>2, <3>3, <4>1
      <4> QED
          BY <3>3, <4>2, <4>3
    <3> QED
        BY <3>1, <3>2, <3>3
  <2>5. g = s
      BY <2>4
  <2>6. IsChain(g, blocks, n + 1)
      BY <2>5 DEF IsChain
  <2> QED
      BY <2>6
<1>3. Nat \subseteq S
  <2> HIDE DEF S
  <2> QED
      BY <1>1, <1>2, NatInd
<1> QED
    BY <1>3

ScanFirst(index, b, h) == [ok |-> TRUE, queue |-> NoRecords, fees |-> 0]
ScanRound(index, b, h, s, i) == ConnectTx(index, s, b[i], h)
IsScan(r, index, b, h, n) ==
    r = [i \in 0..n |-> IF i = 0 THEN ScanFirst(index, b, h) ELSE ScanRound(index, b, h, r[i - 1], i)]

LEMMA ScanExists ==
    ASSUME NEW index, NEW b, NEW h
    PROVE  \A n \in Nat : \E r : IsScan(r, index, b, h, n)
<1> DEFINE S == {n \in Nat : \E r : IsScan(r, index, b, h, n)}
<1>1. 0 \in S
  <2> DEFINE r == [i \in 0..0 |-> ScanFirst(index, b, h)]
  <2>1. IsScan(r, index, b, h, 0)
      BY DEF IsScan
  <2> QED
      BY <2>1
<1>2. ASSUME NEW n \in S \cap Nat PROVE n + 1 \in S
  <2>1. PICK r : IsScan(r, index, b, h, n)
      OBVIOUS
  <2> DEFINE new == ScanRound(index, b, h, r[n], n + 1)
             g == [i \in 0..n + 1 |-> IF i = n + 1 THEN new ELSE r[i]]
  <2>2. \A i \in 0..n : r[i] = IF i = 0 THEN ScanFirst(index, b, h) ELSE ScanRound(index, b, h, r[i - 1], i)
      BY <2>1 DEF IsScan
  <2> HIDE DEF new
  <2>3. g[n + 1] = new /\ \A i \in 0..n : g[i] = r[i]
      OBVIOUS
  <2> DEFINE s == [i \in 0..n + 1 |-> IF i = 0 THEN ScanFirst(index, b, h) ELSE ScanRound(index, b, h, g[i - 1], i)]
  <2>4. ASSUME NEW i \in 0..n + 1
        PROVE  g[i] = IF i = 0 THEN ScanFirst(index, b, h) ELSE ScanRound(index, b, h, g[i - 1], i)
    <3> HIDE DEF g
    <3>1. CASE i = n + 1
      <4>1. i - 1 = n /\ i # 0 /\ n \in 0..n
          BY <3>1
      <4>2. g[i - 1] = r[n]
          BY <2>3, <4>1
      <4> QED
          BY <2>3, <3>1, <4>1, <4>2 DEF new
    <3>2. CASE i = 0
        BY <2>2, <2>3, <3>2
    <3>3. CASE i # 0 /\ i # n + 1
      <4>1. i \in 0..n /\ i - 1 \in 0..n
          BY <3>3
      <4>2. g[i] = r[i] /\ g[i - 1] = r[i - 1]
          BY <2>3, <4>1
      <4>3. r[i] = ScanRound(index, b, h, r[i - 1], i)
          BY <2>2, <3>3, <4>1
      <4> QED
          BY <3>3, <4>2, <4>3
    <3> QED
        BY <3>1, <3>2, <3>3
  <2>5. g = s
      BY <2>4
  <2>6. IsScan(g, index, b, h, n + 1)
      BY <2>5 DEF IsScan
  <2> QED
      BY <2>6
<1>3. Nat \subseteq S
  <2> HIDE DEF S
  <2> QED
      BY <1>1, <1>2, NatInd
<1> QED
    BY <1>3

UndoFirst(index, b) == [ok |-> TRUE, index |-> index]
UndoRound(index, b, s, i) == DisconnectTx(s, b[Len(b) + 1 - i])
IsUndo(r, index, b, n) ==
    r = [i \in 0..n |-> IF i = 0 THEN UndoFirst(index, b) ELSE UndoRound(index, b, r[i - 1], i)]

LEMMA UndoExists ==
    ASSUME NEW index, NEW b
    PROVE  \A n \in Nat : \E r : IsUndo(r, index, b, n)
<1> DEFINE S == {n \in Nat : \E r : IsUndo(r, index, b, n)}
<1>1. 0 \in S
  <2> DEFINE r == [i \in 0..0 |-> UndoFirst(index, b)]
  <2>1. IsUndo(r, index, b, 0)
      BY DEF IsUndo
  <2> QED
      BY <2>1
<1>2. ASSUME NEW n \in S \cap Nat PROVE n + 1 \in S
  <2>1. PICK r : IsUndo(r, index, b, n)
      OBVIOUS
  <2> DEFINE new == UndoRound(index, b, r[n], n + 1)
             g == [i \in 0..n + 1 |-> IF i = n + 1 THEN new ELSE r[i]]
  <2>2. \A i \in 0..n : r[i] = IF i = 0 THEN UndoFirst(index, b) ELSE UndoRound(index, b, r[i - 1], i)
      BY <2>1 DEF IsUndo
  <2> HIDE DEF new
  <2>3. g[n + 1] = new /\ \A i \in 0..n : g[i] = r[i]
      OBVIOUS
  <2> DEFINE s == [i \in 0..n + 1 |-> IF i = 0 THEN UndoFirst(index, b) ELSE UndoRound(index, b, g[i - 1], i)]
  <2>4. ASSUME NEW i \in 0..n + 1
        PROVE  g[i] = IF i = 0 THEN UndoFirst(index, b) ELSE UndoRound(index, b, g[i - 1], i)
    <3> HIDE DEF g
    <3>1. CASE i = n + 1
      <4>1. i - 1 = n /\ i # 0 /\ n \in 0..n
          BY <3>1
      <4>2. g[i - 1] = r[n]
          BY <2>3, <4>1
      <4> QED
          BY <2>3, <3>1, <4>1, <4>2 DEF new
    <3>2. CASE i = 0
        BY <2>2, <2>3, <3>2
    <3>3. CASE i # 0 /\ i # n + 1
      <4>1. i \in 0..n /\ i - 1 \in 0..n
          BY <3>3
      <4>2. g[i] = r[i] /\ g[i - 1] = r[i - 1]
          BY <2>3, <4>1
      <4>3. r[i] = UndoRound(index, b, r[i - 1], i)
          BY <2>2, <3>3, <4>1
      <4> QED
          BY <3>3, <4>2, <4>3
    <3> QED
        BY <3>1, <3>2, <3>3
  <2>5. g = s
      BY <2>4
  <2>6. IsUndo(g, index, b, n + 1)
      BY <2>5 DEF IsUndo
  <2> QED
      BY <2>6
<1>3. Nat \subseteq S
  <2> HIDE DEF S
  <2> QED
      BY <1>1, <1>2, NatInd
<1> QED
    BY <1>3

\* the coins within a block
LEMMA CoinsRounds ==
    ASSUME NEW base, NEW b \in Seq(Tx)
    PROVE  /\ Coins(base, b)[0] = base
           /\ \A i \in 1..Len(b) : Coins(base, b)[i] = Spend(Coins(base, b)[i - 1], b[i])
<1>1. Len(b) \in Nat
    OBVIOUS
<1>2. IsCoins(Coins(base, b), base, b, Len(b))
  <2>1. Coins(base, b) = CHOOSE r : IsCoins(r, base, b, Len(b))
      BY DEF Coins, IsCoins, CoinsFirst, CoinsRound
  <2> QED
      BY <1>1, <2>1, CoinsExist
<1> QED
    BY <1>1, <1>2 DEF IsCoins, CoinsFirst, CoinsRound

\* the coins after each block
LEMMA ChainRounds ==
    ASSUME NEW blocks \in Seq(Candidates)
    PROVE  /\ ChainCoins(blocks)[0] = {}
           /\ \A h \in 1..Len(blocks) :
                 ChainCoins(blocks)[h] = Coins(ChainCoins(blocks)[h - 1], blocks[h])[Len(blocks[h])]
<1>1. Len(blocks) \in Nat
    OBVIOUS
<1>2. IsChain(ChainCoins(blocks), blocks, Len(blocks))
  <2>1. ChainCoins(blocks) = CHOOSE r : IsChain(r, blocks, Len(blocks))
      BY DEF ChainCoins, IsChain, ChainFirst, ChainRound
  <2> QED
      BY <1>1, <2>1, ChainExists
<1>3. /\ ChainCoins(blocks)[0] = ChainFirst(blocks)
      /\ \A h \in 1..Len(blocks) :
            ChainCoins(blocks)[h] = ChainRound(blocks, ChainCoins(blocks)[h - 1], h)
    BY <1>1, <1>2 DEF IsChain
<1> QED
    BY <1>3 DEF ChainFirst, ChainRound

ScanBy(r, index, b, h) ==
    /\ Scan(index, b, h) = r[Len(b)]
    /\ r[0] = [ok |-> TRUE, queue |-> NoRecords, fees |-> 0]
    /\ \A i \in 1..Len(b) : r[i] = ConnectTx(index, r[i - 1], b[i], h)

LEMMA ScanRounds ==
    ASSUME NEW index, NEW b \in Seq(Tx), NEW h
    PROVE  \E r : ScanBy(r, index, b, h)
<1> DEFINE r == CHOOSE r : IsScan(r, index, b, h, Len(b))
<1>1. Len(b) \in Nat
    OBVIOUS
<1>2. Scan(index, b, h) = r[Len(b)]
    BY DEF Scan, IsScan, ScanFirst, ScanRound
<1>3. IsScan(r, index, b, h, Len(b))
    BY <1>1, ScanExists
<1> HIDE DEF r
<1>4. /\ r[0] = ScanFirst(index, b, h)
      /\ \A i \in 1..Len(b) : r[i] = ScanRound(index, b, h, r[i - 1], i)
    BY <1>1, <1>3 DEF IsScan
<1> QED
    BY <1>2, <1>4 DEF ScanFirst, ScanRound, ScanBy

UndoBy(r, index, b) ==
    /\ Undo(index, b) = r[Len(b)]
    /\ r[0] = [ok |-> TRUE, index |-> index]
    /\ \A i \in 1..Len(b) : r[i] = DisconnectTx(r[i - 1], b[Len(b) + 1 - i])

LEMMA UndoRounds ==
    ASSUME NEW index, NEW b \in Seq(Tx)
    PROVE  \E r : UndoBy(r, index, b)
<1> DEFINE r == CHOOSE r : IsUndo(r, index, b, Len(b))
<1>1. Len(b) \in Nat
    OBVIOUS
<1>2. Undo(index, b) = r[Len(b)]
    BY DEF Undo, IsUndo, UndoFirst, UndoRound
<1>3. IsUndo(r, index, b, Len(b))
    BY <1>1, UndoExists
<1> HIDE DEF r
<1>4. /\ r[0] = [ok |-> TRUE, index |-> index]
      /\ \A i \in 1..Len(b) : r[i] = DisconnectTx(r[i - 1], b[Len(b) + 1 - i])
    BY <1>1, <1>3 DEF IsUndo, UndoFirst, UndoRound
<1> QED
    BY <1>2, <1>4 DEF UndoBy

-----------------------------------------------------------------------------
(* Connecting a block *)

LEMMA ConnectTxIs ==
    ASSUME NEW index, NEW r, "ok" \in DOMAIN r, NEW t, NEW h
    PROVE  LET s == ConnectTx(index, r, t, h) IN
           /\ "ok" \in DOMAIN s
           /\ s.ok => /\ r.ok /\ ~Overwrites(index, t)
                      /\ \A o \in In[t] : Spendable(index, r.queue, o, h)
                      /\ s.queue = Queued(index, r.queue, t, h)
<1> DEFINE c == /\ r.ok /\ ~Overwrites(index, t)
                /\ \A o \in In[t] : Spendable(index, r.queue, o, h)
                /\ t \notin Coinbase => ValueOf(In[t]) >= ValueOut(t)
           s == ConnectTx(index, r, t, h)
           f == r.fees + IF t \in Coinbase THEN 0 ELSE ValueOf(In[t]) - ValueOut(t)
<1>1. s = IF c THEN [ok |-> TRUE, queue |-> Queued(index, r.queue, t, h), fees |-> f]
          ELSE [r EXCEPT !.ok = FALSE]
    BY Zenon DEF ConnectTx
<1>2. c => r.ok /\ ~Overwrites(index, t) /\ \A o \in In[t] : Spendable(index, r.queue, o, h)
    OBVIOUS
<1> HIDE DEF c, s, f
<1>3. CASE c
    BY <1>1, <1>2, <1>3 DEF s
<1>4. CASE ~c
  <2>1. s = [r EXCEPT !.ok = FALSE]
      BY <1>1, <1>4
  <2>2. "ok" \in DOMAIN s /\ ~s.ok
      BY <2>1
  <2> QED
      BY <2>2 DEF s
<1> QED
    BY <1>3, <1>4

\* only the outputs of the block's own transactions are new coins
LEMMA NewCoins ==
    ASSUME NEW base, NEW b \in Seq(Tx), NEW i \in 0..Len(b), NEW o \in Coins(base, b)[i]
    PROVE  o \in base \/ \E j \in 1..i : o \in Outputs(b[j])
<1> DEFINE S == {n \in Nat : n <= Len(b) =>
                    \A q \in Coins(base, b)[n] : q \in base \/ \E j \in 1..n : q \in Outputs(b[j])}
<1>1. 0 \in S
    BY CoinsRounds
<1>2. ASSUME NEW n \in S \cap Nat PROVE n + 1 \in S
  <2> SUFFICES ASSUME n + 1 <= Len(b), NEW q \in Coins(base, b)[n + 1]
               PROVE  q \in base \/ \E j \in 1..n + 1 : q \in Outputs(b[j])
      OBVIOUS
  <2>1. PICK m \in 1..Len(b) : m = n + 1 /\ m - 1 = n
      OBVIOUS
  <2>2. Coins(base, b)[m] = Spend(Coins(base, b)[m - 1], b[m])
      BY CoinsRounds
  <2>3. q \in Coins(base, b)[n] \/ q \in Outputs(b[m])
      BY <2>1, <2>2 DEF Spend
  <2>4. \A j \in 1..n : j \in 1..n + 1
      OBVIOUS
  <2> QED
      BY <2>1, <2>3, <2>4
<1>3. Nat \subseteq S
  <2> HIDE DEF S
  <2> QED
      BY <1>1, <1>2, NatInd
<1> QED
    BY <1>3

\* the indexes between the transactions of a block that is connected
Steps(v, index, b, h) ==
    /\ \A i \in 0..Len(b) : IsIndex(v[i]) /\ Unspents(v[i]) = Coins(Unspents(index), b)[i]
    /\ \A p \in Tx : v[0][p] = index[p]
    /\ \A i \in 1..Len(b) : /\ Connected(v[i - 1], v[i], b[i], h)
                            /\ In[b[i]] \subseteq Unspents(v[i - 1])
    /\ \A i \in 1..Len(b) : Outputs(b[i]) \cap Unspents(index) = {}

\* what an input spends is a coin
LEMMA SpendableIsCoin ==
    ASSUME NEW index, IsIndex(index), NEW queue, IsIndex(queue), NEW t \in Tx, NEW h,
           \A o \in In[t] : Spendable(index, queue, o, h)
    PROVE  In[t] \subseteq Unspents(View(index, queue))
<1> SUFFICES ASSUME NEW o \in In[t] PROVE o \in Unspents(View(index, queue))
    OBVIOUS
<1> DEFINE x == View(index, queue)
<1>0. In[t] \subseteq Tx \X Nat
    BY TxAssumption
<1>1. PICK p \in Tx, n \in Nat : o = <<p, n>> /\ o[1] = p /\ o[2] = n
    BY <1>0
<1>2. IsIndex(x) /\ x[p] = Fetched(index, queue, p)
    BY ViewIs
<1>3. Spendable(index, queue, o, h)
    OBVIOUS
<1> HIDE DEF x
<1>4. x[p] # Absent /\ n \in DOMAIN x[p].spent /\ x[p].spent[n] = Unspent
    BY <1>1, <1>2, <1>3 DEF Spendable, Found
<1>5. n \in 1..Len(Out[p])
    BY <1>2, <1>4, RecordIs DEF IsIndex
<1> QED
    BY <1>1, <1>4, <1>5, UnspentIs DEF x

\* BIP30: a transaction that may be connected has no coins in the index
LEMMA OverwritesNone ==
    ASSUME NEW index, IsIndex(index), NEW t \in Tx, ~Overwrites(index, t)
    PROVE  Outputs(t) \cap Unspents(index) = {}
<1> SUFFICES ASSUME NEW n \in 1..Len(Out[t]), <<t, n>> \in Unspents(index) PROVE FALSE
    BY DEF Outputs
<1>1. index[t] # Absent /\ index[t].spent[n] = Unspent
    BY UnspentIs
<1>2. index[t] \in Record(t)
    BY DEF IsIndex
<1>3. DOMAIN index[t].spent = 1..Len(Out[t])
    BY <1>1, <1>2, RecordIs
<1> QED
    BY <1>1, <1>3 DEF Overwrites

LEMMA BlockConnects ==
    ASSUME NEW index, IsIndex(index), NEW b \in Seq(Tx), NEW h \in Height, Scan(index, b, h).ok
    PROVE  \E v : Steps(v, index, b, h) /\ v[Len(b)] = Updated(index, b, h)
<1>1. PICK r : /\ Scan(index, b, h) = r[Len(b)]
               /\ r[0] = [ok |-> TRUE, queue |-> NoRecords, fees |-> 0]
               /\ \A i \in 1..Len(b) : r[i] = ConnectTx(index, r[i - 1], b[i], h)
  <2>1. PICK r : ScanBy(r, index, b, h)
      BY ScanRounds
  <2> QED
      BY <2>1 DEF ScanBy
<1>2. Len(b) \in Nat /\ \A i \in 1..Len(b) : b[i] \in Tx
    OBVIOUS
<1> DEFINE v == [i \in 0..Len(b) |-> View(index, r[i].queue)]
           base == Unspents(index)
<1>3. \A i \in 0..Len(b) : "ok" \in DOMAIN r[i]
  <2> DEFINE S == {n \in Nat : n <= Len(b) => "ok" \in DOMAIN r[n]}
  <2>1. 0 \in S
      BY <1>1
  <2>2. ASSUME NEW n \in S \cap Nat PROVE n + 1 \in S
    <3> SUFFICES ASSUME n + 1 <= Len(b) PROVE "ok" \in DOMAIN r[n + 1]
        OBVIOUS
    <3>1. PICK m \in 1..Len(b) : m = n + 1 /\ m - 1 = n
        BY <1>2
    <3>2. "ok" \in DOMAIN r[m - 1]
        BY <1>2, <3>1
    <3>3. "ok" \in DOMAIN ConnectTx(index, r[m - 1], b[m], h)
        BY <3>2, ConnectTxIs
    <3> QED
        BY <1>1, <3>1, <3>3
  <2> HIDE DEF S
  <2>3. Nat \subseteq S
      BY <2>1, <2>2, NatInd
  <2> QED
      BY <1>2, <2>3 DEF S
<1>4. \A i \in 1..Len(b) : r[i].ok => r[i - 1].ok
  <2> SUFFICES ASSUME NEW i \in 1..Len(b), r[i].ok PROVE r[i - 1].ok
      OBVIOUS
  <2>1. "ok" \in DOMAIN r[i - 1]
      BY <1>2, <1>3
  <2> DEFINE s == r[i - 1]
             t == b[i]
  <2>2. r[i] = ConnectTx(index, s, t, h) /\ "ok" \in DOMAIN s
      BY <1>1, <2>1
  <2> HIDE DEF s, t
  <2>3. ConnectTx(index, s, t, h).ok => s.ok
      BY <2>2, ConnectTxIs
  <2> QED
      BY <2>2, <2>3 DEF s
<1>5. \A i \in 0..Len(b) : r[i].ok
  <2> DEFINE S == {n \in Nat : n <= Len(b) => r[Len(b) - n].ok}
  <2>1. 0 \in S
    <3>1. Len(b) - 0 = Len(b)
        BY <1>2
    <3> QED
        BY <1>1, <3>1
  <2>2. ASSUME NEW n \in S \cap Nat PROVE n + 1 \in S
    <3> SUFFICES ASSUME n + 1 <= Len(b) PROVE r[Len(b) - (n + 1)].ok
        OBVIOUS
    <3>1. PICK m \in 1..Len(b) : m = Len(b) - n /\ m - 1 = Len(b) - (n + 1)
        BY <1>2
    <3>2. r[m].ok
        BY <1>2, <3>1
    <3>3. r[m - 1].ok
        BY <1>4, <3>2
    <3> QED
        BY <3>1, <3>3
  <2> HIDE DEF S
  <2>3. Nat \subseteq S
      BY <2>1, <2>2, NatInd
  <2>4. ASSUME NEW i \in 0..Len(b) PROVE r[i].ok
    <3>1. Len(b) - i \in S /\ Len(b) - (Len(b) - i) = i /\ Len(b) - i <= Len(b)
        BY <1>2, <2>3
    <3> QED
        BY <3>1 DEF S
  <2> QED
      BY <2>4
<1>6. \A i \in 1..Len(b) : /\ ~Overwrites(index, b[i])
                           /\ \A o \in In[b[i]] : Spendable(index, r[i - 1].queue, o, h)
                           /\ r[i].queue = Queued(index, r[i - 1].queue, b[i], h)
  <2> TAKE i \in 1..Len(b)
  <2>1. "ok" \in DOMAIN r[i - 1] /\ r[i].ok
      BY <1>2, <1>3, <1>5
  <2> DEFINE s == r[i - 1]
             t == b[i]
  <2>2. r[i] = ConnectTx(index, s, t, h) /\ "ok" \in DOMAIN s
      BY <1>1, <2>1
  <2> HIDE DEF s, t
  <2>3. /\ ~Overwrites(index, t)
        /\ \A o \in In[t] : Spendable(index, s.queue, o, h)
        /\ r[i].queue = Queued(index, s.queue, t, h)
      BY <2>1, <2>2, ConnectTxIs
  <2> QED
      BY <2>3 DEF s, t
<1>7. IsIndex(r[0].queue) /\ \A p \in Tx : v[0][p] = index[p]
  <2>1. r[0].queue = NoRecords
      BY <1>1
  <2>2. IsIndex(NoRecords)
      BY RecordIs DEF IsIndex, NoRecords
  <2>3. \A p \in Tx : Fetched(index, NoRecords, p) = index[p]
      BY DEF Fetched, NoRecords
  <2>4. \A p \in Tx : View(index, NoRecords)[p] = index[p]
      BY <2>2, <2>3, ViewIs
  <2> QED
      BY <1>2, <2>1, <2>2, <2>4
<1>8. \A i \in 0..Len(b) : IsIndex(r[i].queue)
  <2> DEFINE S == {n \in Nat : n <= Len(b) => IsIndex(r[n].queue)}
  <2>1. 0 \in S
      BY <1>7
  <2>2. ASSUME NEW n \in S \cap Nat PROVE n + 1 \in S
    <3> SUFFICES ASSUME n + 1 <= Len(b) PROVE IsIndex(r[n + 1].queue)
        OBVIOUS
    <3>1. PICK m \in 1..Len(b) : m = n + 1 /\ m - 1 = n
        BY <1>2
    <3>2. IsIndex(r[m - 1].queue) /\ b[m] \in Tx
        BY <1>2, <3>1
    <3>3. IsIndex(r[m].queue)
        BY <1>6, <3>2, ConnectStep
    <3> QED
        BY <3>1, <3>3
  <2> HIDE DEF S
  <2>3. Nat \subseteq S
      BY <2>1, <2>2, NatInd
  <2> QED
      BY <1>2, <2>3 DEF S
<1>9. \A i \in 0..Len(b) : v[i] = View(index, r[i].queue) /\ IsIndex(v[i])
    BY <1>8, ViewIs
<1>10. ASSUME NEW i \in 1..Len(b)
       PROVE  /\ Connected(v[i - 1], v[i], b[i], h) /\ In[b[i]] \subseteq Unspents(v[i - 1])
              /\ Outputs(b[i]) \cap base = {}
  <2> DEFINE q == r[i - 1].queue
             t == b[i]
  <2>1. /\ IsIndex(q) /\ v[i - 1] = View(index, q) /\ t \in Tx
        /\ v[i] = View(index, r[i].queue) /\ i - 1 \in 0..Len(b)
      BY <1>2, <1>8, <1>9
  <2>2. /\ ~Overwrites(index, t) /\ \A o \in In[t] : Spendable(index, q, o, h)
        /\ r[i].queue = Queued(index, q, t, h)
      BY <1>6
  <2> HIDE DEF q, t, v, base
  <2>3. Connected(View(index, q), View(index, Queued(index, q, t, h)), t, h)
      BY <2>1, <2>2, ConnectStep
  <2>4. In[t] \subseteq Unspents(View(index, q))
      BY <2>1, <2>2, SpendableIsCoin
  <2>5. Outputs(t) \cap Unspents(index) = {}
      BY <2>1, <2>2, OverwritesNone
  <2> QED
      BY <2>1, <2>2, <2>3, <2>4, <2>5 DEF t, base
<1>11. Unspents(v[0]) = base
    BY <1>7 DEF Unspents, Outpoint
<1> HIDE DEF v, base
<1>12. \A i \in 0..Len(b) : Unspents(v[i]) = Coins(base, b)[i]
  <2> DEFINE S == {n \in Nat : n <= Len(b) => Unspents(v[n]) = Coins(base, b)[n]}
  <2>1. 0 \in S
      BY <1>11, CoinsRounds
  <2>2. ASSUME NEW n \in S \cap Nat PROVE n + 1 \in S
    <3> SUFFICES ASSUME n + 1 <= Len(b) PROVE Unspents(v[n + 1]) = Coins(base, b)[n + 1]
        OBVIOUS
    <3>1. PICK m \in 1..Len(b) : m = n + 1 /\ m - 1 = n
        BY <1>2
    <3>2. Unspents(v[m]) = Spend(Unspents(v[m - 1]), b[m])
        BY <1>2, <1>10, CoinsStep
    <3>3. Coins(base, b)[m] = Spend(Coins(base, b)[m - 1], b[m])
        BY CoinsRounds
    <3>4. Unspents(v[m - 1]) = Coins(base, b)[m - 1]
        BY <1>2, <3>1
    <3> QED
        BY <3>1, <3>2, <3>3, <3>4
  <2> HIDE DEF S
  <2>3. Nat \subseteq S
      BY <2>1, <2>2, NatInd
  <2> QED
      BY <1>2, <2>3 DEF S
<1>13. Steps(v, index, b, h)
    BY <1>7, <1>9, <1>10, <1>12 DEF Steps, base
<1>14. v[Len(b)] = Updated(index, b, h)
    BY <1>1, <1>2, <1>9 DEF Updated, View
<1> QED
    BY <1>13, <1>14

-----------------------------------------------------------------------------
(* Disconnecting a block *)

\* the index after t, when every record that t needs is there
Erased(x, t) == [Released(x, t) EXCEPT ![t] = Absent]
Needed(x, t) == \A o \in In[t] : o[2] \in DOMAIN x[o[1]].spent

LEMMA DisconnectTxIs ==
    ASSUME NEW r, "ok" \in DOMAIN r, NEW t
    PROVE  LET s == DisconnectTx(r, t) IN
           /\ "ok" \in DOMAIN s
           /\ s.ok => r.ok /\ Needed(r.index, t) /\ s.index = Erased(r.index, t)
           /\ r.ok /\ Needed(r.index, t) => s.ok /\ s.index = Erased(r.index, t)
<1> DEFINE c == r.ok /\ Needed(r.index, t)
           s == DisconnectTx(r, t)
<1>1. s = IF c THEN [ok |-> TRUE, index |-> Erased(r.index, t)] ELSE [r EXCEPT !.ok = FALSE]
    BY Zenon DEF DisconnectTx, Erased, Needed
<1>2. c <=> r.ok /\ Needed(r.index, t)
    OBVIOUS
<1> HIDE DEF c, s
<1>3. CASE c
    BY <1>1, <1>2, <1>3 DEF s
<1>4. CASE ~c
  <2>1. s = [r EXCEPT !.ok = FALSE]
      BY <1>1, <1>4
  <2>2. "ok" \in DOMAIN s /\ ~s.ok
      BY <2>1
  <2> QED
      BY <1>2, <1>4, <2>2 DEF s
<1> QED
    BY <1>3, <1>4

\* an output that a record has a mark for
LEMMA NeededIs ==
    ASSUME NEW x, IsIndex(x), NEW t \in Tx
    PROVE  Needed(x, t) <=> \A o \in In[t] : o \in Outpoint /\ x[o[1]] # Absent
<1>1. ASSUME NEW o \in In[t]
      PROVE  o[2] \in DOMAIN x[o[1]].spent <=> o \in Outpoint /\ x[o[1]] # Absent
  <2>0. In[t] \subseteq Tx \X Nat
      BY TxAssumption
  <2>1. PICK p \in Tx, n \in Nat : o = <<p, n>> /\ o[1] = p /\ o[2] = n
      BY <2>0
  <2>2. o \in Outpoint <=> n \in 1..Len(Out[p])
      BY <2>1 DEF Outpoint
  <2>3. x[p] \in Record(p)
      BY DEF IsIndex
  <2>4. CASE x[p] = Absent
      BY <2>1, <2>4 DEF Absent
  <2>5. CASE x[p] # Absent
    <3>1. DOMAIN x[p].spent = 1..Len(Out[p])
        BY <2>3, <2>5, RecordIs
    <3> QED
        BY <2>1, <2>2, <2>5, <3>1
  <2> QED
      BY <2>4, <2>5
<1> QED
    BY <1>1 DEF Needed

\* marks that were put on unspent outputs are taken off again
LEMMA UnmarkIs ==
    ASSUME NEW p \in Tx, NEW t, NEW mark, NEW r \in Record(p), NEW s, NEW u,
           Marked(s, r, p, t, mark), Marked(u, s, p, t, Unspent),
           \A n \in 1..Len(Out[p]) : <<p, n>> \in In[t] => r # Absent /\ r.spent[n] = Unspent
    PROVE  u = r
<1>1. CASE r = Absent
    BY <1>1 DEF Marked
<1>2. CASE r # Absent
  <2> DEFINE M == {Unspent} \cup (Height \X Tx)
             D == 1..Len(Out[p])
  <2>1. /\ u \in Record(p) /\ u # Absent /\ u.pos = r.pos
        /\ \A n \in D : u.spent[n] = r.spent[n]
      BY <1>2 DEF Marked
  <2>2. /\ r \in [pos : Height, spent : [D -> M]] /\ u \in [pos : Height, spent : [D -> M]]
      BY <1>2, <2>1, RecordIs
  <2> HIDE DEF M, D
  <2>3. r.spent \in [D -> M] /\ u.spent \in [D -> M]
      BY <2>2
  <2>4. u.spent = r.spent
      BY <2>1, <2>3
  <2> QED
      BY <2>1, <2>2, <2>4
<1> QED
    BY <1>1, <1>2

\* the rounds of DisconnectBlock: once one of them fails, so does the block
LEMMA UndoIs ==
    ASSUME NEW index, NEW b \in Seq(Tx)
    PROVE  \E r : /\ UndoBy(r, index, b)
                  /\ \A i \in 0..Len(b) : "ok" \in DOMAIN r[i]
<1>1. PICK r : UndoBy(r, index, b)
    BY UndoRounds
<1>2. Len(b) \in Nat
    OBVIOUS
<1> DEFINE S == {n \in Nat : n <= Len(b) => "ok" \in DOMAIN r[n]}
<1>3. 0 \in S
    BY <1>1 DEF UndoBy
<1>4. ASSUME NEW n \in S \cap Nat PROVE n + 1 \in S
  <2> SUFFICES ASSUME n + 1 <= Len(b) PROVE "ok" \in DOMAIN r[n + 1]
      OBVIOUS
  <2>1. PICK m \in 1..Len(b) : m = n + 1 /\ m - 1 = n
      BY <1>2
  <2>2. "ok" \in DOMAIN r[m - 1]
      BY <1>2, <2>1
  <2>3. r[m] = DisconnectTx(r[m - 1], b[Len(b) + 1 - m])
      BY <1>1 DEF UndoBy
  <2> QED
      BY <2>1, <2>2, <2>3, DisconnectTxIs
<1> HIDE DEF S
<1>5. Nat \subseteq S
    BY <1>3, <1>4, NatInd
<1> QED
    BY <1>1, <1>2, <1>5 DEF S

\* the indexes between the rounds, d[i] before the i-th transaction from the
\* end is disconnected
Backs(d, index, b) ==
    /\ d[0] = index
    /\ \A i \in 1..Len(b) : /\ Needed(d[i - 1], b[Len(b) + 1 - i])
                            /\ d[i] = Erased(d[i - 1], b[Len(b) + 1 - i])

LEMMA UndoneBy ==
    ASSUME NEW index, NEW b \in Seq(Tx), Undo(index, b).ok
    PROVE  \E d : Backs(d, index, b) /\ d[Len(b)] = Undo(index, b).index
<1>1. PICK r : UndoBy(r, index, b) /\ \A i \in 0..Len(b) : "ok" \in DOMAIN r[i]
    BY UndoIs
<1>2. Len(b) \in Nat
    OBVIOUS
<1>3. \A i \in 1..Len(b) : r[i] = DisconnectTx(r[i - 1], b[Len(b) + 1 - i]) /\ "ok" \in DOMAIN r[i - 1]
    BY <1>1, <1>2 DEF UndoBy
<1>4. ASSUME NEW i \in 1..Len(b), r[i].ok
      PROVE  /\ r[i - 1].ok /\ Needed(r[i - 1].index, b[Len(b) + 1 - i])
             /\ r[i].index = Erased(r[i - 1].index, b[Len(b) + 1 - i])
  <2> DEFINE s == r[i - 1]
             t == b[Len(b) + 1 - i]
  <2>1. r[i] = DisconnectTx(s, t) /\ "ok" \in DOMAIN s
      BY <1>3
  <2> HIDE DEF s, t
  <2>2. DisconnectTx(s, t).ok => s.ok /\ Needed(s.index, t) /\ DisconnectTx(s, t).index = Erased(s.index, t)
      BY <2>1, DisconnectTxIs
  <2> QED
      BY <1>4, <2>1, <2>2 DEF s, t
<1>5. \A i \in 0..Len(b) : r[i].ok
  <2> DEFINE S == {n \in Nat : n <= Len(b) => r[Len(b) - n].ok}
  <2>1. 0 \in S
    <3>1. Len(b) - 0 = Len(b)
        BY <1>2
    <3> QED
        BY <1>1, <3>1 DEF UndoBy
  <2>2. ASSUME NEW n \in S \cap Nat PROVE n + 1 \in S
    <3> SUFFICES ASSUME n + 1 <= Len(b) PROVE r[Len(b) - (n + 1)].ok
        OBVIOUS
    <3>1. PICK m \in 1..Len(b) : m = Len(b) - n /\ m - 1 = Len(b) - (n + 1)
        BY <1>2
    <3>2. r[m].ok
        BY <1>2, <3>1
    <3>3. r[m - 1].ok
        BY <1>4, <3>2
    <3> QED
        BY <3>1, <3>3
  <2> HIDE DEF S
  <2>3. Nat \subseteq S
      BY <2>1, <2>2, NatInd
  <2>4. ASSUME NEW i \in 0..Len(b) PROVE r[i].ok
    <3>1. Len(b) - i \in S /\ Len(b) - (Len(b) - i) = i /\ Len(b) - i <= Len(b)
        BY <1>2, <2>3
    <3> QED
        BY <3>1 DEF S
  <2> QED
      BY <2>4
<1> DEFINE d == [i \in 0..Len(b) |-> r[i].index]
<1>6. ASSUME NEW i \in 1..Len(b)
      PROVE  /\ Needed(d[i - 1], b[Len(b) + 1 - i])
             /\ d[i] = Erased(d[i - 1], b[Len(b) + 1 - i])
  <2>1. r[i].ok
      BY <1>5
  <2>2. d[i] = r[i].index /\ d[i - 1] = r[i - 1].index
      BY <1>2
  <2> QED
      BY <1>4, <2>1, <2>2
<1>7. d[0] = index /\ d[Len(b)] = Undo(index, b).index
    BY <1>1, <1>2 DEF UndoBy
<1> HIDE DEF d
<1>8. Backs(d, index, b)
    BY <1>6, <1>7 DEF Backs
<1> QED
    BY <1>7, <1>8

\* the coins go back, and only the records of the block are erased
LEMMA UndoCoins ==
    ASSUME NEW index, IsIndex(index), NEW b \in Seq(Tx), Undo(index, b).ok, NEW base,
           Fits(base, b, Len(b)), Unspents(index) = Coins(base, b)[Len(b)]
    PROVE  LET x == Undo(index, b).index IN
           /\ IsIndex(x) /\ Unspents(x) = base
           /\ \A p \in Tx : p \notin ToSet(b) /\ index[p] # Absent => x[p] # Absent
<1>1. PICK d : Backs(d, index, b) /\ d[Len(b)] = Undo(index, b).index
    BY UndoneBy
<1>2. Len(b) \in Nat /\ \A i \in 1..Len(b) : b[i] \in Tx /\ b[i] \in ToSet(b)
    BY DEF ToSet
<1> DEFINE Kept(x) == \A p \in Tx : p \notin ToSet(b) /\ index[p] # Absent => x[p] # Absent
           Good(n) == IsIndex(d[n]) /\ Unspents(d[n]) = Coins(base, b)[Len(b) - n] /\ Kept(d[n])
           S == {n \in Nat : n <= Len(b) => Good(n)}
<1>3. 0 \in S
  <2>1. d[0] = index /\ Len(b) - 0 = Len(b)
      BY <1>1, <1>2 DEF Backs
  <2> QED
      BY <2>1
<1>4. ASSUME NEW n \in S \cap Nat PROVE n + 1 \in S
  <2> SUFFICES ASSUME n + 1 <= Len(b) PROVE Good(n + 1)
      OBVIOUS
  <2>1. PICK i \in 1..Len(b) : i = n + 1 /\ i - 1 = n
      BY <1>2
  <2>2. PICK m \in 1..Len(b) : m = Len(b) + 1 - i /\ m = Len(b) - n /\ m - 1 = Len(b) - (n + 1)
      BY <1>2, <2>1
  <2> DEFINE x == d[n]
             t == b[m]
             y == Erased(x, t)
  <2>3. IsIndex(x) /\ Unspents(x) = Coins(base, b)[m] /\ Kept(x)
      BY <1>2, <2>1, <2>2
  <2>4. Needed(x, t) /\ d[n + 1] = y /\ t \in Tx /\ t \in ToSet(b)
      BY <1>1, <1>2, <2>1, <2>2 DEF Backs
  <2>5. In[t] \subseteq Coins(base, b)[m - 1] /\ Outputs(t) \cap Coins(base, b)[m - 1] = {}
      BY <1>2 DEF Fits
  <2>6. Coins(base, b)[m] = Spend(Coins(base, b)[m - 1], t)
      BY CoinsRounds
  <2> HIDE DEF x, t
  <2>7. \A o \in In[t] : o \in Outpoint /\ x[o[1]] # Absent
      BY <2>3, <2>4, NeededIs
  <2>8. Disconnected(x, y, t)
      BY <2>3, <2>4, DisconnectStep DEF Erased
  <2> HIDE DEF y
  <2>9. Unspents(y) = (Unspents(x) \cup In[t]) \ Outputs(t)
      BY <2>3, <2>4, <2>7, <2>8, CoinsBack
  <2>10. Unspents(y) = Coins(base, b)[m - 1]
      BY <2>3, <2>5, <2>6, <2>9 DEF Spend
  <2>11. IsIndex(y) /\ Kept(y)
      BY <2>3, <2>4, <2>8 DEF Disconnected, Marked
  <2> QED
      BY <2>2, <2>4, <2>10, <2>11
<1> HIDE DEF S
<1>5. Nat \subseteq S
    BY <1>3, <1>4, NatInd
<1>6. Good(Len(b)) /\ Len(b) - Len(b) = 0
    BY <1>2, <1>5 DEF S
<1> QED
    BY <1>1, <1>6, CoinsRounds

\* the rounds of a block
Rounds(r, index, b) == UndoBy(r, index, b) /\ \A i \in 0..Len(b) : "ok" \in DOMAIN r[i]

\* a round in which every record is there
LEMMA UndoRuns ==
    ASSUME NEW index, NEW b \in Seq(Tx), NEW r, Rounds(r, index, b),
           NEW n \in Nat, n + 1 <= Len(b), r[n].ok, Needed(r[n].index, b[Len(b) - n])
    PROVE  r[n + 1].ok /\ r[n + 1].index = Erased(r[n].index, b[Len(b) - n])
<1>1. Len(b) \in Nat
    OBVIOUS
<1>2. PICK i \in 1..Len(b) : i = n + 1 /\ i - 1 = n /\ Len(b) + 1 - i = Len(b) - n
    BY <1>1
<1> DEFINE s == r[n]
           t == b[Len(b) - n]
<1>3. r[i] = DisconnectTx(s, t) /\ "ok" \in DOMAIN s
  <2>1. r[i] = DisconnectTx(r[i - 1], b[Len(b) + 1 - i])
      BY DEF Rounds, UndoBy
  <2>2. "ok" \in DOMAIN r[n]
      BY <1>1 DEF Rounds
  <2> QED
      BY <1>2, <2>1, <2>2
<1>4. s.ok /\ Needed(s.index, t)
    OBVIOUS
<1> HIDE DEF s, t
<1>5. s.ok /\ Needed(s.index, t) => DisconnectTx(s, t).ok /\ DisconnectTx(s, t).index = Erased(s.index, t)
    BY <1>3, DisconnectTxIs
<1> QED
    BY <1>2, <1>3, <1>4, <1>5 DEF s, t

\* where an input of a transaction in a block comes from
LEMMA InputFrom ==
    ASSUME NEW base, NEW b \in Seq(Tx), IsInjective(b), NEW m \in 1..Len(b),
           NEW o \in Coins(base, b)[m - 1],
           NEW j \in 1..Len(b), j >= m, o \in Outputs(b[j])
    PROVE  o \in base
<1>1. Len(b) \in Nat /\ DOMAIN b = 1..Len(b)
    OBVIOUS
<1>2. m - 1 \in 0..Len(b)
    BY <1>1
<1>3. o \in base \/ \E k \in 1..m - 1 : o \in Outputs(b[k])
    BY <1>2, NewCoins
<1>4. ASSUME NEW k \in 1..m - 1, o \in Outputs(b[k]) PROVE FALSE
  <2>1. k \in 1..Len(b) /\ k # j
      BY <1>1
  <2>2. b[k] # b[j]
      BY <1>1, <2>1 DEF IsInjective
  <2> QED
      BY <1>4, <2>2 DEF Outputs
<1> QED
    BY <1>3, <1>4

\* a coin belongs to the outputs of its transaction
LEMMA OutputOf ==
    ASSUME NEW o \in Outpoint
    PROVE  o[1] \in Tx /\ o \in Outputs(o[1]) /\ \A t : o \in Outputs(t) => t = o[1]
    BY DEF Outpoint, Outputs

\* disconnecting finds every record, if nothing was replaced
LEMMA UndoPresent ==
    ASSUME NEW index, IsIndex(index), NEW b \in Seq(Tx), IsInjective(b), NEW base,
           Fits(base, b, Len(b)), \A p \in ToSet(b) : index[p] # Absent,
           \A o \in base : o \in Outpoint /\ index[o[1]] # Absent /\ o[1] \notin ToSet(b)
    PROVE  Undo(index, b).ok
<1>1. PICK r : Rounds(r, index, b)
    BY UndoIs DEF Rounds
<1>2. /\ Len(b) \in Nat /\ DOMAIN b = 1..Len(b)
      /\ \A i \in 1..Len(b) : b[i] \in Tx /\ b[i] \in ToSet(b)
    BY DEF ToSet
<1> DEFINE Later(n, p) == \E j \in 1..Len(b) : j > Len(b) - n /\ p = b[j]
           Good(n) == /\ r[n].ok /\ IsIndex(r[n].index)
                      /\ \A p \in Tx : index[p] # Absent /\ ~Later(n, p) => r[n].index[p] # Absent
           S == {n \in Nat : n <= Len(b) => Good(n)}
<1>3. 0 \in S
    BY <1>1 DEF Rounds, UndoBy
<1>4. ASSUME NEW n \in S \cap Nat PROVE n + 1 \in S
  <2> SUFFICES ASSUME n + 1 <= Len(b) PROVE Good(n + 1)
      OBVIOUS
  <2>1. PICK m \in 1..Len(b) : m = Len(b) - n
      BY <1>2
  <2> DEFINE x == r[n].index
             t == b[m]
             y == Erased(x, t)
  <2>2. /\ r[n].ok /\ IsIndex(x)
        /\ \A p \in Tx : index[p] # Absent /\ ~Later(n, p) => x[p] # Absent
      BY <1>2
  <2>3. In[t] \subseteq Coins(base, b)[m - 1] /\ t \in Tx
      BY <1>2 DEF Fits
  <2>4. ASSUME NEW o \in In[t] PROVE o \in Outpoint /\ x[o[1]] # Absent
    <3>1. o \in Coins(base, b)[m - 1] /\ m - 1 \in 0..Len(b)
        BY <1>2, <2>3
    <3>2. o \in base \/ \E k \in 1..m - 1 : o \in Outputs(b[k])
        BY <3>1, NewCoins
    <3>3. o \in Outpoint /\ index[o[1]] # Absent
      <4>1. CASE o \in base
          BY <4>1
      <4>2. ASSUME NEW k \in 1..m - 1, o \in Outputs(b[k]) PROVE o \in Outpoint /\ index[o[1]] # Absent
        <5>1. k \in 1..Len(b)
            BY <1>2
        <5>2. b[k] \in Tx /\ index[b[k]] # Absent
            BY <1>2, <5>1
        <5> QED
            BY <4>2, <5>2 DEF Outputs, Outpoint
      <4> QED
          BY <3>2, <4>1, <4>2
    <3>4. o[1] \in Tx /\ o \in Outputs(o[1])
        BY <3>3, OutputOf
    <3>5. ~Later(n, o[1])
      <4> SUFFICES ASSUME NEW j \in 1..Len(b), j > Len(b) - n, o[1] = b[j] PROVE FALSE
          OBVIOUS
      <4>1. j >= m /\ o \in Outputs(b[j])
          BY <1>2, <2>1, <3>4
      <4>2. o \in base
          BY <3>1, <4>1, InputFrom
      <4> QED
          BY <1>2, <4>2
    <3> QED
        BY <2>2, <3>3, <3>4, <3>5
  <2> HIDE DEF x, t
  <2>5. Needed(x, t)
      BY <2>2, <2>3, <2>4, NeededIs
  <2>6. r[n + 1].ok /\ r[n + 1].index = y
      BY <1>1, <2>1, <2>2, <2>5, UndoRuns DEF x, t
  <2>7. Disconnected(x, y, t)
      BY <2>2, <2>3, DisconnectStep DEF Erased
  <2> HIDE DEF y
  <2>8. ASSUME NEW p \in Tx, index[p] # Absent, ~Later(n + 1, p) PROVE y[p] # Absent
    <3>1. p # t
        BY <1>2, <2>1, <2>8 DEF t
    <3>2. ~Later(n, p)
        BY <1>2, <2>8
    <3>3. x[p] # Absent
        BY <2>2, <2>8, <3>2
    <3> QED
        BY <2>7, <3>1, <3>3 DEF Disconnected, Marked
  <2>9. IsIndex(y)
      BY <2>7 DEF Disconnected
  <2> QED
      BY <2>6, <2>8, <2>9
<1> HIDE DEF S
<1>5. Nat \subseteq S
    BY <1>3, <1>4, NatInd
<1>6. Good(Len(b))
    BY <1>2, <1>5 DEF S
<1> QED
    BY <1>1, <1>6 DEF Rounds, UndoBy

\* disconnecting a block that has just been connected
LEMMA UndoReverts ==
    ASSUME NEW index, IsIndex(index), NEW b \in Seq(Tx), IsInjective(b), NEW h \in Height,
           NEW v, Steps(v, index, b, h)
    PROVE  /\ Undo(v[Len(b)], b).ok
           /\ \A p \in Tx \ ToSet(b) : Undo(v[Len(b)], b).index[p] = index[p]
<1>1. PICK r : Rounds(r, v[Len(b)], b)
    BY UndoIs DEF Rounds
<1>2. /\ Len(b) \in Nat /\ DOMAIN b = 1..Len(b)
      /\ \A i \in 1..Len(b) : b[i] \in Tx /\ b[i] \in ToSet(b)
    BY DEF ToSet
<1> DEFINE base == Unspents(index)
           Later(n, p) == \E j \in 1..Len(b) : j > Len(b) - n /\ p = b[j]
           Good(n) == /\ r[n].ok /\ IsIndex(r[n].index)
                      /\ \A p \in Tx : ~Later(n, p) => r[n].index[p] = v[Len(b) - n][p]
           S == {n \in Nat : n <= Len(b) => Good(n)}
<1>3. 0 \in S
  <2>1. IsIndex(v[Len(b)]) /\ Len(b) - 0 = Len(b)
      BY <1>2 DEF Steps
  <2> QED
      BY <1>1, <2>1 DEF Rounds, UndoBy
<1>4. ASSUME NEW n \in S \cap Nat PROVE n + 1 \in S
  <2> SUFFICES ASSUME n + 1 <= Len(b) PROVE Good(n + 1)
      OBVIOUS
  <2> DEFINE k == Len(b)
  <2>n. k \in Nat /\ n \in Nat /\ n + 1 <= k
      BY <1>2
  <2> HIDE DEF k
  <2>k. k - n \in 1..k
      BY <2>n
  <2>0. PICK m \in 1..Len(b) : m = Len(b) - n
      BY <2>k, Zenon DEF k
  <2>1. m = Len(b) - n /\ m - 1 = Len(b) - (n + 1)
      BY <1>2, <2>0
  <2> DEFINE x == r[n].index
             t == b[m]
             y == Erased(x, t)
             was == v[m - 1]
             now == v[m]
  <2>2. /\ r[n].ok /\ IsIndex(x)
        /\ \A p \in Tx : ~Later(n, p) => x[p] = now[p]
      BY <1>2, <2>1
  <2>3. /\ t \in Tx /\ IsIndex(was) /\ Unspents(was) = Coins(base, b)[m - 1]
        /\ Connected(was, now, t, h) /\ In[t] \subseteq Unspents(was)
        /\ m - 1 \in 0..Len(b)
      BY <1>2 DEF Steps
  <2> HIDE DEF x, t, was, now
  <2>4. ASSUME NEW o \in In[t]
        PROVE  /\ o \in Outpoint /\ was[o[1]] # Absent /\ was[o[1]].spent[o[2]] = Unspent
               /\ o[1] \in Tx /\ ~Later(n + 1, o[1])
    <3>1. o \in Outpoint /\ was[o[1]] # Absent /\ was[o[1]].spent[o[2]] = Unspent
        BY <2>3 DEF Unspents
    <3>2. o[1] \in Tx /\ o \in Outputs(o[1])
        BY <3>1, OutputOf
    <3>3. ASSUME NEW j \in 1..Len(b), j > Len(b) - (n + 1), o[1] = b[j] PROVE FALSE
      <4>1. j >= m /\ o \in Outputs(b[j])
          BY <1>2, <2>1, <3>2, <3>3
      <4>2. o \in Coins(base, b)[m - 1]
          BY <2>3
      <4>3. o \in base
          BY <4>1, <4>2, InputFrom
      <4>4. Outputs(b[j]) \cap base = {}
          BY DEF Steps
      <4> QED
          BY <4>1, <4>3, <4>4
    <3> QED
        BY <3>1, <3>2, <3>3
  <2>5. \A p \in Tx : ~Later(n + 1, p) => p # t /\ ~Later(n, p)
    <3> SUFFICES ASSUME NEW p \in Tx, ~Later(n + 1, p) PROVE p # t /\ ~Later(n, p)
        OBVIOUS
    <3>1. p # t
        BY <1>2, <2>1 DEF t
    <3>2. ~Later(n, p)
        BY <1>2
    <3> QED
        BY <3>1, <3>2
  <2> HIDE DEF Later
  <2>6. ASSUME NEW o \in In[t] PROVE o \in Outpoint /\ x[o[1]] # Absent
    <3>1. /\ o \in Outpoint /\ was[o[1]] # Absent /\ o[1] \in Tx
          /\ o[1] # t /\ ~Later(n, o[1])
        BY <2>4, <2>5
    <3>2. now[o[1]] # Absent
        BY <2>3, <3>1 DEF Connected, Marked
    <3> QED
        BY <2>2, <3>1, <3>2
  <2>7. Needed(x, t)
      BY <2>2, <2>3, <2>6, NeededIs
  <2>8. r[n + 1].ok /\ r[n + 1].index = y
    <3> DEFINE z == v[Len(b)]
    <3>1. Rounds(r, z, b)
        BY <1>1
    <3>2. n \in Nat /\ n + 1 <= Len(b) /\ r[n].ok /\ Needed(r[n].index, b[Len(b) - n])
        BY <2>1, <2>2, <2>7 DEF x, t
    <3> HIDE DEF z
    <3>3. r[n + 1].ok /\ r[n + 1].index = Erased(r[n].index, b[Len(b) - n])
        BY <3>1, <3>2, UndoRuns
    <3> QED
        BY <2>1, <3>3 DEF x, t
  <2>9. Disconnected(x, y, t)
      BY <2>2, <2>3, DisconnectStep DEF Erased
  <2> HIDE DEF y
  <2>10. ASSUME NEW p \in Tx, ~Later(n + 1, p) PROVE y[p] = was[p]
    <3>1. p # t /\ x[p] = now[p]
        BY <2>2, <2>5, <2>10
    <3>2. Marked(now[p], was[p], p, t, <<h, t>>) /\ Marked(y[p], now[p], p, t, Unspent)
        BY <2>3, <2>9, <3>1 DEF Connected, Disconnected
    <3>3. \A q \in 1..Len(Out[p]) : <<p, q>> \in In[t] => was[p] # Absent /\ was[p].spent[q] = Unspent
      <4> SUFFICES ASSUME NEW q \in 1..Len(Out[p]), <<p, q>> \in In[t]
                   PROVE  was[p] # Absent /\ was[p].spent[q] = Unspent
          OBVIOUS
      <4>1. <<p, q>> \in Unspents(was)
          BY <2>3
      <4> QED
          BY <4>1, UnspentIs
    <3>4. was[p] \in Record(p)
        BY <2>3 DEF IsIndex
    <3> DEFINE mark == <<h, t>>
               a == was[p]
               c == now[p]
               e == y[p]
    <3>5. /\ Marked(c, a, p, t, mark) /\ Marked(e, c, p, t, Unspent) /\ a \in Record(p)
          /\ \A q \in 1..Len(Out[p]) : <<p, q>> \in In[t] => a # Absent /\ a.spent[q] = Unspent
        BY <3>2, <3>3, <3>4
    <3> HIDE DEF mark, a, c, e
    <3>6. e = a
        BY <3>5, UnmarkIs
    <3> QED
        BY <3>6 DEF a, e
  <2>11. IsIndex(y)
      BY <2>9 DEF Disconnected
  <2> QED
      BY <2>1, <2>8, <2>10, <2>11 DEF was
<1> HIDE DEF S
<1>5. Nat \subseteq S
    BY <1>3, <1>4, NatInd
<1>6. Good(Len(b)) /\ Len(b) - Len(b) = 0
    BY <1>2, <1>5 DEF S
<1>7. \A p \in Tx \ ToSet(b) : ~Later(Len(b), p)
    BY <1>2
<1>8. \A p \in Tx : v[0][p] = index[p]
    BY DEF Steps
<1> HIDE DEF Later
<1> QED
    BY <1>1, <1>6, <1>7, <1>8 DEF Rounds, UndoBy

\* a block that has been connected fits the coins it was connected on
LEMMA StepsFit ==
    ASSUME NEW index, IsIndex(index), NEW b \in Seq(Tx), IsInjective(b), NEW h \in Height,
           NEW v, Steps(v, index, b, h)
    PROVE  Fits(Unspents(index), b, Len(b))
<1> DEFINE base == Unspents(index)
<1> SUFFICES ASSUME NEW j \in 1..Len(b)
             PROVE  /\ In[b[j]] \subseteq Coins(base, b)[j - 1]
                    /\ Outputs(b[j]) \cap Coins(base, b)[j - 1] = {}
    BY DEF Fits
<1>1. Len(b) \in Nat /\ j - 1 \in 0..Len(b)
    OBVIOUS
<1>2. Unspents(v[j - 1]) = Coins(base, b)[j - 1]
    BY <1>1 DEF Steps
<1>3. In[b[j]] \subseteq Unspents(v[j - 1]) /\ Outputs(b[j]) \cap base = {}
    BY DEF Steps
<1>4. ASSUME NEW o \in Outputs(b[j]), o \in Coins(base, b)[j - 1] PROVE FALSE
  <2> HIDE DEF base
  <2>1. o \in base
      BY <1>4, InputFrom
  <2> QED
      BY <1>3, <1>4, <2>1
<1> QED
    BY <1>2, <1>3, <1>4

\* connecting a block keeps every record and adds those of the block
LEMMA StepsPresent ==
    ASSUME NEW index, IsIndex(index), NEW b \in Seq(Tx), NEW h \in Height,
           NEW v, Steps(v, index, b, h),
           NEW p \in Tx, index[p] # Absent \/ p \in ToSet(b)
    PROVE  v[Len(b)][p] # Absent
<1>1. /\ Len(b) \in Nat /\ DOMAIN b = 1..Len(b)
      /\ \A i \in 1..Len(b) : b[i] \in Tx
    OBVIOUS
<1> DEFINE Here(n) == index[p] # Absent \/ \E j \in 1..n : p = b[j]
           S == {n \in Nat : n <= Len(b) /\ Here(n) => v[n][p] # Absent}
<1>2. 0 \in S
    BY DEF Steps
<1>3. ASSUME NEW n \in S \cap Nat PROVE n + 1 \in S
  <2> SUFFICES ASSUME n + 1 <= Len(b), Here(n + 1) PROVE v[n + 1][p] # Absent
      OBVIOUS
  <2>1. PICK m \in 1..Len(b) : m = n + 1 /\ m - 1 = n
      BY <1>1
  <2>2. Connected(v[m - 1], v[m], b[m], h)
      BY DEF Steps
  <2>3. CASE p = b[m]
      BY <2>1, <2>2, <2>3 DEF Connected
  <2>4. CASE p # b[m]
    <3>1. Here(n)
        BY <2>1, <2>4
    <3>2. v[n][p] # Absent
        BY <2>1, <3>1
    <3>3. Marked(v[m][p], v[m - 1][p], p, b[m], <<h, b[m]>>)
        BY <2>2, <2>4 DEF Connected
    <3> DEFINE mark == <<h, b[m]>>
    <3>4. Marked(v[m][p], v[m - 1][p], p, b[m], mark)
        BY <3>3
    <3> HIDE DEF mark
    <3>5. v[m][p] = Absent <=> v[m - 1][p] = Absent
        BY <3>4 DEF Marked
    <3> QED
        BY <2>1, <3>2, <3>5
  <2> QED
      BY <2>3, <2>4
<1> HIDE DEF S
<1>4. Nat \subseteq S
    BY <1>2, <1>3, NatInd
<1>5. Here(Len(b))
    BY <1>1 DEF ToSet
<1> QED
    BY <1>1, <1>4, <1>5 DEF S

-----------------------------------------------------------------------------
(* The chain *)

\* the coins depend on nothing above
LEMMA ChainAgree ==
    ASSUME NEW x \in Seq(Candidates), NEW y \in Seq(Candidates), NEW k \in Nat,
           k <= Len(x), k <= Len(y), \A i \in 1..k : x[i] = y[i]
    PROVE  \A h \in 0..k : ChainCoins(x)[h] = ChainCoins(y)[h]
<1> DEFINE S == {n \in Nat : n <= k => ChainCoins(x)[n] = ChainCoins(y)[n]}
<1>1. 0 \in S
    BY ChainRounds
<1>2. ASSUME NEW n \in S \cap Nat PROVE n + 1 \in S
  <2> SUFFICES ASSUME n + 1 <= k PROVE ChainCoins(x)[n + 1] = ChainCoins(y)[n + 1]
      OBVIOUS
  <2>1. Len(x) \in Nat /\ Len(y) \in Nat
      OBVIOUS
  <2>2. PICK m \in 1..k : m = n + 1 /\ m - 1 = n /\ m \in 1..Len(x) /\ m \in 1..Len(y)
      BY <2>1
  <2>3. ChainCoins(x)[m] = Coins(ChainCoins(x)[m - 1], x[m])[Len(x[m])]
      BY <2>2, ChainRounds
  <2>4. ChainCoins(y)[m] = Coins(ChainCoins(y)[m - 1], y[m])[Len(y[m])]
      BY <2>2, ChainRounds
  <2>5. x[m] = y[m] /\ ChainCoins(x)[m - 1] = ChainCoins(y)[m - 1]
      BY <2>2
  <2> QED
      BY <2>2, <2>3, <2>4, <2>5
<1> HIDE DEF S
<1>3. Nat \subseteq S
    BY <1>1, <1>2, NatInd
<1> QED
    BY <1>3 DEF S

\* a coin of the chain is an output of one of its transactions
LEMMA ChainCoinsFrom ==
    ASSUME NEW blocks \in Seq(Candidates)
    PROVE  \A h \in 0..Len(blocks) : \A o \in ChainCoins(blocks)[h] :
              \E g \in 1..h : \E i \in 1..Len(blocks[g]) : o \in Outputs(blocks[g][i])
<1> DEFINE From(o, n) == \E g \in 1..n : \E i \in 1..Len(blocks[g]) : o \in Outputs(blocks[g][i])
           S == {n \in Nat : n <= Len(blocks) => \A o \in ChainCoins(blocks)[n] : From(o, n)}
<1>1. 0 \in S
    BY ChainRounds
<1>2. ASSUME NEW n \in S \cap Nat PROVE n + 1 \in S
  <2> SUFFICES ASSUME n + 1 <= Len(blocks), NEW o \in ChainCoins(blocks)[n + 1]
               PROVE  From(o, n + 1)
      OBVIOUS
  <2>1. PICK m \in 1..Len(blocks) : m = n + 1 /\ m - 1 = n
      OBVIOUS
  <2> DEFINE b == blocks[m]
             base == ChainCoins(blocks)[m - 1]
  <2>2. b \in Seq(Tx) /\ Len(b) \in 0..Len(b)
      BY LedgerAssumption
  <2>3. o \in Coins(base, b)[Len(b)]
      BY <2>1, ChainRounds
  <2> HIDE DEF base, b, From
  <2>4. o \in base \/ \E j \in 1..Len(b) : o \in Outputs(b[j])
      BY <2>2, <2>3, NewCoins
  <2>5. CASE o \in base
    <3>1. From(o, n)
        BY <2>1, <2>5 DEF base
    <3> QED
        BY <3>1 DEF From
  <2>6. CASE \E j \in 1..Len(b) : o \in Outputs(b[j])
      BY <2>1, <2>6 DEF From, b
  <2> QED
      BY <2>4, <2>5, <2>6
<1> HIDE DEF S
<1>3. Nat \subseteq S
    BY <1>1, <1>2, NatInd
<1> QED
    BY <1>3 DEF S

LEMMA FrontIs ==
    ASSUME NEW blocks \in Seq(Candidates), blocks # <<>>
    PROVE  /\ Front(blocks) \in Seq(Candidates) /\ Len(Front(blocks)) = Len(blocks) - 1
           /\ Last(blocks) = blocks[Len(blocks)]
           /\ Len(blocks) \in Nat /\ Len(blocks) \in 1..Len(blocks)
           /\ \A h \in 1..Len(blocks) - 1 : Front(blocks)[h] = blocks[h]
           /\ \A h \in 0..Len(blocks) - 1 :
                 ChainCoins(Front(blocks))[h] = ChainCoins(blocks)[h]
<1>1. Len(blocks) \in Nat /\ Len(blocks) # 0
    OBVIOUS
<1>2. Front(blocks) = SubSeq(blocks, 1, Len(blocks) - 1) /\ Last(blocks) = blocks[Len(blocks)]
    BY <1>1 DEF Front, Last
<1> DEFINE f == Front(blocks)
<1> HIDE DEF f
<1>3. PICK k \in Nat : k = Len(blocks) - 1
    BY <1>1
<1>4. f \in Seq(Candidates) /\ Len(f) = k /\ \A h \in 1..k : f[h] = blocks[h]
  <2>1. 1 \in Int /\ k \in Int /\ \A i \in 1..k : blocks[i] \in Candidates
      BY <1>1, <1>3
  <2>2. f = SubSeq(blocks, 1, k)
      BY <1>2, <1>3 DEF f
  <2>3. /\ f \in Seq(Candidates) /\ Len(f) = IF 1 <= k THEN k - 1 + 1 ELSE 0
        /\ \A i \in 1..k - 1 + 1 : f[i] = blocks[1 + i - 1]
      BY <2>1, <2>2, SubSeqProperties
  <2>4. ASSUME NEW i \in 1..k PROVE f[i] = blocks[i]
    <3>1. i \in 1..k - 1 + 1 /\ 1 + i - 1 = i
        OBVIOUS
    <3> QED
        BY <3>1, <2>3
  <2>5. Len(f) = k
      BY <2>3
  <2> QED
      BY <2>3, <2>4, <2>5
<1>5. k <= Len(f) /\ k <= Len(blocks)
    BY <1>1, <1>3, <1>4
<1>6. \A h \in 0..k : ChainCoins(f)[h] = ChainCoins(blocks)[h]
    BY <1>4, <1>5, ChainAgree
<1> QED
    BY <1>1, <1>2, <1>3, <1>4, <1>6 DEF f

LEMMA AppendIs ==
    ASSUME NEW blocks \in Seq(Candidates), NEW b \in Candidates
    PROVE  LET after == Append(blocks, b) IN
           /\ after \in Seq(Candidates) /\ Len(after) = Len(blocks) + 1 /\ Len(blocks) \in Nat
           /\ after[Len(blocks) + 1] = b
           /\ \A h \in 1..Len(blocks) : after[h] = blocks[h]
           /\ \A h \in 0..Len(blocks) : ChainCoins(after)[h] = ChainCoins(blocks)[h]
           /\ ChainCoins(after)[Len(blocks) + 1] = Coins(ChainCoins(blocks)[Len(blocks)], b)[Len(b)]
<1> DEFINE after == Append(blocks, b)
<1>1. /\ after \in Seq(Candidates) /\ Len(after) = Len(blocks) + 1 /\ Len(blocks) \in Nat
      /\ after[Len(blocks) + 1] = b
      /\ \A h \in 1..Len(blocks) : after[h] = blocks[h]
    OBVIOUS
<1> HIDE DEF after
<1>2. \A h \in 0..Len(blocks) : ChainCoins(after)[h] = ChainCoins(blocks)[h]
    BY <1>1, ChainAgree
<1>3. PICK m \in 1..Len(after) : m = Len(blocks) + 1 /\ m - 1 = Len(blocks) /\ m - 1 \in 0..Len(blocks)
    BY <1>1
<1>4. ChainCoins(after)[m] = Coins(ChainCoins(after)[m - 1], after[m])[Len(after[m])]
    BY <1>1, ChainRounds
<1>5. ChainCoins(after)[m] = Coins(ChainCoins(blocks)[Len(blocks)], b)[Len(b)]
    BY <1>1, <1>2, <1>3, <1>4
<1> QED
    BY <1>1, <1>2, <1>3, <1>5 DEF after

-----------------------------------------------------------------------------
(* The invariant *)

LEMMA InitInv == Init => Inv
<1> SUFFICES ASSUME Init PROVE Inv
    OBVIOUS
<1>1. chain = <<>> /\ txindex = NoRecords /\ replaced = FALSE
    BY DEF Init
<1>2. TypeOK
  <2>1. \A t \in Tx : Absent \in Record(t)
      BY RecordIs
  <2>2. DOMAIN txindex = Tx /\ \A t \in Tx : txindex[t] = Absent
      BY <1>1 DEF NoRecords
  <2>3. chain \in Seq(Candidates) /\ Len(chain) = 0 /\ replaced \in BOOLEAN
      BY <1>1, EmptySeq
  <2> QED
      BY <2>1, <2>2, <2>3, LedgerAssumption DEF TypeOK
<1>3. CoinsInIndex = {}
    BY <1>1 DEF CoinsInIndex, NoRecords, Outpoint
<1>4. TipCoins = {}
  <2>1. chain \in Seq(Candidates) /\ Len(chain) = 0
      BY <1>1, EmptySeq
  <2> QED
      BY <2>1, ChainRounds DEF TipCoins
<1>5. 1..Len(chain) = {}
    BY <1>1, EmptySeq
<1> QED
    BY <1>2, <1>3, <1>4, <1>5 DEF Inv, Described, Unique

\* what the type invariant says of the index, and the chain
LEMMA TypeFacts ==
    ASSUME TypeOK
    PROVE  /\ chain \in Seq(Candidates) /\ Len(chain) \in Nat /\ Len(chain) <= MaxHeight
           /\ IsIndex(txindex)
           /\ \A h \in 1..Len(chain) : chain[h] \in Candidates /\ chain[h] \in Seq(Tx)
           /\ CoinsInIndex = Unspents(txindex)
           /\ TipCoins = ChainCoins(chain)[Len(chain)]
<1>1. chain \in Seq(Candidates) /\ Len(chain) <= MaxHeight /\ IsIndex(txindex)
    BY DEF TypeOK, IsIndex
<1>2. CoinsInIndex = Unspents(txindex)
    BY DEF CoinsInIndex, Unspents
<1> QED
    BY <1>1, <1>2, LedgerAssumption DEF TipCoins

\* a block that connects, and the index it makes
LEMMA ConnectsIs ==
    ASSUME NEW index, IsIndex(index), NEW b \in Seq(Tx), NEW h \in Height, Connects(index, b, h)
    PROVE  /\ IsInjective(b)
           /\ \E v : Steps(v, index, b, h) /\ v[Len(b)] = Updated(index, b, h)
<1>1. IsInjective(b) /\ Scan(index, b, h).ok
    BY DEF Connects, CheckBlock
<1> QED
    BY <1>1, BlockConnects

LEMMA ConnectInv ==
    ASSUME Inv, NEW b \in Candidates, ConnectBlock(b)
    PROVE  Inv'
<1> DEFINE h == Len(chain) + 1
<1>1. TypeOK /\ CoinsInIndex = TipCoins
    BY DEF Inv, Described
<1>2. /\ Len(chain) < MaxHeight /\ Connects(txindex, b, h)
      /\ txindex' = Updated(txindex, b, h) /\ chain' = Append(chain, b)
      /\ replaced' = (replaced \/ \E t \in ToSet(b) : txindex[t] # Absent)
    BY DEF ConnectBlock
<1>3. b \in Seq(Tx) /\ h \in Height
    BY <1>1, <1>2, TypeFacts, LedgerAssumption DEF Height
<1>4. /\ chain \in Seq(Candidates) /\ Len(chain) \in Nat /\ IsIndex(txindex)
      /\ \A g \in 1..Len(chain) : chain[g] \in Seq(Tx)
      /\ Unspents(txindex) = ChainCoins(chain)[Len(chain)]
    BY <1>1, TypeFacts
<1>5. IsInjective(b)
    BY <1>2, <1>3, <1>4, ConnectsIs
<1>6. PICK v : Steps(v, txindex, b, h) /\ v[Len(b)] = txindex'
    BY <1>2, <1>3, <1>4, ConnectsIs
<1>7. /\ chain' \in Seq(Candidates) /\ Len(chain') = h /\ chain'[h] = b
      /\ \A g \in 1..Len(chain) : chain'[g] = chain[g]
      /\ \A g \in 0..Len(chain) : ChainCoins(chain')[g] = ChainCoins(chain)[g]
      /\ ChainCoins(chain')[h] = Coins(ChainCoins(chain)[Len(chain)], b)[Len(b)]
    BY <1>2, <1>4, AppendIs
<1>8. Len(b) \in 0..Len(b)
    BY <1>3
<1>9. IsIndex(txindex') /\ Unspents(txindex') = Coins(Unspents(txindex), b)[Len(b)]
    BY <1>6, <1>8 DEF Steps
<1>10. Fits(Unspents(txindex), b, Len(b))
    BY <1>3, <1>4, <1>5, <1>6, StepsFit
<1>11. replaced' \in BOOLEAN
    BY <1>2
<1>12. TypeOK'
    BY <1>2, <1>4, <1>7, <1>9, <1>11, LedgerAssumption DEF TypeOK, IsIndex
<1> HIDE DEF h
<1>13. CoinsInIndex' = TipCoins'
  <2>1. CoinsInIndex' = Unspents(txindex')
      BY DEF CoinsInIndex, Unspents
  <2>2. TipCoins' = ChainCoins(chain')[h]
      BY <1>7 DEF TipCoins
  <2> QED
      BY <2>1, <2>2, <1>4, <1>7, <1>9
<1>14. ASSUME NEW g \in 1..Len(chain')
       PROVE  IsInjective(chain'[g]) /\ Fits(ChainCoins(chain')[g - 1], chain'[g], Len(chain'[g]))
  <2>1. CASE g = h
    <3>1. ChainCoins(chain')[g - 1] = Unspents(txindex)
        BY <2>1, <1>4, <1>7 DEF h
    <3> QED
        BY <2>1, <3>1, <1>5, <1>7, <1>10
  <2>2. CASE g # h
    <3>1. g \in 1..Len(chain) /\ g - 1 \in 0..Len(chain)
        BY <2>2, <1>4, <1>7 DEF h
    <3>2. IsInjective(chain[g]) /\ Fits(ChainCoins(chain)[g - 1], chain[g], Len(chain[g]))
        BY <3>1 DEF Inv, Described
    <3> QED
        BY <3>1, <3>2, <1>7
  <2> QED
      BY <2>1, <2>2
<1>15. ASSUME ~replaced' PROVE Unique'
  <2>1. ~replaced /\ \A t \in ToSet(b) : txindex[t] = Absent
      BY <1>15, <1>2
  <2>2. /\ \A g, k \in 1..Len(chain) : g # k => ToSet(chain[g]) \cap ToSet(chain[k]) = {}
        /\ \A g \in 1..Len(chain) : \A t \in ToSet(chain[g]) : txindex[t] # Absent
      BY <2>1 DEF Inv, Unique
  <2>3. \A g \in 1..Len(chain') : g = h \/ g \in 1..Len(chain)
      BY <1>4, <1>7 DEF h
  <2>4. \A g \in 1..Len(chain) : ToSet(chain[g]) \cap ToSet(b) = {}
      BY <2>1, <2>2
  <2>5. \A g, k \in 1..Len(chain') : g # k => ToSet(chain'[g]) \cap ToSet(chain'[k]) = {}
      BY <2>2, <2>3, <2>4, <1>7
  <2>6. ASSUME NEW g \in 1..Len(chain'), NEW t \in ToSet(chain'[g]) PROVE txindex'[t] # Absent
    <3>1. t \in ToSet(b) \/ txindex[t] # Absent
        BY <2>2, <2>3, <1>7
    <3>2. t \in Tx
        BY <2>3, <1>3, <1>4, <1>7 DEF ToSet
    <3> QED
        BY <3>1, <3>2, <1>3, <1>4, <1>6, StepsPresent
  <2> QED
      BY <2>5, <2>6 DEF Unique
<1> QED
    BY <1>12, <1>13, <1>14, <1>15 DEF Inv, Described

LEMMA DisconnectInv ==
    ASSUME Inv, DisconnectBlock
    PROVE  Inv'
<1> DEFINE b == Last(chain)
           base == ChainCoins(chain)[Len(chain) - 1]
<1>1. TypeOK /\ CoinsInIndex = TipCoins
    BY DEF Inv, Described
<1>2. /\ chain # <<>> /\ Undo(txindex, b).ok /\ txindex' = Undo(txindex, b).index
      /\ chain' = Front(chain) /\ replaced' = replaced
    BY DEF DisconnectBlock
<1>3. /\ chain \in Seq(Candidates) /\ Len(chain) \in Nat /\ Len(chain) <= MaxHeight
      /\ IsIndex(txindex)
      /\ \A g \in 1..Len(chain) : chain[g] \in Seq(Tx)
      /\ Unspents(txindex) = ChainCoins(chain)[Len(chain)]
    BY <1>1, TypeFacts
<1>4. /\ chain' \in Seq(Candidates) /\ Len(chain') = Len(chain) - 1
      /\ b = chain[Len(chain)] /\ Len(chain) \in 1..Len(chain)
      /\ \A g \in 1..Len(chain) - 1 : chain'[g] = chain[g]
      /\ \A g \in 0..Len(chain) - 1 : ChainCoins(chain')[g] = ChainCoins(chain)[g]
    BY <1>2, <1>3, FrontIs
<1>5. b \in Seq(Tx) /\ Fits(base, b, Len(b))
    BY <1>3, <1>4 DEF Inv, Described
<1>6. Unspents(txindex) = Coins(base, b)[Len(b)]
    BY <1>3, <1>4, ChainRounds
<1> HIDE DEF b, base
<1>7. /\ IsIndex(txindex') /\ Unspents(txindex') = base
      /\ \A p \in Tx : p \notin ToSet(b) /\ txindex[p] # Absent => txindex'[p] # Absent
    BY <1>2, <1>3, <1>5, <1>6, UndoCoins
<1>8. TypeOK'
  <2>1. replaced' \in BOOLEAN
      BY <1>1, <1>2 DEF TypeOK
  <2>2. Len(chain') <= MaxHeight
      BY <1>3, <1>4, LedgerAssumption
  <2> QED
      BY <1>4, <1>7, <2>1, <2>2 DEF TypeOK, IsIndex
<1>9. CoinsInIndex' = TipCoins'
  <2>1. CoinsInIndex' = Unspents(txindex')
      BY DEF CoinsInIndex, Unspents
  <2>2. TipCoins' = ChainCoins(chain')[Len(chain) - 1]
      BY <1>4 DEF TipCoins
  <2>3. Len(chain) - 1 \in 0..Len(chain) - 1
      BY <1>4
  <2> QED
      BY <2>1, <2>2, <2>3, <1>4, <1>7 DEF base
<1>10. \A g \in 1..Len(chain') : g \in 1..Len(chain) - 1 /\ g \in 1..Len(chain)
                                 /\ g - 1 \in 0..Len(chain) - 1 /\ g # Len(chain)
    BY <1>3, <1>4
<1>11. ASSUME NEW g \in 1..Len(chain')
       PROVE  IsInjective(chain'[g]) /\ Fits(ChainCoins(chain')[g - 1], chain'[g], Len(chain'[g]))
  <2>1. IsInjective(chain[g]) /\ Fits(ChainCoins(chain)[g - 1], chain[g], Len(chain[g]))
      BY <1>10 DEF Inv, Described
  <2> QED
      BY <2>1, <1>4, <1>10
<1>12. ASSUME ~replaced' PROVE Unique'
  <2>1. /\ \A g, k \in 1..Len(chain) : g # k => ToSet(chain[g]) \cap ToSet(chain[k]) = {}
        /\ \A g \in 1..Len(chain) : \A t \in ToSet(chain[g]) : txindex[t] # Absent
      BY <1>2, <1>12 DEF Inv, Unique
  <2>2. \A g \in 1..Len(chain') : chain'[g] = chain[g] /\ ToSet(chain[g]) \cap ToSet(b) = {}
      BY <2>1, <1>4, <1>10
  <2>3. \A g, k \in 1..Len(chain') : g # k => ToSet(chain'[g]) \cap ToSet(chain'[k]) = {}
      BY <2>1, <2>2, <1>10
  <2>4. ASSUME NEW g \in 1..Len(chain'), NEW t \in ToSet(chain'[g]) PROVE txindex'[t] # Absent
    <3>1. t \notin ToSet(b) /\ txindex[t] # Absent /\ t \in ToSet(chain[g])
        BY <2>1, <2>2, <1>10
    <3>2. t \in Tx
        BY <3>1, <1>3, <1>10 DEF ToSet
    <3> QED
        BY <3>1, <3>2, <1>7
  <2> QED
      BY <2>3, <2>4 DEF Unique
<1> QED
    BY <1>8, <1>9, <1>11, <1>12 DEF Inv, Described

LEMMA InvHolds == Spec => []Inv
<1>1. ASSUME Inv, [Next]_vars PROVE Inv'
  <2>1. CASE DisconnectBlock
      BY <1>1, <2>1, DisconnectInv
  <2>2. ASSUME NEW b \in Candidates, ConnectBlock(b) PROVE Inv'
      BY <1>1, <2>2, ConnectInv
  <2>3. CASE UNCHANGED vars
      BY <1>1, <2>3 DEF vars, Inv, Described, Unique, TypeOK, CoinsInIndex, TipCoins
  <2> QED
      BY <1>1, <2>1, <2>2, <2>3 DEF Next
<1> QED
    BY InitInv, <1>1, PTL DEF Spec

-----------------------------------------------------------------------------
(* Theorems *)

\* ConnectBlock and DisconnectBlock keep the unspent outputs of the index equal
\* to the coins of the chain, on every path of connects and disconnects.
THEOREM IndexHolds == Spec => []IndexIsTheChain
<1>1. Inv => IndexIsTheChain
    BY DEF Inv, Described, IndexIsTheChain
<1> QED
    BY InvHolds, <1>1, PTL

\* DisconnectBlock right after ConnectBlock succeeds, and restores every record
\* but those of the block's own transactions.
THEOREM UndoneHolds == Spec => []ConnectIsUndone
<1>1. ASSUME Inv PROVE ConnectIsUndone
  <2> DEFINE h == Len(chain) + 1
  <2>1. SUFFICES ASSUME Len(chain) < MaxHeight, NEW b \in Candidates, Connects(txindex, b, h)
                 PROVE  LET undone == Undo(Updated(txindex, b, h), b)
                        IN  undone.ok /\ \A t \in Tx \ ToSet(b) : undone.index[t] = txindex[t]
      BY DEF ConnectIsUndone
  <2>2. TypeOK
      BY <1>1 DEF Inv, Described
  <2>3. IsIndex(txindex) /\ b \in Seq(Tx) /\ h \in Height
      BY <2>1, <2>2, TypeFacts, LedgerAssumption DEF Height
  <2> HIDE DEF h
  <2>4. IsInjective(b)
      BY <2>1, <2>3, ConnectsIs
  <2>5. PICK v : Steps(v, txindex, b, h) /\ v[Len(b)] = Updated(txindex, b, h)
      BY <2>1, <2>3, ConnectsIs
  <2> QED
      BY <2>3, <2>4, <2>5, UndoReverts
<1> QED
    BY InvHolds, <1>1, PTL

\* While no block has replaced the record of a spent duplicate, DisconnectInputs
\* finds every record that it needs, so the tip can be disconnected.
THEOREM DisconnectHolds == Spec => []OnlyDuplicatesBlock
<1>1. ASSUME Inv PROVE OnlyDuplicatesBlock
  <2>1. SUFFICES ASSUME ~replaced, chain # <<>> PROVE Undo(txindex, Last(chain)).ok
      BY DEF OnlyDuplicatesBlock, TipCanBeDisconnected
  <2> DEFINE b == Last(chain)
             base == ChainCoins(chain)[Len(chain) - 1]
  <2>2. TypeOK
      BY <1>1 DEF Inv, Described
  <2>3. /\ chain \in Seq(Candidates) /\ IsIndex(txindex) /\ Len(chain) \in Nat
        /\ \A g \in 1..Len(chain) : chain[g] \in Seq(Tx)
      BY <2>2, TypeFacts
  <2>4. b = chain[Len(chain)] /\ Len(chain) \in 1..Len(chain)
      BY <2>1, <2>3, FrontIs
  <2>5. b \in Seq(Tx) /\ IsInjective(b) /\ Fits(base, b, Len(b))
      BY <1>1, <2>3, <2>4 DEF Inv, Described
  <2>6. /\ \A g, k \in 1..Len(chain) : g # k => ToSet(chain[g]) \cap ToSet(chain[k]) = {}
        /\ \A g \in 1..Len(chain) : \A t \in ToSet(chain[g]) : txindex[t] # Absent
      BY <1>1, <2>1 DEF Inv, Unique
  <2>7. \A p \in ToSet(b) : txindex[p] # Absent
      BY <2>4, <2>6
  <2>8. ASSUME NEW o \in base
        PROVE  o \in Outpoint /\ txindex[o[1]] # Absent /\ o[1] \notin ToSet(b)
    <3>1. Len(chain) - 1 \in 0..Len(chain)
        BY <2>3, <2>4
    <3>2. PICK g \in 1..Len(chain) - 1 : \E j \in 1..Len(chain[g]) : o \in Outputs(chain[g][j])
        BY <2>3, <2>8, <3>1, ChainCoinsFrom
    <3> PICK i \in 1..Len(chain[g]) : o \in Outputs(chain[g][i])
        BY <3>2
    <3>3. g \in 1..Len(chain) /\ g # Len(chain)
        BY <2>3
    <3>4. chain[g][i] \in Tx /\ chain[g][i] \in ToSet(chain[g])
        BY <2>3, <3>2, <3>3 DEF ToSet
    <3>5. o \in Outpoint /\ o[1] = chain[g][i]
        BY <3>2, <3>4 DEF Outputs, Outpoint
    <3> QED
        BY <2>4, <2>6, <3>3, <3>4, <3>5
  <2> HIDE DEF b, base
  <2>9. Undo(txindex, b).ok
      BY <2>3, <2>5, <2>7, <2>8, UndoPresent
  <2> QED
      BY <2>9 DEF b
<1> QED
    BY InvHolds, <1>1, PTL

-----------------------------------------------------------------------------
(* Sums over sets are defined by choosing elements: by induction on the size of the
   set they do not depend on the choice *)

Pick(s) == CHOOSE x \in s : TRUE
SumRound(F, g, s) == IF s = {} THEN 0 ELSE F[Pick(s)] + g[s \ {Pick(s)}]
IsSum(g, F, S) == g = [s \in SUBSET S |-> SumRound(F, g, s)]

\* a sum loses exactly what is taken out, whichever element that is
TakesOneOut(g, F, S) == \A s \in SUBSET S : \A y \in s : g[s] = F[y] + g[s \ {y}]

LEMMA PickIs == ASSUME NEW s, s # {} PROVE Pick(s) \in s
    BY DEF Pick

LEMMA Smaller ==
    ASSUME NEW S, IsFiniteSet(S), NEW s \in SUBSET S, NEW n \in Nat, Cardinality(s) <= n + 1
    PROVE  /\ Cardinality(s) \in Nat
           /\ s # {} => /\ s \ {Pick(s)} \in SUBSET S
                        /\ Cardinality(s \ {Pick(s)}) <= n
<1>1. IsFiniteSet(s) /\ Cardinality(s) \in Nat
    BY FS_Subset, FS_CardinalityType
<1>2. ASSUME s # {} PROVE Cardinality(s \ {Pick(s)}) = Cardinality(s) - 1
    BY <1>1, <1>2, PickIs, FS_RemoveElement
<1> QED
    BY <1>1, <1>2

LEMMA SumExists ==
    ASSUME NEW S, IsFiniteSet(S), NEW F
    PROVE  \E g : IsSum(g, F, S)
<1> DEFINE Good(g, n) == \A s \in SUBSET S : Cardinality(s) <= n => g[s] = SumRound(F, g, s)
           T == {n \in Nat : \E g : Good(g, n)}
<1>1. 0 \in T
  <2> DEFINE g == [s \in SUBSET S |-> 0]
  <2>1. ASSUME NEW s \in SUBSET S, Cardinality(s) <= 0 PROVE s = {}
    <3>1. IsFiniteSet(s) /\ Cardinality(s) \in Nat
        BY FS_Subset, FS_CardinalityType
    <3> QED
        BY <2>1, <3>1, FS_EmptySet
  <2>2. Good(g, 0)
      BY <2>1 DEF SumRound
  <2> QED
      BY <2>2
<1>2. ASSUME NEW n \in T \cap Nat PROVE n + 1 \in T
  <2>1. PICK g : Good(g, n)
      OBVIOUS
  <2> DEFINE h == [s \in SUBSET S |-> IF Cardinality(s) <= n THEN g[s] ELSE SumRound(F, g, s)]
  <2>2. ASSUME NEW s \in SUBSET S PROVE h[s] = IF Cardinality(s) <= n THEN g[s] ELSE SumRound(F, g, s)
      OBVIOUS
  <2> HIDE DEF h
  <2>3. ASSUME NEW s \in SUBSET S, Cardinality(s) <= n + 1 PROVE h[s] = SumRound(F, h, s)
    <3>1. h[s] = SumRound(F, g, s)
        BY <2>1, <2>2
    <3>2. ASSUME s # {} PROVE h[s \ {Pick(s)}] = g[s \ {Pick(s)}]
      <4>1. s \ {Pick(s)} \in SUBSET S /\ Cardinality(s \ {Pick(s)}) <= n
          BY <2>3, <3>2, Smaller
      <4> QED
          BY <2>2, <4>1
    <3>3. SumRound(F, g, s) = SumRound(F, h, s)
        BY <3>2 DEF SumRound
    <3> QED
        BY <3>1, <3>3
  <2>4. Good(h, n + 1)
      BY <2>3
  <2> QED
      BY <2>4
<1> HIDE DEF T
<1>3. Nat \subseteq T
    BY <1>1, <1>2, NatInd
<1>4. PICK g : Good(g, Cardinality(S))
    BY <1>3, FS_CardinalityType DEF T
<1>5. \A s \in SUBSET S : g[s] = SumRound(F, g, s)
  <2>1. \A s \in SUBSET S : Cardinality(s) <= Cardinality(S)
      BY FS_Subset
  <2> QED
      BY <1>4, <2>1
<1> DEFINE h == [s \in SUBSET S |-> g[s]]
<1>6. ASSUME NEW s \in SUBSET S PROVE SumRound(F, g, s) = SumRound(F, h, s)
  <2>1. s # {} => h[s \ {Pick(s)}] = g[s \ {Pick(s)}]
      OBVIOUS
  <2> HIDE DEF h
  <2> QED
      BY <2>1 DEF SumRound
<1>7. h = [s \in SUBSET S |-> SumRound(F, h, s)]
    BY <1>5, <1>6
<1> QED
    BY <1>7 DEF IsSum

\* what the chosen elements add up to is a number, and any element may be taken first
LEMMA SumInNat ==
    ASSUME NEW S, IsFiniteSet(S), NEW F, \A x \in S : F[x] \in Nat, NEW g, IsSum(g, F, S)
    PROVE  g[{}] = 0 /\ \A s \in SUBSET S : g[s] \in Nat
<1> DEFINE Good(n) == \A s \in SUBSET S : Cardinality(s) <= n => g[s] \in Nat
           T == {n \in Nat : Good(n)}
<1>0. \A s \in SUBSET S : g[s] = SumRound(F, g, s)
    BY DEF IsSum
<1>e. g[{}] = 0
  <2>1. SumRound(F, g, {}) = 0
      BY DEF SumRound
  <2> QED
      BY <1>0, <2>1
<1>1. 0 \in T
  <2>1. ASSUME NEW s \in SUBSET S, Cardinality(s) <= 0 PROVE s = {}
    <3>1. IsFiniteSet(s) /\ Cardinality(s) \in Nat
        BY FS_Subset, FS_CardinalityType
    <3> QED
        BY <2>1, <3>1, FS_EmptySet
  <2> QED
      BY <1>e, <2>1
<1>2. ASSUME NEW n \in T \cap Nat PROVE n + 1 \in T
  <2>1. ASSUME NEW s \in SUBSET S, Cardinality(s) <= n + 1 PROVE g[s] \in Nat
    <3>1. CASE s = {}
        BY <1>e, <3>1
    <3>2. CASE s # {}
      <4>1. s \ {Pick(s)} \in SUBSET S /\ Cardinality(s \ {Pick(s)}) <= n
          BY <2>1, <3>2, Smaller
      <4>2. g[s \ {Pick(s)}] \in Nat /\ Pick(s) \in S
          BY <3>2, <4>1, PickIs
      <4>3. g[s] = F[Pick(s)] + g[s \ {Pick(s)}]
          BY <1>0, <3>2 DEF SumRound
      <4> QED
          BY <4>2, <4>3
    <3> QED
        BY <3>1, <3>2
  <2> QED
      BY <2>1
<1> HIDE DEF T
<1>3. Nat \subseteq T
    BY <1>1, <1>2, NatInd
<1>4. ASSUME NEW s \in SUBSET S PROVE g[s] \in Nat
  <2>1. Cardinality(s) \in Nat
      BY FS_Subset, FS_CardinalityType
  <2> QED
      BY <1>3, <2>1 DEF T
<1> QED
    BY <1>e, <1>4

LEMMA SumRemoves ==
    ASSUME NEW S, IsFiniteSet(S), NEW F, \A x \in S : F[x] \in Nat, NEW g, IsSum(g, F, S)
    PROVE  TakesOneOut(g, F, S)
<1> DEFINE Good(s) == \A y \in s : g[s] = F[y] + g[s \ {y}]
           T == {n \in Nat : \A s \in SUBSET S : Cardinality(s) <= n => Good(s)}
<1>0. \A s \in SUBSET S : g[s] = SumRound(F, g, s) /\ g[s] \in Nat
    BY SumInNat DEF IsSum
<1>1. 0 \in T
  <2>1. ASSUME NEW s \in SUBSET S, Cardinality(s) <= 0 PROVE s = {}
    <3>1. IsFiniteSet(s) /\ Cardinality(s) \in Nat
        BY FS_Subset, FS_CardinalityType
    <3> QED
        BY <2>1, <3>1, FS_EmptySet
  <2> QED
      BY <2>1
<1>2. ASSUME NEW n \in T \cap Nat PROVE n + 1 \in T
  <2>1. ASSUME NEW s \in SUBSET S, Cardinality(s) <= n + 1, NEW y \in s
        PROVE  g[s] = F[y] + g[s \ {y}]
    <3> DEFINE x == Pick(s)
               sx == s \ {x}
               sy == s \ {y}
    <3>1. x \in s
        BY PickIs
    <3>2. g[s] = F[x] + g[sx]
        BY <1>0 DEF SumRound
    <3>3. sx \in SUBSET S /\ sy \in SUBSET S
        OBVIOUS
    <3>4. Cardinality(sx) <= n
        BY <2>1, <3>1, Smaller
    <3>5. Cardinality(sy) <= n
      <4>1. IsFiniteSet(s) /\ Cardinality(s) \in Nat
          BY FS_Subset, FS_CardinalityType
      <4>2. Cardinality(sy) = Cardinality(s) - 1
          BY <4>1, FS_RemoveElement
      <4> QED
          BY <2>1, <4>1, <4>2
    <3> HIDE DEF x
    <3>6. CASE x = y
        BY <3>2, <3>6
    <3>7. CASE x # y
      <4>1. y \in sx /\ x \in sy /\ sx \ {y} = sy \ {x}
          BY <3>1, <3>7
      <4> DEFINE both == sx \ {y}
      <4>2. both \in SUBSET S
          OBVIOUS
      <4> HIDE DEF sx, sy
      <4>3. g[sx] = F[y] + g[sx \ {y}] /\ g[sy] = F[x] + g[sy \ {x}]
          BY <3>3, <3>4, <3>5, <4>1
      <4>4. g[sx] = F[y] + g[both] /\ g[sy] = F[x] + g[both]
          BY <4>1, <4>3
      <4> HIDE DEF both
      <4>5. F[x] \in Nat /\ F[y] \in Nat /\ g[both] \in Nat
          BY <1>0, <2>1, <3>1, <4>2
      <4>6. g[s] = F[y] + g[sy]
          BY <3>2, <4>4, <4>5
      <4> QED
          BY <4>6 DEF sy
    <3> QED
        BY <3>6, <3>7
  <2> QED
      BY <2>1
<1> HIDE DEF T
<1>3. Nat \subseteq T
    BY <1>1, <1>2, NatInd
<1>4. ASSUME NEW s \in SUBSET S PROVE Good(s)
  <2>1. Cardinality(s) \in Nat
      BY FS_Subset, FS_CardinalityType
  <2> HIDE DEF Good
  <2> QED
      BY <1>3, <2>1 DEF T
<1> QED
    BY <1>4 DEF TakesOneOut

\* two disjoint sets add up to their union
LEMMA SumUnion ==
    ASSUME NEW S, IsFiniteSet(S), NEW F, \A x \in S : F[x] \in Nat, NEW g, IsSum(g, F, S)
    PROVE  \A A, B \in SUBSET S : A \cap B = {} => g[A \cup B] = g[A] + g[B]
<1>5. \A s \in SUBSET S : \A y \in s : g[s] = F[y] + g[s \ {y}]
  <2>1. TakesOneOut(g, F, S)
      BY SumRemoves
  <2> QED
      BY <2>1 DEF TakesOneOut
<1> DEFINE Good(A) == \A B \in SUBSET S : A \cap B = {} => g[A \cup B] = g[A] + g[B]
           T == {n \in Nat : \A A \in SUBSET S : Cardinality(A) <= n => Good(A)}
<1>0. g[{}] = 0 /\ \A s \in SUBSET S : g[s] \in Nat
    BY SumInNat
<1>e. Good({})
  <2> SUFFICES ASSUME NEW B \in SUBSET S PROVE g[{} \cup B] = g[{}] + g[B]
      OBVIOUS
  <2>1. {} \cup B = B
      OBVIOUS
  <2> QED
      BY <1>0, <2>1
<1>1. 0 \in T
  <2>1. ASSUME NEW s \in SUBSET S, Cardinality(s) <= 0 PROVE s = {}
    <3>1. IsFiniteSet(s) /\ Cardinality(s) \in Nat
        BY FS_Subset, FS_CardinalityType
    <3> QED
        BY <2>1, <3>1, FS_EmptySet
  <2> HIDE DEF Good
  <2> QED
      BY <1>e, <2>1
<1>2. ASSUME NEW n \in T \cap Nat PROVE n + 1 \in T
  <2>1. ASSUME NEW A \in SUBSET S, Cardinality(A) <= n + 1, A # {}, NEW B \in SUBSET S, A \cap B = {}
        PROVE  g[A \cup B] = g[A] + g[B]
    <3> DEFINE x == Pick(A)
               rest == A \ {x}
               all == A \cup B
    <3>1. x \in A /\ x \in S /\ x \in all /\ all \in SUBSET S /\ rest \in SUBSET S
        BY <2>1, PickIs
    <3>2. Cardinality(rest) <= n
        BY <2>1, Smaller
    <3>3. all \ {x} = rest \cup B /\ rest \cap B = {}
        BY <2>1, <3>1
    <3> HIDE DEF x, Good, T, all
    <3>4. g[A] = F[x] + g[rest]
        BY <1>5, <3>1
    <3>5. g[all] = F[x] + g[all \ {x}]
        BY <1>5, <3>1
    <3> HIDE DEF rest
    <3>6. g[rest \cup B] = g[rest] + g[B]
        BY <3>1, <3>2, <3>3 DEF Good, T
    <3>7. F[x] \in Nat /\ g[rest] \in Nat /\ g[B] \in Nat
        BY <1>0, <3>1
    <3>8. g[all] = F[x] + (g[rest] + g[B])
        BY <3>3, <3>5, <3>6
    <3>9. g[all] = g[A] + g[B]
        BY <3>4, <3>7, <3>8
    <3> QED
        BY <3>9 DEF all
  <2>2. ASSUME NEW A \in SUBSET S, Cardinality(A) <= n + 1 PROVE Good(A)
    <3>1. CASE A # {}
        BY <2>1, <2>2, <3>1
    <3>2. CASE A = {}
      <4> HIDE DEF Good
      <4> QED
          BY <1>e, <3>2
    <3> QED
        BY <3>1, <3>2
  <2> HIDE DEF Good
  <2> QED
      BY <2>2
<1> HIDE DEF T
<1>3. Nat \subseteq T
    BY <1>1, <1>2, NatInd
<1>4. ASSUME NEW A \in SUBSET S PROVE Good(A)
  <2>1. Cardinality(A) \in Nat
      BY FS_Subset, FS_CardinalityType
  <2> HIDE DEF Good
  <2> QED
      BY <1>3, <2>1 DEF T
<1> QED
    BY <1>4

\* the sum does not depend on the set around
LEMMA SumAgrees ==
    ASSUME NEW S, IsFiniteSet(S), NEW S2 \in SUBSET S, NEW F, \A x \in S : F[x] \in Nat,
           NEW g, IsSum(g, F, S), NEW h, IsSum(h, F, S2)
    PROVE  g[S2] = h[S2]
<1> DEFINE T == {n \in Nat : \A s \in SUBSET S2 : Cardinality(s) <= n => g[s] = h[s]}
<1>0. \A s \in SUBSET S2 : s \in SUBSET S /\ g[s] = SumRound(F, g, s) /\ h[s] = SumRound(F, h, s)
    BY DEF IsSum
<1>e. g[{}] = h[{}]
    BY <1>0 DEF SumRound
<1>1. 0 \in T
  <2>1. ASSUME NEW s \in SUBSET S, Cardinality(s) <= 0 PROVE s = {}
    <3>1. IsFiniteSet(s) /\ Cardinality(s) \in Nat
        BY FS_Subset, FS_CardinalityType
    <3> QED
        BY <2>1, <3>1, FS_EmptySet
  <2> QED
      BY <1>0, <1>e, <2>1
<1>2. ASSUME NEW n \in T \cap Nat PROVE n + 1 \in T
  <2>1. ASSUME NEW s \in SUBSET S2, Cardinality(s) <= n + 1, s # {} PROVE g[s] = h[s]
    <3>1. s \ {Pick(s)} \in SUBSET S2 /\ Cardinality(s \ {Pick(s)}) <= n
        BY <1>0, <2>1, Smaller
    <3>2. g[s \ {Pick(s)}] = h[s \ {Pick(s)}]
        BY <3>1
    <3> QED
        BY <1>0, <2>1, <3>2 DEF SumRound
  <2>2. ASSUME NEW s \in SUBSET S2, Cardinality(s) <= n + 1 PROVE g[s] = h[s]
    <3>1. CASE s = {}
        BY <1>e, <3>1
    <3>2. CASE s # {}
        BY <2>1, <2>2, <3>2
    <3> QED
        BY <3>1, <3>2
  <2> QED
      BY <2>2
<1> HIDE DEF T
<1>3. Nat \subseteq T
    BY <1>1, <1>2, NatInd
<1>4. Cardinality(S2) \in Nat
    BY FS_Subset, FS_CardinalityType
<1> QED
    BY <1>3, <1>4 DEF T

LEMMA ValueOutType == ASSUME NEW t \in Tx PROVE ValueOut(t) \in Nat
<1> DEFINE S == 1..Len(Out[t])
           F == Out[t]
           g == CHOOSE g : IsSum(g, F, S)
<1>1. Len(Out[t]) \in Nat /\ \A n \in S : F[n] \in Nat
    BY TxAssumption
<1>2. IsFiniteSet(S)
    BY <1>1, FS_Interval
<1>3. ValueOut(t) = g[S]
    BY DEF ValueOut, MapThenSumSet, MapThenFoldSet, IsSum, SumRound, Pick
<1> HIDE DEF S, F
<1>4. IsSum(g, F, S)
    BY <1>2, SumExists
<1> HIDE DEF g
<1> QED
    BY <1>1, <1>2, <1>3, <1>4, SumInNat

\* the values of coins, and of what transactions make
CoinValue == [o \in Outpoint |-> Out[o[1]][o[2]]]
CoinRound(g, s) == IF s = {} THEN 0 ELSE Out[Pick(s)[1]][Pick(s)[2]] + g[s \ {Pick(s)}]
IsCoinSum(g, S) == g = [s \in SUBSET S |-> CoinRound(g, s)]

LEMMA CoinValueIs == ASSUME NEW o \in Outpoint PROVE CoinValue[o] \in Nat
<1>1. PICK p \in Tx : \E n \in 1..Len(Out[p]) : o = <<p, n>>
    BY OutpointIs
<1> PICK n \in 1..Len(Out[p]) : o = <<p, n>>
    BY <1>1
<1>2. Out[p] \in Seq(Nat)
    BY TxAssumption
<1>3. CoinValue[o] = Out[p][n]
    BY DEF CoinValue
<1> QED
    BY <1>2, <1>3

LEMMA ValueOfBy ==
    ASSUME NEW S, IsFiniteSet(S), S \subseteq Outpoint
    PROVE  \E g : IsSum(g, CoinValue, S) /\ ValueOf(S) = g[S]
<1>1. ASSUME NEW g, NEW s \in SUBSET S PROVE CoinRound(g, s) = SumRound(CoinValue, g, s)
  <2>1. s # {} => Pick(s) \in Outpoint
      BY PickIs
  <2>2. s # {} => CoinValue[Pick(s)] = Out[Pick(s)[1]][Pick(s)[2]]
      BY <2>1 DEF CoinValue
  <2> QED
      BY <2>2 DEF CoinRound, SumRound
<1>2. \A g : IsCoinSum(g, S) <=> IsSum(g, CoinValue, S)
    BY <1>1 DEF IsCoinSum, IsSum
<1> DEFINE c == CHOOSE g : IsCoinSum(g, S)
<1>3. ValueOf(S) = c[S]
    BY DEF ValueOf, MapThenSumSet, MapThenFoldSet, IsCoinSum, CoinRound, Pick
<1>4. IsCoinSum(c, S)
    BY <1>2, SumExists
<1> QED
    BY <1>2, <1>3, <1>4

LEMMA ValueOfAdds ==
    ASSUME NEW A, IsFiniteSet(A), A \subseteq Outpoint,
           NEW B, IsFiniteSet(B), B \subseteq Outpoint, A \cap B = {}
    PROVE  /\ ValueOf(A) \in Nat /\ ValueOf(B) \in Nat
           /\ ValueOf(A \cup B) = ValueOf(A) + ValueOf(B)
<1> DEFINE S == A \cup B
<1>1. IsFiniteSet(S) /\ S \subseteq Outpoint /\ A \in SUBSET S /\ B \in SUBSET S
    BY FS_Union
<1> HIDE DEF S
<1>2. PICK g : IsSum(g, CoinValue, S) /\ ValueOf(S) = g[S]
    BY <1>1, ValueOfBy
<1>3. PICK a : IsSum(a, CoinValue, A) /\ ValueOf(A) = a[A]
    BY ValueOfBy
<1>4. PICK c : IsSum(c, CoinValue, B) /\ ValueOf(B) = c[B]
    BY ValueOfBy
<1>5. \A x \in S : CoinValue[x] \in Nat
    BY <1>1, CoinValueIs
<1>6. g[A] = a[A]
    BY <1>1, <1>2, <1>3, <1>5, SumAgrees
<1>7. g[B] = c[B]
    BY <1>1, <1>2, <1>4, <1>5, SumAgrees
<1>8. g[A] \in Nat /\ g[B] \in Nat
    BY <1>1, <1>2, <1>5, SumInNat
<1>9. g[A \cup B] = g[A] + g[B]
    BY <1>1, <1>2, <1>5, SumUnion
<1> QED
    BY <1>2, <1>3, <1>4, <1>6, <1>7, <1>8, <1>9 DEF S

LEMMA ValueOfNone == ValueOf({}) = 0
<1>1. IsFiniteSet({})
    BY FS_EmptySet
<1>2. PICK g : IsSum(g, CoinValue, {}) /\ ValueOf({}) = g[{}]
    BY <1>1, ValueOfBy
<1> QED
    BY <1>1, <1>2, SumInNat

OutTotal(S) == MapThenSumSet(ValueOut, S)
OutValue == [t \in Tx |-> ValueOut(t)]
OutRound(g, s) == IF s = {} THEN 0 ELSE ValueOut(Pick(s)) + g[s \ {Pick(s)}]
IsOutSum(g, S) == g = [s \in SUBSET S |-> OutRound(g, s)]

LEMMA OutTotalBy ==
    ASSUME NEW S, IsFiniteSet(S), S \subseteq Tx
    PROVE  \E g : IsSum(g, OutValue, S) /\ OutTotal(S) = g[S]
<1>1. ASSUME NEW g, NEW s \in SUBSET S PROVE OutRound(g, s) = SumRound(OutValue, g, s)
  <2>1. s # {} => Pick(s) \in Tx
      BY PickIs
  <2>2. s # {} => OutValue[Pick(s)] = ValueOut(Pick(s))
      BY <2>1 DEF OutValue
  <2> QED
      BY <2>2 DEF OutRound, SumRound
<1>2. \A g : IsOutSum(g, S) <=> IsSum(g, OutValue, S)
    BY <1>1 DEF IsOutSum, IsSum
<1> DEFINE c == CHOOSE g : IsOutSum(g, S)
<1>3. OutTotal(S) = c[S]
    BY DEF OutTotal, MapThenSumSet, MapThenFoldSet, IsOutSum, OutRound, Pick
<1>4. IsOutSum(c, S)
    BY <1>2, SumExists
<1> QED
    BY <1>2, <1>3, <1>4

LEMMA OutTotalAdds ==
    ASSUME NEW A, IsFiniteSet(A), A \subseteq Tx, NEW t \in Tx \ A
    PROVE  OutTotal(A) \in Nat /\ OutTotal(A \cup {t}) = OutTotal(A) + ValueOut(t)
<1> DEFINE S == A \cup {t}
<1>1. IsFiniteSet(S) /\ S \subseteq Tx /\ A \in SUBSET S /\ t \in S /\ S \ {t} = A
    BY FS_AddElement
<1> HIDE DEF S
<1>2. PICK g : IsSum(g, OutValue, S) /\ OutTotal(S) = g[S]
    BY <1>1, OutTotalBy
<1>3. PICK a : IsSum(a, OutValue, A) /\ OutTotal(A) = a[A]
    BY OutTotalBy
<1>4. \A x \in S : OutValue[x] \in Nat
    BY <1>1, ValueOutType DEF OutValue
<1>5. g[A] = a[A]
    BY <1>1, <1>2, <1>3, <1>4, SumAgrees
<1>6. g[A] \in Nat
    BY <1>1, <1>2, <1>4, SumInNat
<1>7. g[S] = OutValue[t] + g[A]
  <2>1. TakesOneOut(g, OutValue, S)
      BY <1>1, <1>2, <1>4, SumRemoves
  <2> QED
      BY <1>1, <2>1 DEF TakesOneOut
<1>8. OutValue[t] = ValueOut(t) /\ ValueOut(t) \in Nat
    BY ValueOutType DEF OutValue
<1> QED
    BY <1>2, <1>3, <1>5, <1>6, <1>7, <1>8 DEF S

LEMMA OutTotalNone == OutTotal({}) = 0
<1>1. IsFiniteSet({})
    BY FS_EmptySet
<1>2. PICK g : IsSum(g, OutValue, {}) /\ OutTotal({}) = g[{}]
    BY <1>1, OutTotalBy
<1> QED
    BY <1>1, <1>2, SumInNat

LEMMA TotalsInNat ==
    /\ \A S : IsFiniteSet(S) /\ S \subseteq Outpoint => ValueOf(S) \in Nat
    /\ \A S : IsFiniteSet(S) /\ S \subseteq Tx => OutTotal(S) \in Nat
<1>1. ASSUME NEW S, IsFiniteSet(S), S \subseteq Outpoint PROVE ValueOf(S) \in Nat
  <2>1. PICK g : IsSum(g, CoinValue, S) /\ ValueOf(S) = g[S]
      BY <1>1, ValueOfBy
  <2>2. \A x \in S : CoinValue[x] \in Nat
      BY <1>1, CoinValueIs
  <2> QED
      BY <1>1, <2>1, <2>2, SumInNat
<1>2. ASSUME NEW S, IsFiniteSet(S), S \subseteq Tx PROVE OutTotal(S) \in Nat
  <2>1. PICK g : IsSum(g, OutValue, S) /\ OutTotal(S) = g[S]
      BY <1>2, OutTotalBy
  <2>2. \A x \in S : OutValue[x] \in Nat
      BY <1>2, ValueOutType DEF OutValue
  <2> QED
      BY <1>2, <2>1, <2>2, SumInNat
<1> QED
    BY <1>1, <1>2

-----------------------------------------------------------------------------
(* What ConnectBlock tests, and what the chain allows *)

\* the i-th transaction may follow those before it, on the coins of the index
Allowed(index, b, h, i) ==
    LET base == Unspents(index)
    IN /\ In[b[i]] \subseteq Coins(base, b)[i - 1]
       /\ \A o \in base : o[1] # b[i]
       /\ \A o \in In[b[i]] :
             o[1] \in Coinbase => o[1] \notin ToSet(b) /\ h - index[o[1]].pos >= Maturity
       /\ i > 1 => ValueOf(In[b[i]]) >= ValueOut(b[i])

\* the condition of one round of the loop over vtx
Tested(index, queue, t, h) ==
    /\ ~Overwrites(index, t)
    /\ \A o \in In[t] : Spendable(index, queue, o, h)
    /\ t \notin Coinbase => ValueOf(In[t]) >= ValueOut(t)

\* the queue after i transactions: the coins of that moment, and the records of the
\* block's own transactions are those of this block
Keeps(index, queue, b, h, i) ==
    /\ IsIndex(queue)
    /\ Unspents(View(index, queue)) = Coins(Unspents(index), b)[i]
    /\ \A p \in Tx : View(index, queue)[p].pos = IF \E j \in 1..i : b[j] = p THEN h ELSE index[p].pos

LEMMA OverwritesIs ==
    ASSUME NEW index, IsIndex(index), NEW t \in Tx
    PROVE  Overwrites(index, t) <=> \E o \in Unspents(index) : o[1] = t
<1>1. ASSUME Overwrites(index, t) PROVE \E o \in Unspents(index) : o[1] = t
  <2>1. index[t] \in Record(t) /\ index[t] # Absent
      BY <1>1 DEF IsIndex, Overwrites
  <2>2. PICK n \in DOMAIN index[t].spent : index[t].spent[n] = Unspent
      BY <1>1 DEF Overwrites
  <2>3. n \in 1..Len(Out[t])
      BY <2>1, <2>2, RecordIs
  <2>4. <<t, n>> \in Unspents(index)
      BY <2>1, <2>2, <2>3, UnspentIs
  <2>5. <<t, n>>[1] = t
      OBVIOUS
  <2> QED
      BY <2>4, <2>5
<1>2. ASSUME ~Overwrites(index, t), NEW o \in Unspents(index), o[1] = t PROVE FALSE
  <2>1. Outputs(t) \cap Unspents(index) = {}
      BY <1>2, OverwritesNone
  <2>2. o \in Outputs(t)
    <3>1. o \in Outpoint
        BY UnspentIs
    <3>2. PICK p \in Tx : \E n \in 1..Len(Out[p]) : o = <<p, n>>
        BY <3>1, OutpointIs
    <3> QED
        BY <1>2, <3>2 DEF Outputs
  <2> QED
      BY <2>1, <2>2
<1> QED
    BY <1>1, <1>2

\* an input finds a record with the output unspent exactly when the coin exists
LEMMA FoundIsCoin ==
    ASSUME NEW index, IsIndex(index), NEW queue, IsIndex(queue), NEW o \in Tx \X Nat
    PROVE  Found(index, queue, o) /\ Fetched(index, queue, o[1]).spent[o[2]] = Unspent
           <=> o \in Unspents(View(index, queue))
<1> DEFINE x == View(index, queue)
<1>1. PICK p \in Tx, n \in Nat : o = <<p, n>> /\ o[1] = p /\ o[2] = n
    OBVIOUS
<1>2. IsIndex(x) /\ x[p] = Fetched(index, queue, p)
    BY ViewIs
<1> HIDE DEF x
<1>3. x[p] \in Record(p) /\ (x[p] # Absent => DOMAIN x[p].spent = 1..Len(Out[p]))
    BY <1>2, RecordIs DEF IsIndex
<1>4. o \in Unspents(x) => n \in 1..Len(Out[p])
  <2> SUFFICES ASSUME o \in Unspents(x) PROVE n \in 1..Len(Out[p])
      OBVIOUS
  <2>1. o \in Outpoint
      BY UnspentIs
  <2>2. PICK q \in Tx : \E m \in 1..Len(Out[q]) : o = <<q, m>>
      BY <2>1, OutpointIs
  <2> QED
      BY <1>1, <2>2
<1>5. n \in 1..Len(Out[p]) => (o \in Unspents(x) <=> x[p] # Absent /\ x[p].spent[n] = Unspent)
    BY <1>1, UnspentIs
<1> QED
    BY <1>1, <1>2, <1>3, <1>4, <1>5 DEF Found, x

\* a coinbase of the block itself is too young, another one is as old as its record
LEMMA MatureIs ==
    ASSUME NEW index, IsIndex(index), NEW b \in Seq(Tx), CheckBlock(b), NEW h \in Height,
           NEW i \in 1..Len(b), NEW queue, Keeps(index, queue, b, h, i - 1), NEW o \in In[b[i]]
    PROVE  ~Immature(index, queue, o, h)
           <=> (o[1] \in Coinbase => o[1] \notin ToSet(b) /\ h - index[o[1]].pos >= Maturity)
<1> SUFFICES ASSUME o[1] \in Coinbase
             PROVE  ~(Fetched(index, queue, o[1]).pos + Maturity > h)
                    <=> o[1] \notin ToSet(b) /\ h - index[o[1]].pos >= Maturity
    BY DEF Immature
<1> DEFINE p == o[1]
           pos == Fetched(index, queue, p).pos
<1>1. p \in Tx /\ h \in Nat /\ Maturity \in Nat /\ Maturity > 0
    BY TxAssumption, HeightPositive
<1>2. pos = IF \E j \in 1..i - 1 : b[j] = p THEN h ELSE index[p].pos
    BY <1>1, ViewIs DEF Keeps
<1>3. index[p].pos \in Nat
  <2>1. index[p] \in Record(p)
      BY <1>1 DEF IsIndex
  <2>2. Absent.pos = 0
      BY DEF Absent
  <2>3. index[p] # Absent => index[p].pos \in Height
      BY <1>1, <2>1, RecordIs
  <2>4. index[p] = Absent => index[p].pos \in Nat
      BY <2>2
  <2> QED
      BY <2>3, <2>4, HeightPositive
<1> HIDE DEF pos
<1>4. CASE p \in ToSet(b)
  <2>1. PICK k \in 1..Len(b) : b[k] = p
      BY <1>4 DEF ToSet
  <2>2. k = 1
    <3>1. k # 1 => k \in 2..Len(b)
        OBVIOUS
    <3> QED
        BY <2>1, <3>1 DEF CheckBlock
  <2>3. i # 1
    <3>1. i = 1 => In[b[i]] = {}
        BY <2>1, <2>2, TxAssumption
    <3> QED
        BY <3>1
  <2>4. 1 \in 1..i - 1
      BY <2>3
  <2>5. pos = h
      BY <1>2, <2>1, <2>2, <2>4
  <2> QED
      BY <1>1, <1>4, <2>5 DEF pos
<1>5. CASE p \notin ToSet(b)
  <2>1. \A j \in 1..i - 1 : j \in 1..Len(b)
      OBVIOUS
  <2>2. \A j \in 1..Len(b) : b[j] # p
      BY <1>5 DEF ToSet
  <2>3. pos = index[p].pos
      BY <1>2, <2>1, <2>2
  <2> QED
      BY <1>1, <1>3, <1>5, <2>3 DEF pos
<1> QED
    BY <1>4, <1>5

LEMMA TestedIs ==
    ASSUME NEW index, IsIndex(index), NEW b \in Seq(Tx), CheckBlock(b), NEW h \in Height,
           NEW i \in 1..Len(b), NEW queue, Keeps(index, queue, b, h, i - 1)
    PROVE  Tested(index, queue, b[i], h) <=> Allowed(index, b, h, i)
<1> DEFINE t == b[i]
<1>1. t \in Tx /\ In[t] \subseteq Tx \X Nat
    BY TxAssumption
<1>2. ~Overwrites(index, t) <=> \A o \in Unspents(index) : o[1] # t
    BY <1>1, OverwritesIs
<1>3. (t \notin Coinbase) <=> i > 1
  <2>1. i > 1 => i \in 2..Len(b)
      OBVIOUS
  <2> QED
      BY <2>1 DEF CheckBlock
<1>4. ASSUME NEW o \in In[t]
      PROVE  Spendable(index, queue, o, h) <=>
                /\ o \in Coins(Unspents(index), b)[i - 1]
                /\ o[1] \in Coinbase => o[1] \notin ToSet(b) /\ h - index[o[1]].pos >= Maturity
  <2>1. o \in Tx \X Nat /\ IsIndex(queue)
      BY <1>1 DEF Keeps
  <2>2. Found(index, queue, o) /\ Fetched(index, queue, o[1]).spent[o[2]] = Unspent
        <=> o \in Coins(Unspents(index), b)[i - 1]
      BY <2>1, FoundIsCoin DEF Keeps
  <2>3. ~Immature(index, queue, o, h)
        <=> (o[1] \in Coinbase => o[1] \notin ToSet(b) /\ h - index[o[1]].pos >= Maturity)
      BY MatureIs
  <2> QED
      BY <2>2, <2>3 DEF Spendable
<1> DEFINE Fits1(o) == o \in Coins(Unspents(index), b)[i - 1]
           Fits2(o) == o[1] \in Coinbase => o[1] \notin ToSet(b) /\ h - index[o[1]].pos >= Maturity
           Pays == ValueOf(In[t]) >= ValueOut(t)
<1>5. (\A o \in In[t] : Spendable(index, queue, o, h)) <=> \A o \in In[t] : Fits1(o) /\ Fits2(o)
    BY <1>4
<1>6. Tested(index, queue, t, h) <=>
          /\ ~Overwrites(index, t)
          /\ \A o \in In[t] : Spendable(index, queue, o, h)
          /\ t \notin Coinbase => Pays
    BY DEF Tested
<1>7. Allowed(index, b, h, i) <=>
          /\ \A o \in In[t] : Fits1(o)
          /\ \A o \in Unspents(index) : o[1] # t
          /\ \A o \in In[t] : Fits2(o)
          /\ i > 1 => Pays
    BY DEF Allowed
<1> HIDE DEF Fits1, Fits2, Pays
<1>8. Tested(index, queue, t, h) <=> Allowed(index, b, h, i)
    BY <1>2, <1>3, <1>5, <1>6, <1>7
<1> QED
    BY <1>8

LEMMA KeepsStep ==
    ASSUME NEW index, IsIndex(index), NEW b \in Seq(Tx), NEW h \in Height,
           NEW i \in 1..Len(b), NEW queue, Keeps(index, queue, b, h, i - 1),
           Tested(index, queue, b[i], h)
    PROVE  Keeps(index, Queued(index, queue, b[i], h), b, h, i)
<1> DEFINE t == b[i]
           after == Queued(index, queue, t, h)
           x == View(index, queue)
           y == View(index, after)
<1>1. t \in Tx /\ IsIndex(queue) /\ Unspents(x) = Coins(Unspents(index), b)[i - 1]
    BY DEF Keeps
<1>2. \A p \in Tx : x[p].pos = IF \E j \in 1..i - 1 : b[j] = p THEN h ELSE index[p].pos
    BY DEF Keeps
<1>3. \A o \in In[t] : Spendable(index, queue, o, h)
    BY DEF Tested
<1> HIDE DEF after, x, y, t
<1>4. IsIndex(after) /\ Connected(x, y, t, h)
    BY <1>1, <1>3, ConnectStep DEF after, x, y
<1>5. Unspents(y) = Coins(Unspents(index), b)[i]
  <2>1. Unspents(y) = Spend(Unspents(x), t)
      BY <1>1, <1>4, CoinsStep
  <2>2. Coins(Unspents(index), b)[i] = Spend(Coins(Unspents(index), b)[i - 1], t)
      BY CoinsRounds DEF t
  <2> QED
      BY <1>1, <2>1, <2>2
<1>6. ASSUME NEW p \in Tx
      PROVE  y[p].pos = IF \E j \in 1..i : b[j] = p THEN h ELSE index[p].pos
  <2>1. CASE p = t
    <3>1. y[p].pos = h
        BY <1>4, <2>1 DEF Connected
    <3>2. i \in 1..i /\ b[i] = p
        BY <2>1 DEF t
    <3> QED
        BY <3>1, <3>2
  <2>2. CASE p # t
    <3>1. Marked(y[p], x[p], p, t, <<h, t>>)
        BY <1>4, <2>2 DEF Connected
    <3>2. y[p].pos = x[p].pos
        BY <3>1 DEF Marked
    <3>3. (\E j \in 1..i : b[j] = p) <=> \E j \in 1..i - 1 : b[j] = p
      <4>1. \A j \in 1..i : j = i \/ j \in 1..i - 1
          OBVIOUS
      <4>2. \A j \in 1..i - 1 : j \in 1..i
          OBVIOUS
      <4> QED
          BY <2>2, <4>1, <4>2 DEF t
    <3> QED
        BY <1>2, <3>2, <3>3
  <2> QED
      BY <2>1, <2>2
<1>7. Keeps(index, after, b, h, i)
    BY <1>4, <1>5, <1>6 DEF Keeps, y
<1> QED
    BY <1>7 DEF after, t

\* the inputs and the transactions of the first i rounds
Paid(b, i) == UNION {In[b[j]] : j \in 1..i}
Made(b, i) == {b[j] : j \in 1..i}

LEMMA RoundsAdd ==
    ASSUME NEW b \in Seq(Tx)
    PROVE  /\ Paid(b, 0) = {} /\ Made(b, 0) = {}
           /\ \A i \in 1..Len(b) : /\ Paid(b, i) = Paid(b, i - 1) \cup In[b[i]]
                                   /\ Made(b, i) = Made(b, i - 1) \cup {b[i]}
           /\ Made(b, Len(b)) = ToSet(b)
           /\ Paid(b, Len(b)) = UNION {In[t] : t \in ToSet(b)}
<1>1. 1..0 = {}
    OBVIOUS
<1>2. ASSUME NEW i \in 1..Len(b) PROVE 1..i = (1..i - 1) \cup {i}
    OBVIOUS
<1>3. \A i \in 1..Len(b) : Paid(b, i) = Paid(b, i - 1) \cup In[b[i]]
    BY <1>2 DEF Paid
<1>4. \A i \in 1..Len(b) : Made(b, i) = Made(b, i - 1) \cup {b[i]}
    BY <1>2 DEF Made
<1>5. Made(b, Len(b)) = ToSet(b)
    BY DEF Made, ToSet
<1>6. Paid(b, Len(b)) = UNION {In[t] : t \in ToSet(b)}
    BY DEF Paid, ToSet
<1> QED
    BY <1>1, <1>3, <1>4, <1>5, <1>6 DEF Paid, Made

\* a coin is one of before the block, or an output of a transaction of the block
LEMMA CoinsFrom ==
    ASSUME NEW base, base \subseteq Outpoint, NEW b \in Seq(Tx), NEW i \in 0..Len(b),
           NEW o \in Coins(base, b)[i]
    PROVE  o \in Outpoint /\ (o \in base \/ o[1] \in Made(b, i))
<1> SUFFICES ASSUME o \notin base PROVE o \in Outpoint /\ o[1] \in Made(b, i)
    OBVIOUS
<1>1. PICK j \in 1..i : o \in Outputs(b[j])
    BY NewCoins
<1>2. j \in 1..Len(b) /\ b[j] \in Tx
    OBVIOUS
<1>3. o[1] = b[j] /\ o \in Outpoint
    BY <1>1, <1>2 DEF Outputs, Outpoint
<1> QED
    BY <1>3 DEF Made

\* the fees are what the inputs of the block have over its outputs: no coin is paid
\* twice, so the inputs add up
Accounts(base, b, i, fees) ==
    /\ fees \in Nat
    /\ IsFiniteSet(Paid(b, i)) /\ Paid(b, i) \subseteq Outpoint
    /\ Paid(b, i) \cap Coins(base, b)[i] = {}
    /\ \A o \in Paid(b, i) : o \in base \/ o[1] \in Made(b, i)
    /\ IsFiniteSet(Made(b, i)) /\ Made(b, i) \subseteq Tx
    /\ i = 0 => fees = 0
    /\ i > 0 => fees + OutTotal(Made(b, i)) = ValueOf(Paid(b, i)) + ValueOut(b[1])

FeesAfter(fees, t) == fees + IF t \in Coinbase THEN 0 ELSE ValueOf(In[t]) - ValueOut(t)

LEMMA AccountsStart ==
    ASSUME NEW base, NEW b \in Seq(Tx)
    PROVE  Accounts(base, b, 0, 0)
<1> DEFINE P == Paid(b, 0)
           M == Made(b, 0)
<1>1. P = {} /\ M = {}
    BY RoundsAdd
<1> HIDE DEF P, M
<1>2. IsFiniteSet(P) /\ IsFiniteSet(M)
    BY <1>1, FS_EmptySet
<1> QED
    BY <1>1, <1>2 DEF Accounts, P, M

LEMMA AccountsStep ==
    ASSUME NEW index, NEW b \in Seq(Tx), CheckBlock(b), NEW h, NEW i \in 1..Len(b), NEW fees,
           Accounts(Unspents(index), b, i - 1, fees), Allowed(index, b, h, i)
    PROVE  Accounts(Unspents(index), b, i, FeesAfter(fees, b[i]))
<1> DEFINE base == Unspents(index)
           t == b[i]
           V == ValueOf(In[t])
           O == ValueOut(t)
           P == Paid(b, i - 1)
           M == Made(b, i - 1)
<1>1. t \in Tx /\ IsFiniteSet(In[t]) /\ O \in Nat /\ i - 1 \in 0..Len(b) /\ base \subseteq Outpoint
    BY TxAssumption, ValueOutType, UnspentIs
<1>2. /\ In[t] \subseteq Coins(base, b)[i - 1]
      /\ \A o \in base : o[1] # t
      /\ i > 1 => V >= O
    BY DEF Allowed
<1>3. /\ fees \in Nat /\ IsFiniteSet(P) /\ P \subseteq Outpoint /\ P \cap Coins(base, b)[i - 1] = {}
      /\ \A o \in P : o \in base \/ o[1] \in M
      /\ IsFiniteSet(M) /\ M \subseteq Tx
      /\ i - 1 = 0 => fees = 0
      /\ i - 1 > 0 => fees + OutTotal(M) = ValueOf(P) + ValueOut(b[1])
    BY DEF Accounts
<1>4. Paid(b, i) = P \cup In[t] /\ Made(b, i) = M \cup {t}
    BY RoundsAdd
<1>5. t \notin M
  <2> SUFFICES ASSUME NEW j \in 1..i - 1, b[j] = b[i] PROVE FALSE
      BY DEF Made
  <2>1. j \in 1..Len(b) /\ j # i /\ DOMAIN b = 1..Len(b)
      OBVIOUS
  <2> QED
      BY <2>1 DEF CheckBlock, IsInjective
<1>6. i = 1 => P = {} /\ M = {}
    BY RoundsAdd
<1>7. /\ i = 1 => t \in Coinbase /\ In[t] = {} /\ t = b[1]
      /\ i # 1 => t \notin Coinbase
  <2>1. i # 1 => i \in 2..Len(b)
      OBVIOUS
  <2> QED
      BY <2>1, TxAssumption DEF CheckBlock
<1>8. Coins(base, b)[i] = (Coins(base, b)[i - 1] \ In[t]) \cup Outputs(t)
    BY CoinsRounds DEF Spend
<1>9. \A o \in In[t] : o \in Outpoint /\ (o \in base \/ o[1] \in M)
  <2> HIDE DEF base
  <2> QED
      BY <1>1, <1>2, CoinsFrom
<1>10. In[t] \cap P = {} /\ In[t] \subseteq Outpoint
    BY <1>2, <1>3, <1>9
<1> HIDE DEF base, t, V, O, P, M
<1>11. \A o \in Outputs(t) : o[1] = t
    BY DEF Outputs
<1>12. ASSUME NEW o \in P \cup In[t], o \in Coins(base, b)[i] PROVE FALSE
  <2>1. o \notin Coins(base, b)[i - 1] \ In[t]
      BY <1>3, <1>12
  <2>2. o[1] = t
      BY <1>8, <1>11, <1>12, <2>1
  <2>3. o \in base \/ o[1] \in M
      BY <1>3, <1>9
  <2> QED
      BY <1>2, <1>5, <2>2, <2>3
<1>13. IsFiniteSet(P \cup In[t]) /\ IsFiniteSet(M \cup {t})
    BY <1>1, <1>3, FS_Union, FS_AddElement
<1>14. /\ ValueOf(P) \in Nat /\ V \in Nat /\ ValueOf(P \cup In[t]) = ValueOf(P) + V
    BY <1>1, <1>3, <1>10, ValueOfAdds DEF V
<1>15. OutTotal(M) \in Nat /\ OutTotal(M \cup {t}) = OutTotal(M) + O
    BY <1>1, <1>3, <1>5, OutTotalAdds DEF O
<1> DEFINE Kept == /\ IsFiniteSet(Paid(b, i)) /\ Paid(b, i) \subseteq Outpoint
                   /\ Paid(b, i) \cap Coins(base, b)[i] = {}
                   /\ \A o \in Paid(b, i) : o \in base \/ o[1] \in Made(b, i)
                   /\ IsFiniteSet(Made(b, i)) /\ Made(b, i) \subseteq Tx
<1>16. Kept
  <2>1. Paid(b, i) \subseteq Outpoint /\ Made(b, i) \subseteq Tx
      BY <1>1, <1>3, <1>4, <1>10
  <2>2. Paid(b, i) \cap Coins(base, b)[i] = {}
      BY <1>4, <1>12
  <2>3. \A o \in Paid(b, i) : o \in base \/ o[1] \in Made(b, i)
      BY <1>3, <1>4, <1>9
  <2> QED
      BY <1>4, <1>13, <2>1, <2>2, <2>3
<1>17. ASSUME NEW f \in Nat, f + OutTotal(Made(b, i)) = ValueOf(Paid(b, i)) + ValueOut(b[1])
       PROVE  Accounts(base, b, i, f)
    BY <1>16, <1>17 DEF Accounts
<1> HIDE DEF Kept
<1>18. CASE i = 1
  <2>1. FeesAfter(fees, t) = 0
      BY <1>3, <1>7, <1>18 DEF FeesAfter
  <2>2. ValueOf(P \cup In[t]) = 0 /\ OutTotal(M \cup {t}) = ValueOut(b[1])
    <3>1. P \cup In[t] = {}
        BY <1>6, <1>7, <1>18
    <3>2. OutTotal(M) = 0
        BY <1>6, <1>18, OutTotalNone
    <3>3. ValueOf(P \cup In[t]) = 0
        BY <3>1, ValueOfNone
    <3>4. OutTotal(M \cup {t}) = O /\ O = ValueOut(b[1])
        BY <3>2, <1>1, <1>7, <1>15, <1>18 DEF O
    <3> QED
        BY <3>3, <3>4
  <2>3. ValueOut(b[1]) \in Nat
      BY <1>1, <1>7, <1>18 DEF O
  <2>4. Accounts(base, b, i, FeesAfter(fees, t))
      BY <1>4, <1>17, <2>1, <2>2, <2>3
  <2> QED
      BY <2>4 DEF base, t
<1>19. CASE i # 1
  <2> DEFINE f == FeesAfter(fees, t)
  <2>1. f = fees + (V - O) /\ V >= O /\ i > 1 /\ i - 1 > 0
      BY <1>2, <1>7, <1>19 DEF FeesAfter, V, O
  <2>2. fees + OutTotal(M) = ValueOf(P) + ValueOut(b[1])
      BY <1>3, <2>1
  <2>3. ValueOut(b[1]) \in Nat
    <3>1. b[1] \in Tx
        OBVIOUS
    <3> QED
        BY <3>1, ValueOutType
  <2>4. f \in Nat /\ f + (OutTotal(M) + O) = (ValueOf(P) + V) + ValueOut(b[1])
    <3> DEFINE om == OutTotal(M)
               vp == ValueOf(P)
               o1 == ValueOut(b[1])
    <3> HIDE DEF f, om, vp, o1
    <3>1. om \in Nat /\ vp \in Nat /\ o1 \in Nat /\ V \in Nat /\ O \in Nat /\ fees \in Nat
        BY <1>1, <1>3, <1>14, <1>15, <2>3 DEF om, vp, o1
    <3>2. fees + om = vp + o1
        BY <2>2 DEF om, vp, o1
    <3>3. f \in Nat /\ f + (om + O) = (vp + V) + o1
        BY <2>1, <3>1, <3>2
    <3> QED
        BY <3>3 DEF om, vp, o1
  <2> HIDE DEF f
  <2>5. Accounts(base, b, i, f)
      BY <1>4, <1>14, <1>15, <1>17, <2>4
  <2> QED
      BY <2>5 DEF base, t, f
<1> QED
    BY <1>18, <1>19

LEMMA RoundIs ==
    ASSUME NEW index, NEW r, "ok" \in DOMAIN r, NEW t, NEW h
    PROVE  LET s == ConnectTx(index, r, t, h) IN
           /\ "ok" \in DOMAIN s
           /\ s.ok <=> r.ok /\ Tested(index, r.queue, t, h)
           /\ s.ok => s.queue = Queued(index, r.queue, t, h) /\ s.fees = FeesAfter(r.fees, t)
<1> DEFINE s == ConnectTx(index, r, t, h)
           c == r.ok /\ Tested(index, r.queue, t, h)
           f == FeesAfter(r.fees, t)
           q == Queued(index, r.queue, t, h)
<1>1. s = IF c THEN [ok |-> TRUE, queue |-> q, fees |-> f] ELSE [r EXCEPT !.ok = FALSE]
    BY Zenon DEF ConnectTx, Tested, FeesAfter
<1> HIDE DEF c, s, f, q
<1>2. CASE c
  <2>1. s = [ok |-> TRUE, queue |-> q, fees |-> f]
      BY <1>1, <1>2
  <2>2. "ok" \in DOMAIN s /\ s.ok = TRUE /\ s.queue = q /\ s.fees = f
      BY <2>1
  <2> QED
      BY <1>2, <2>2 DEF s, c, q, f
<1>3. CASE ~c
  <2>1. s = [r EXCEPT !.ok = FALSE]
      BY <1>1, <1>3
  <2>2. "ok" \in DOMAIN s /\ s.ok = FALSE
      BY <2>1
  <2> QED
      BY <1>3, <2>2 DEF s, c
<1> QED
    BY <1>2, <1>3

LEMMA ScanAccepts ==
    ASSUME NEW index, IsIndex(index), NEW b \in Seq(Tx), CheckBlock(b), NEW h \in Height
    PROVE  /\ Scan(index, b, h).ok <=> \A i \in 1..Len(b) : Allowed(index, b, h, i)
           /\ Scan(index, b, h).ok =>
                 Accounts(Unspents(index), b, Len(b), Scan(index, b, h).fees)
<1>1. PICK r : ScanBy(r, index, b, h)
    BY ScanRounds
<1>2. /\ Scan(index, b, h) = r[Len(b)]
      /\ r[0] = [ok |-> TRUE, queue |-> NoRecords, fees |-> 0]
      /\ \A i \in 1..Len(b) : r[i] = ConnectTx(index, r[i - 1], b[i], h)
    BY <1>1 DEF ScanBy
<1>3. r[0].ok = TRUE /\ r[0].queue = NoRecords /\ r[0].fees = 0 /\ "ok" \in DOMAIN r[0]
    BY <1>2
<1> DEFINE Good(n) == /\ "ok" \in DOMAIN r[n]
                      /\ r[n].ok <=> \A i \in 1..n : Allowed(index, b, h, i)
                      /\ r[n].ok => /\ Keeps(index, r[n].queue, b, h, n)
                                    /\ Accounts(Unspents(index), b, n, r[n].fees)
           S == {n \in Nat : n <= Len(b) => Good(n)}
<1>4. Keeps(index, NoRecords, b, h, 0)
  <2>1. IsIndex(NoRecords)
      BY RecordIs DEF IsIndex, NoRecords
  <2>2. \A p \in Tx : View(index, NoRecords)[p] = index[p]
    <3>1. \A p \in Tx : Fetched(index, NoRecords, p) = index[p]
        BY DEF Fetched, NoRecords
    <3> QED
        BY <2>1, <3>1, ViewIs
  <2>3. Unspents(View(index, NoRecords)) = Unspents(index)
      BY <2>2 DEF Unspents, Outpoint
  <2>4. Coins(Unspents(index), b)[0] = Unspents(index)
      BY CoinsRounds
  <2>5. \A p \in Tx : ~\E j \in 1..0 : b[j] = p
      OBVIOUS
  <2> QED
      BY <2>1, <2>2, <2>3, <2>4, <2>5 DEF Keeps
<1>5. 0 \in S
  <2>1. \A i \in 1..0 : Allowed(index, b, h, i)
      OBVIOUS
  <2> QED
      BY <1>3, <1>4, <2>1, AccountsStart
<1>6. ASSUME NEW n \in S \cap Nat PROVE n + 1 \in S
  <2> SUFFICES ASSUME n + 1 <= Len(b) PROVE Good(n + 1)
      OBVIOUS
  <2>1. PICK m \in 1..Len(b) : m = n + 1 /\ m - 1 = n
      OBVIOUS
  <2>2. Good(m - 1)
      BY <2>1
  <2> DEFINE before == r[m - 1]
             after == r[m]
             t == b[m]
  <2>3. after = ConnectTx(index, before, t, h)
      BY <1>2
  <2>4. /\ "ok" \in DOMAIN before
        /\ before.ok <=> \A i \in 1..m - 1 : Allowed(index, b, h, i)
        /\ before.ok => /\ Keeps(index, before.queue, b, h, m - 1)
                        /\ Accounts(Unspents(index), b, m - 1, before.fees)
      BY <2>2
  <2> HIDE DEF before, after, t, Good, S
  <2>5. /\ "ok" \in DOMAIN after
        /\ after.ok <=> before.ok /\ Tested(index, before.queue, t, h)
        /\ after.ok => /\ after.queue = Queued(index, before.queue, t, h)
                       /\ after.fees = FeesAfter(before.fees, t)
      BY <2>3, <2>4, RoundIs
  <2>6. before.ok => (Tested(index, before.queue, t, h) <=> Allowed(index, b, h, m))
      BY <2>4, TestedIs DEF t
  <2>7. after.ok <=> \A i \in 1..m : Allowed(index, b, h, i)
    <3>1. \A i \in 1..m : i = m \/ i \in 1..m - 1
        OBVIOUS
    <3>2. m \in 1..m /\ \A i \in 1..m - 1 : i \in 1..m
        OBVIOUS
    <3> QED
        BY <2>4, <2>5, <2>6, <3>1, <3>2
  <2>8. ASSUME after.ok
        PROVE  /\ Keeps(index, after.queue, b, h, m)
               /\ Accounts(Unspents(index), b, m, after.fees)
    <3>1. before.ok /\ Tested(index, before.queue, b[m], h) /\ Allowed(index, b, h, m)
        BY <2>5, <2>6, <2>8 DEF t
    <3>2. Keeps(index, Queued(index, before.queue, b[m], h), b, h, m)
        BY <2>4, <3>1, KeepsStep
    <3>3. Accounts(Unspents(index), b, m, FeesAfter(before.fees, b[m]))
        BY <2>4, <3>1, AccountsStep
    <3> QED
        BY <2>5, <2>8, <3>2, <3>3 DEF t
  <2>9. Good(m)
      BY <2>5, <2>7, <2>8 DEF Good, after
  <2> QED
      BY <2>1, <2>9
<1> HIDE DEF S
<1>7. Nat \subseteq S
    BY <1>5, <1>6, NatInd
<1>8. Good(Len(b))
    BY <1>7 DEF S
<1> QED
    BY <1>2, <1>8

-----------------------------------------------------------------------------
(* A record names the last block that holds its transaction *)

PlacedIn(x, blocks) ==
    \A t \in Tx : x[t] # Absent =>
        /\ x[t].pos \in 1..Len(blocks) /\ t \in ToSet(blocks[x[t].pos])
        /\ \A g \in x[t].pos + 1..Len(blocks) : t \notin ToSet(blocks[g])

\* records are where they were, or in the new block
PlacedAt(y, x, b, i, h) ==
    \A p \in Tx : y[p] # Absent =>
        IF \E j \in 1..i : b[j] = p THEN y[p].pos = h ELSE x[p] # Absent /\ y[p].pos = x[p].pos

LEMMA StepsPlaced ==
    ASSUME NEW index, NEW b \in Seq(Tx), NEW h, NEW v, Steps(v, index, b, h)
    PROVE  PlacedAt(v[Len(b)], index, b, Len(b), h)
<1> DEFINE S == {n \in Nat : n <= Len(b) => PlacedAt(v[n], index, b, n, h)}
<1>1. 0 \in S
  <2>1. \A p \in Tx : v[0][p] = index[p]
      BY DEF Steps
  <2> QED
      BY <2>1 DEF PlacedAt
<1>2. ASSUME NEW n \in S \cap Nat PROVE n + 1 \in S
  <2> SUFFICES ASSUME n + 1 <= Len(b) PROVE PlacedAt(v[n + 1], index, b, n + 1, h)
      OBVIOUS
  <2>1. PICK m \in 1..Len(b) : m = n + 1 /\ m - 1 = n
      OBVIOUS
  <2>2. PlacedAt(v[m - 1], index, b, m - 1, h)
      BY <2>1
  <2> DEFINE x == v[m - 1]
             y == v[m]
             t == b[m]
  <2>3. Connected(x, y, t, h)
      BY DEF Steps
  <2> SUFFICES ASSUME NEW p \in Tx, y[p] # Absent
               PROVE  IF \E j \in 1..m : b[j] = p THEN y[p].pos = h
                      ELSE index[p] # Absent /\ y[p].pos = index[p].pos
      BY <2>1 DEF PlacedAt
  <2>4. x[p] # Absent => IF \E j \in 1..m - 1 : b[j] = p THEN x[p].pos = h
                         ELSE index[p] # Absent /\ x[p].pos = index[p].pos
      BY <2>2 DEF PlacedAt
  <2> HIDE DEF x, y, t, S
  <2>5. CASE p = t
    <3>1. y[p].pos = h
        BY <2>3, <2>5 DEF Connected
    <3>2. m \in 1..m /\ b[m] = p
        BY <2>5 DEF t
    <3> QED
        BY <3>1, <3>2
  <2>6. CASE p # t
    <3>1. Marked(y[p], x[p], p, t, <<h, t>>)
        BY <2>3, <2>6 DEF Connected
    <3>2. x[p] # Absent /\ y[p].pos = x[p].pos
        BY <3>1 DEF Marked
    <3>3. (\E j \in 1..m : b[j] = p) <=> \E j \in 1..m - 1 : b[j] = p
      <4>1. \A j \in 1..m : j = m \/ j \in 1..m - 1
          OBVIOUS
      <4>2. \A j \in 1..m - 1 : j \in 1..m
          OBVIOUS
      <4> QED
          BY <2>6, <4>1, <4>2 DEF t
    <3> QED
        BY <2>4, <3>2, <3>3
  <2> QED
      BY <2>5, <2>6
<1> HIDE DEF S
<1>3. Nat \subseteq S
    BY <1>1, <1>2, NatInd
<1> QED
    BY <1>3 DEF S

LEMMA UndoPlaced ==
    ASSUME NEW index, IsIndex(index), NEW b \in Seq(Tx), Undo(index, b).ok
    PROVE  LET x == Undo(index, b).index IN
           \A p \in Tx : x[p] # Absent =>
               p \notin ToSet(b) /\ index[p] # Absent /\ x[p].pos = index[p].pos
<1>1. PICK d : Backs(d, index, b) /\ d[Len(b)] = Undo(index, b).index
    BY UndoneBy
<1> DEFINE At(n) == Len(b) + 1 - n
           Kept(n, p) == /\ index[p] # Absent /\ d[n][p].pos = index[p].pos
                         /\ \A j \in 1..n : b[At(j)] # p
           Good(n) == IsIndex(d[n]) /\ \A p \in Tx : d[n][p] # Absent => Kept(n, p)
           S == {n \in Nat : n <= Len(b) => Good(n)}
<1>2. 0 \in S
  <2>1. d[0] = index
      BY <1>1 DEF Backs
  <2> QED
      BY <2>1
<1>3. ASSUME NEW n \in S \cap Nat PROVE n + 1 \in S
  <2> SUFFICES ASSUME n + 1 <= Len(b) PROVE Good(n + 1)
      OBVIOUS
  <2>1. PICK m \in 1..Len(b) : m = n + 1 /\ m - 1 = n
      OBVIOUS
  <2>2. Good(m - 1)
      BY <2>1
  <2> DEFINE t == b[At(m)]
             x == d[m - 1]
             y == d[m]
  <2>3. t \in Tx /\ y = Erased(x, t)
    <3>1. At(m) \in 1..Len(b)
        OBVIOUS
    <3> QED
        BY <1>1, <3>1 DEF Backs
  <2>4. IsIndex(x) /\ \A p \in Tx : x[p] # Absent => Kept(m - 1, p)
      BY <2>2
  <2> HIDE DEF t, Kept
  <2>5. Disconnected(x, y, t)
      BY <2>3, <2>4, DisconnectStep DEF Erased
  <2>6. ASSUME NEW p \in Tx, y[p] # Absent PROVE Kept(m, p)
    <3>1. p # t /\ Marked(y[p], x[p], p, t, Unspent)
        BY <2>5, <2>6 DEF Disconnected
    <3>2. x[p] # Absent /\ y[p].pos = x[p].pos
        BY <2>6, <3>1 DEF Marked
    <3>3. Kept(m - 1, p)
        BY <2>4, <3>2
    <3>4. \A j \in 1..m : j = m \/ j \in 1..m - 1
        OBVIOUS
    <3> QED
        BY <3>1, <3>2, <3>3, <3>4 DEF Kept, t
  <2>7. Good(m)
      BY <2>5, <2>6 DEF Disconnected
  <2> QED
      BY <2>1, <2>7
<1> HIDE DEF S
<1>4. Nat \subseteq S
    BY <1>2, <1>3, NatInd
<1>5. Good(Len(b))
    BY <1>4 DEF S
<1>6. ASSUME NEW p \in ToSet(b), \A j \in 1..Len(b) : b[At(j)] # p PROVE FALSE
  <2>1. PICK k \in 1..Len(b) : b[k] = p
      BY DEF ToSet
  <2>2. PICK j \in 1..Len(b) : At(j) = k
    <3>1. Len(b) + 1 - k \in 1..Len(b) /\ Len(b) + 1 - (Len(b) + 1 - k) = k
        OBVIOUS
    <3> QED
        BY <3>1
  <2> QED
      BY <1>6, <2>1, <2>2
<1> QED
    BY <1>1, <1>5, <1>6

LEMMA PlacedInit == Init => PlacedIn(txindex, chain)
    BY DEF Init, NoRecords, PlacedIn

LEMMA ConnectPlaced ==
    ASSUME Inv, PlacedIn(txindex, chain), NEW b \in Candidates, ConnectBlock(b)
    PROVE  PlacedIn(txindex', chain')
<1> DEFINE l == Len(chain)
           h == l + 1
<1>1. TypeOK
    BY DEF Inv, Described
<1>2. /\ Len(chain) < MaxHeight /\ Connects(txindex, b, h)
      /\ txindex' = Updated(txindex, b, h) /\ chain' = Append(chain, b)
    BY DEF ConnectBlock
<1>3. b \in Seq(Tx) /\ h \in Height
    BY <1>1, <1>2, TypeFacts, LedgerAssumption DEF Height
<1>4. chain \in Seq(Candidates) /\ l \in Nat /\ IsIndex(txindex)
    BY <1>1, TypeFacts
<1>5. PICK v : Steps(v, txindex, b, h) /\ v[Len(b)] = txindex'
    BY <1>2, <1>3, <1>4, ConnectsIs
<1>6. PlacedAt(txindex', txindex, b, Len(b), h)
    BY <1>3, <1>5, StepsPlaced
<1>7. Len(chain') = h /\ chain'[h] = b /\ \A g \in 1..l : chain'[g] = chain[g]
    BY <1>2, <1>4, AppendIs
<1> SUFFICES ASSUME NEW t \in Tx, txindex'[t] # Absent
             PROVE  /\ txindex'[t].pos \in 1..h /\ t \in ToSet(chain'[txindex'[t].pos])
                    /\ \A g \in txindex'[t].pos + 1..h : t \notin ToSet(chain'[g])
    BY <1>7 DEF PlacedIn
<1>8. t \in ToSet(b) <=> \E j \in 1..Len(b) : b[j] = t
    BY DEF ToSet
<1> HIDE DEF l
<1>9. CASE t \in ToSet(b)
  <2>1. txindex'[t].pos = h
      BY <1>6, <1>8, <1>9 DEF PlacedAt
  <2>2. h \in 1..h /\ h + 1..h = {}
      BY <1>4
  <2> QED
      BY <1>7, <1>9, <2>1, <2>2
<1>10. CASE t \notin ToSet(b)
  <2> DEFINE pos == txindex[t].pos
  <2>1. txindex[t] # Absent /\ txindex'[t].pos = pos
      BY <1>6, <1>8, <1>10 DEF PlacedAt
  <2>2. /\ pos \in 1..l /\ t \in ToSet(chain[pos])
        /\ \A g \in pos + 1..l : t \notin ToSet(chain[g])
      BY <2>1 DEF PlacedIn, l
  <2> HIDE DEF pos
  <2>3. \A g \in pos + 1..h : g = h \/ (g \in pos + 1..l /\ g \in 1..l)
      BY <1>4, <2>2
  <2> QED
      BY <1>4, <1>7, <1>10, <2>1, <2>2, <2>3
<1> QED
    BY <1>9, <1>10

LEMMA DisconnectPlaced ==
    ASSUME Inv, PlacedIn(txindex, chain), DisconnectBlock
    PROVE  PlacedIn(txindex', chain')
<1> DEFINE b == Last(chain)
           l == Len(chain)
<1>1. TypeOK
    BY DEF Inv, Described
<1>2. /\ chain # <<>> /\ Undo(txindex, b).ok /\ txindex' = Undo(txindex, b).index
      /\ chain' = Front(chain)
    BY DEF DisconnectBlock
<1>3. /\ chain \in Seq(Candidates) /\ l \in Nat /\ IsIndex(txindex)
      /\ \A g \in 1..l : chain[g] \in Seq(Tx)
    BY <1>1, TypeFacts
<1>4. /\ Len(chain') = l - 1 /\ b = chain[l] /\ l \in 1..l
      /\ \A g \in 1..l - 1 : chain'[g] = chain[g]
    BY <1>2, <1>3, FrontIs
<1>5. b \in Seq(Tx)
    BY <1>3, <1>4
<1> HIDE DEF b
<1> SUFFICES ASSUME NEW t \in Tx, txindex'[t] # Absent
             PROVE  /\ txindex'[t].pos \in 1..l - 1 /\ t \in ToSet(chain'[txindex'[t].pos])
                    /\ \A g \in txindex'[t].pos + 1..l - 1 : t \notin ToSet(chain'[g])
    BY <1>4 DEF PlacedIn
<1> DEFINE pos == txindex[t].pos
<1>6. t \notin ToSet(b) /\ txindex[t] # Absent /\ txindex'[t].pos = pos
    BY <1>2, <1>3, <1>5, UndoPlaced
<1>7. /\ pos \in 1..l /\ t \in ToSet(chain[pos])
      /\ \A g \in pos + 1..l : t \notin ToSet(chain[g])
    BY <1>6 DEF PlacedIn
<1> HIDE DEF pos, l
<1>8. pos # l
    BY <1>4, <1>6, <1>7
<1>9. pos \in 1..l - 1 /\ \A g \in pos + 1..l - 1 : g \in pos + 1..l /\ g \in 1..l - 1
    BY <1>3, <1>7, <1>8
<1> QED
    BY <1>4, <1>6, <1>7, <1>9

LEMMA PlacedHolds == Spec => []PlacedIn(txindex, chain)
<1>1. ASSUME Inv, PlacedIn(txindex, chain), [Next]_vars PROVE PlacedIn(txindex, chain)'
  <2>1. CASE DisconnectBlock
      BY <1>1, <2>1, DisconnectPlaced
  <2>2. ASSUME NEW b \in Candidates, ConnectBlock(b) PROVE PlacedIn(txindex, chain)'
      BY <1>1, <2>2, ConnectPlaced
  <2>3. CASE UNCHANGED vars
      BY <1>1, <2>3 DEF vars, PlacedIn
  <2> QED
      BY <1>1, <2>1, <2>2, <2>3 DEF Next
<1> QED
    BY InvHolds, PlacedInit, <1>1, PTL DEF Spec

LEMMA HeightIs ==
    ASSUME TypeOK, PlacedIn(txindex, chain), NEW t \in Tx, txindex[t] # Absent
    PROVE  HeightOf(t) = txindex[t].pos
<1> DEFINE P(h) == t \in ToSet(chain[h]) /\ \A i \in h+1..Len(chain) : t \notin ToSet(chain[i])
           pos == txindex[t].pos
<1>1. pos \in DOMAIN chain /\ P(pos) /\ DOMAIN chain = 1..Len(chain) /\ Len(chain) \in Nat
    BY TypeFacts DEF PlacedIn
<1> HIDE DEF pos
<1>2. ASSUME NEW h \in DOMAIN chain, P(h) PROVE h = pos
  <2>1. ~(h < pos)
      BY <1>1, <1>2
  <2>2. ~(pos < h)
      BY <1>1, <1>2
  <2> QED
      BY <1>1, <2>1, <2>2
<1>3. HeightOf(t) = CHOOSE h \in DOMAIN chain : P(h)
    BY DEF HeightOf
<1> HIDE DEF P
<1>4. HeightOf(t) = pos
    BY <1>1, <1>2, <1>3
<1> QED
    BY <1>4 DEF pos

\* the part of ValidBlock about the i-th transaction
Valid(b, i) ==
    /\ In[b[i]] \subseteq Coins(TipCoins, b)[i - 1]
    /\ \A o \in TipCoins : o[1] # b[i]
    /\ \A o \in In[b[i]] :
          o[1] \in Coinbase =>
              o[1] \notin ToSet(b) /\ Len(chain) + 1 - HeightOf(o[1]) >= Maturity
    /\ i > 1 => ValueOf(In[b[i]]) >= ValueOut(b[i])

LEMMA ValidIs ==
    ASSUME TypeOK, CoinsInIndex = TipCoins, PlacedIn(txindex, chain),
           NEW b \in Seq(Tx), NEW i \in 1..Len(b)
    PROVE  Valid(b, i) <=> Allowed(txindex, b, Len(chain) + 1, i)
<1> DEFINE h == Len(chain) + 1
           base == Unspents(txindex)
           Old(o) == o[1] \notin ToSet(b) /\ Len(chain) + 1 - HeightOf(o[1]) >= Maturity
           Deep(o) == o[1] \notin ToSet(b) /\ h - txindex[o[1]].pos >= Maturity
           Enough == i > 1 => ValueOf(In[b[i]]) >= ValueOut(b[i])
<1>1. base = TipCoins /\ base \subseteq Outpoint
    BY TypeFacts, UnspentIs
<1>2. ASSUME NEW o \in Coins(base, b)[i - 1] PROVE Old(o) <=> Deep(o)
  <2> SUFFICES ASSUME o[1] \notin ToSet(b)
               PROVE  Len(chain) + 1 - HeightOf(o[1]) = h - txindex[o[1]].pos
      OBVIOUS
  <2>1. i - 1 \in 0..Len(b) /\ \A j \in 1..i - 1 : j \in 1..Len(b)
      OBVIOUS
  <2>2. o[1] \notin Made(b, i - 1)
      BY <2>1 DEF Made, ToSet
  <2> HIDE DEF base
  <2>3. o \in base /\ o \in Outpoint
      BY <1>1, <2>1, <2>2, CoinsFrom
  <2>4. txindex[o[1]] # Absent /\ o[1] \in Tx
      BY <2>3 DEF base, Unspents, Outpoint
  <2> DEFINE pos == txindex[o[1]].pos
  <2>5. HeightOf(o[1]) = pos
      BY <2>4, HeightIs
  <2>6. Len(chain) \in Nat /\ pos \in Int
      BY <2>4, TypeFacts DEF PlacedIn
  <2> HIDE DEF pos
  <2>7. Len(chain) + 1 - pos = h - pos
      BY <2>6
  <2> QED
      BY <2>5, <2>7 DEF pos
<1>3. Valid(b, i) <=>
        /\ In[b[i]] \subseteq Coins(TipCoins, b)[i - 1]
        /\ \A o \in TipCoins : o[1] # b[i]
        /\ \A o \in In[b[i]] : o[1] \in Coinbase => Old(o)
        /\ Enough
    BY DEF Valid
<1>4. Allowed(txindex, b, h, i) <=>
        /\ In[b[i]] \subseteq Coins(base, b)[i - 1]
        /\ \A o \in base : o[1] # b[i]
        /\ \A o \in In[b[i]] : o[1] \in Coinbase => Deep(o)
        /\ Enough
    BY DEF Allowed
<1> HIDE DEF Old, Deep, Enough, base
<1>5. Valid(b, i) <=> Allowed(txindex, b, h, i)
    BY <1>1, <1>2, <1>3, <1>4
<1> QED
    BY <1>5

\* ConnectBlock tests what a block spends with the spent marks of the index, of the
\* records that it has queued for the same block and with the position of a record;
\* it accepts a block exactly when the coins of the chain allow it.
THEOREM AcceptsHolds == Spec => []AcceptsValidBlocks
<1>1. ASSUME Inv, PlacedIn(txindex, chain) PROVE AcceptsValidBlocks
  <2> DEFINE h == Len(chain) + 1
  <2> SUFFICES ASSUME Len(chain) < MaxHeight, NEW b \in Candidates
               PROVE  Connects(txindex, b, h) <=> ValidBlock(b)
      BY DEF AcceptsValidBlocks
  <2>1. TypeOK /\ CoinsInIndex = TipCoins
      BY <1>1 DEF Inv, Described
  <2>2. IsIndex(txindex) /\ b \in Seq(Tx) /\ h \in Height
      BY <2>1, TypeFacts, LedgerAssumption DEF Height
  <2> DEFINE s == Scan(txindex, b, h)
             made == OutTotal(ToSet(b))
             paid == ValueOf(UNION {In[t] : t \in ToSet(b)})
  <2>3. DOMAIN b = 1..Len(b)
      BY <2>2
  <2>4. Connects(txindex, b, h) <=> CheckBlock(b) /\ s.ok /\ Claims(b, s.fees)
      BY DEF Connects
  <2>5. ValidBlock(b) <=>
          CheckBlock(b) /\ (\A i \in 1..Len(b) : Valid(b, i)) /\ made <= Subsidy + paid
      BY <2>3 DEF ValidBlock, Valid, OutTotal
  <2> SUFFICES ASSUME CheckBlock(b)
               PROVE  s.ok /\ Claims(b, s.fees)
                      <=> (\A i \in 1..Len(b) : Valid(b, i)) /\ made <= Subsidy + paid
      BY <2>4, <2>5
  <2>6. s.ok <=> \A i \in 1..Len(b) : Valid(b, i)
    <3>1. s.ok <=> \A i \in 1..Len(b) : Allowed(txindex, b, h, i)
        BY <2>2, ScanAccepts
    <3>2. \A i \in 1..Len(b) : Valid(b, i) <=> Allowed(txindex, b, h, i)
        BY <1>1, <2>1, <2>2, ValidIs
    <3> HIDE DEF s, h
    <3> QED
        BY <3>1, <3>2
  <2>7. ASSUME s.ok PROVE Claims(b, s.fees) <=> made <= Subsidy + paid
    <3> DEFINE f == s.fees
               first == ValueOut(b[1])
    <3>1. Accounts(Unspents(txindex), b, Len(b), f)
        BY <2>2, <2>7, ScanAccepts
    <3> HIDE DEF f, s
    <3>2. Len(b) > 0 /\ Made(b, Len(b)) = ToSet(b) /\ Paid(b, Len(b)) = UNION {In[t] : t \in ToSet(b)}
        BY <2>2, RoundsAdd DEF CheckBlock
    <3>3. f \in Nat /\ f + made = paid + first
        BY <3>1, <3>2 DEF Accounts
    <3>4. first \in Nat /\ Subsidy \in Nat
      <4>1. b[1] \in Tx
          BY <2>2, <3>2
      <4> QED
          BY <4>1, ValueOutType, TxAssumption
    <3>5. made \in Nat /\ paid \in Nat
        BY <3>1, <3>2, TotalsInNat DEF Accounts
    <3>6. Claims(b, s.fees) <=> first <= Subsidy + f
        BY DEF Claims, f
    <3> HIDE DEF made, paid, first
    <3> QED
        BY <3>3, <3>4, <3>5, <3>6
  <2> HIDE DEF s, made, paid
  <2> QED
      BY <2>6, <2>7
<1> QED
    BY InvHolds, PlacedHolds, <1>1, PTL
=============================================================================
