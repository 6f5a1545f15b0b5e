------------------------------ MODULE PeersProofs -----------------------------
(***************************************************************************)
(* No node is deleted under a thread that uses it, for any handlers,       *)
(* openers, addresses, limits and number of nodes, as long as no AddRef    *)
(* outside the lock is torn; and outbound nodes never outnumber permits,   *)
(* as long as no two threads are inside one grant at a time.               *)
(***************************************************************************)
EXTENDS Peers, FiniteSetTheorems, TLAPS

Holders(n) == {h \in Handler : n \in held[h]}

\* nodes that still have the reference they were made with
Listed(n) == IF n \in vNodes \/ n = closing.node THEN 1 ELSE 0

\* openers that found a node, and those that got one from ConnectNode
Looking(o) == At(o, "found") \/ At(o, "read")
Has(o) == At(o, "made") \/ At(o, "reused") \/ At(o, "posted") \/ At(o, "cleared") \/ At(o, "moved")

\* Where the nodes of openers and handlers come from, whatever the counts are: openers
\* share a node only after one of them took a reference on it.
PlaceInv ==
    /\ \A h \in Handler : h \notin serving => held[h] = {}
    /\ \A h \in Handler : held[h] \subseteq 1..made
    /\ \A o \in Opener : Pointed(o) \subseteq 1..made
    /\ \A n \in Node : kept[n] > 0 => n <= made
    /\ closing.node \notin vNodes /\ (~Unlocked => closing.node \in allocated)
    /\ \A o, q \in Opener :
          Has(o) /\ Has(q) /\ opener[o].node = opener[q].node /\ o # q => kept[opener[o].node] > 0
    /\ \A o \in Opener : At(o, "reused") => kept[opener[o].node] > 0
    /\ \A o \in Opener : Looking(o) \/ Has(o) => addr[opener[o].node] # Inbound
    /\ \A o \in Opener : At(o, "looked") => opener[o].addr # Inbound

\* The count covers the handlers that hold the node, the references that ConnectNode
\* took on it, and the one it was made with while it is listed.
CountInv ==
    \A n \in allocated : nRefCount[n] >= Cardinality(Holders(n)) + kept[n] + Listed(n)

\* The first reference of n outlives its connection: it is released only after
\* fNetworkNode was set.
Backed(n) ==
    /\ n \notin fNetworkNode
    /\ Listed(n) = 0 => nRefCount[n] >= Cardinality(Holders(n)) + 1

\* Why a node in use has a reference or is not old enough: an opener that made a node
\* relies on the first reference, which another opener gives up only with a reference
\* of its own.
UseInv ==
    /\ UsedIsAllocated
    /\ \A o \in Opener, n \in Node : n = opener[o].node =>
          /\ Has(o) => kept[n] > 0 \/ Backed(n)
          /\ Looking(o) => n \in vNodes \cup recent \/ n = closing.node

Inv == TypeOK /\ PlaceInv /\ (~torn => CountInv /\ UseInv)

\* while the lock is free, no node is being taken out
LEMMA NoneClosing ==
    ASSUME Unlocked, NEW n \in Node
    PROVE  n # closing.node /\ Listed(n) = (IF n \in vNodes THEN 1 ELSE 0)
BY PeersAssumption DEF Unlocked, Open, Node, Listed

\* an opener goes on with another node, address or count
LEMMA GoesOn ==
    ASSUME TypeOK, NEW o \in Opener, NEW r \in OpenerState, Goto(o, r)
    PROVE  /\ opener' \in [Opener -> OpenerState] /\ opener'[o] = r
           /\ \A q \in Opener \ {o} : opener'[q] = opener[q]
BY DEF TypeOK, Goto

LEMMA HoldersFinite ==
    ASSUME NEW n
    PROVE  IsFiniteSet(Holders(n)) /\ Cardinality(Holders(n)) \in Nat
<1>1. IsFiniteSet(Holders(n))
    BY PeersAssumption, FS_Subset DEF Holders
<1> QED
    BY <1>1, FS_CardinalityType

\* nobody holds what is in no copy
LEMMA NoHolders ==
    ASSUME NEW n, \A h \in Handler : n \notin held[h]
    PROVE  Cardinality(Holders(n)) = 0
<1>1. Holders(n) = {}
    BY DEF Holders
<1> QED
    BY <1>1, FS_EmptySet

\* who holds a node is one holder at least
LEMMA SomeHolder ==
    ASSUME NEW n, NEW h \in Handler, n \in held[h]
    PROVE  Cardinality(Holders(n)) >= 1
<1>1. Holders(n) # {}
    BY DEF Holders
<1> QED
    BY <1>1, HoldersFinite, FS_EmptySet

LEMMA InvInit == Init => Inv
<1> SUFFICES ASSUME Init PROVE Inv
    OBVIOUS
<1>1. TypeOK
  <2>1. 0 \in 0..MaxNodes /\ MaxOutbound \in Nat /\ closing \in [node : 0..MaxNodes, posted : BOOLEAN]
      BY PeersAssumption DEF Init, Open
  <2>2. opener \in [Opener -> OpenerState]
      BY <2>1 DEF Init, Idle, OpenerState
  <2>3. /\ nRefCount \in [Node -> Int] /\ kept \in [Node -> Nat]
        /\ addr \in [Node -> Addr \cup {Inbound}] /\ held \in [Handler -> SUBSET Node]
      BY DEF Init
  <2> QED
      BY <2>1, <2>2, <2>3 DEF Init, TypeOK, vNodesDisconnected
<1>2. \A o \in Opener : At(o, "idle") /\ Pointed(o) = {}
    BY DEF Init, Idle, At, Pointed
<1>3. \A o \in Opener : ~Has(o) /\ ~Looking(o) /\ ~At(o, "looked") /\ ~At(o, "reused")
    BY DEF Init, Idle, At, Has, Looking
<1>4. PlaceInv
    BY <1>2, <1>3 DEF Init, PlaceInv, Unlocked
<1>5. CountInv /\ UseInv
    BY <1>2, <1>3 DEF Init, CountInv, UseInv, UsedIsAllocated
<1> QED
    BY <1>1, <1>4, <1>5 DEF Inv

-----------------------------------------------------------------------------
(* The handlers                                                            *)

\* a copy adds one holder to each listed node
LEMMA CopyCounts ==
    ASSUME Inv, NEW h \in Handler, CopyNodes(h), NEW n \in Node
    PROVE  Cardinality(Holders(n))' = Cardinality(Holders(n)) + Listed(n)
<1>0. Listed(n) = IF n \in vNodes THEN 1 ELSE 0
    BY NoneClosing DEF CopyNodes
<1>1. held[h] = {} /\ \A g \in Handler : held'[g] = IF g = h THEN vNodes ELSE held[g]
    BY DEF Inv, PlaceInv, TypeOK, CopyNodes
<1>2. CASE n \in vNodes
  <2>1. Holders(n)' = Holders(n) \cup {h} /\ h \notin Holders(n)
      BY <1>1, <1>2 DEF Holders
  <2>2. Cardinality(Holders(n) \cup {h}) = Cardinality(Holders(n)) + 1
      BY <2>1, HoldersFinite, FS_AddElement
  <2> QED
      BY <2>1, <2>2, <1>0, <1>2
<1>3. CASE n \notin vNodes
  <2>1. Holders(n)' = Holders(n)
      BY <1>1, <1>3 DEF Holders
  <2> QED
      BY <2>1, <1>0, <1>3, HoldersFinite
<1> QED
    BY <1>2, <1>3

\* releasing the copy removes one holder from each node in it
LEMMA ReleaseCounts ==
    ASSUME Inv, NEW h \in Handler, ReleaseNodes(h), NEW n
    PROVE  Cardinality(Holders(n))' = Cardinality(Holders(n)) - (IF n \in held[h] THEN 1 ELSE 0)
<1>1. \A g \in Handler : held'[g] = IF g = h THEN {} ELSE held[g]
    BY DEF Inv, TypeOK, ReleaseNodes
<1>2. CASE n \in held[h]
  <2>1. Holders(n)' = Holders(n) \ {h} /\ h \in Holders(n)
      BY <1>1, <1>2 DEF Holders
  <2>2. Cardinality(Holders(n) \ {h}) = Cardinality(Holders(n)) - 1
      BY <2>1, HoldersFinite, FS_RemoveElement
  <2> QED
      BY <2>1, <2>2, <1>2
<1>3. CASE n \notin held[h]
  <2>1. Holders(n)' = Holders(n)
      BY <1>1, <1>3 DEF Holders
  <2> QED
      BY <2>1, <1>3, HoldersFinite
<1> QED
    BY <1>2, <1>3

LEMMA StepCopy ==
    ASSUME Inv, NEW h \in Handler, CopyNodes(h)
    PROVE  Inv'
<1>1. /\ UNCHANGED <<listVars, flagVars, opener, permitVars, historyVars>>
      /\ \A g \in Handler : held'[g] = IF g = h THEN vNodes ELSE held[g]
      /\ held' \in [Handler -> SUBSET Node] /\ serving' = serving \cup {h}
      /\ nRefCount' \in [Node -> Int]
      /\ \A n \in Node : nRefCount'[n] = nRefCount[n] + Listed(n)
  <2>1. vNodes \subseteq Node
      BY PeersAssumption DEF Inv, TypeOK, Node
  <2> QED
      BY <2>1, NoneClosing DEF Inv, TypeOK, CopyNodes
<1>2. TypeOK'
    BY <1>1 DEF Inv, TypeOK, vNodesDisconnected, listVars, flagVars, permitVars, historyVars
<1>3. vNodes \subseteq 1..made
    BY DEF Inv, TypeOK
<1>4. \A o \in Opener : Pointed(o)' = Pointed(o)
    BY <1>1 DEF Pointed, At
<1>5. PlaceInv'
  <2>0. /\ made' = made /\ addr' = addr /\ kept' = kept /\ opener' = opener
        /\ closing' = closing /\ vNodes' = vNodes /\ allocated' = allocated
      BY <1>1 DEF listVars, historyVars, permitVars
  <2>1. \A g \in Handler : (g \notin serving' => held'[g] = {}) /\ held'[g] \subseteq 1..made'
      BY <1>1, <1>3, <2>0 DEF Inv, PlaceInv
  <2>2. \A o \in Opener : Pointed(o)' \subseteq 1..made'
      BY <1>4, <2>0 DEF Inv, PlaceInv
  <2> QED
      BY <2>0, <2>1, <2>2 DEF Inv, PlaceInv, At, Has, Looking, Unlocked
<1>6. ASSUME ~torn' PROVE CountInv' /\ UseInv'
  <2>1. CountInv /\ UseInv
      BY <1>6, <1>1 DEF Inv, historyVars
  <2>2. \A n \in Node : Cardinality(Holders(n))' = Cardinality(Holders(n)) + Listed(n)
      BY CopyCounts
  <2>3. \A n : Cardinality(Holders(n)) \in Nat
      BY HoldersFinite
  <2>4. allocated \subseteq Node /\ allocated' = allocated
      BY <1>1, PeersAssumption DEF Inv, TypeOK, Node, listVars
  <2>5. \A n \in Node : Listed(n)' = Listed(n)
      BY <1>1 DEF Listed, listVars, permitVars
  <2>6. kept' = kept /\ kept \in [Node -> Nat] /\ nRefCount \in [Node -> Int]
      BY <1>1 DEF historyVars, Inv, TypeOK
  <2>7. CountInv'
      BY <1>1, <2>1, <2>2, <2>3, <2>4, <2>5, <2>6 DEF CountInv, Listed
  <2>8. UsedIsAllocated'
      BY <1>1, <1>4, <2>1, <2>4 DEF UseInv, UsedIsAllocated, Inv, TypeOK
  <2>9. \A n \in Node : Listed(n) = 0 =>
            nRefCount'[n] = nRefCount[n] /\ Cardinality(Holders(n))' = Cardinality(Holders(n))
      BY <1>1, <2>2, <2>3, <2>6
  <2> QED
      BY <1>1, <2>1, <2>5, <2>6, <2>7, <2>8, <2>9
      DEF UseInv, Backed, Has, Looking, At, listVars, flagVars, permitVars
<1> QED
    BY <1>2, <1>5, <1>6 DEF Inv

LEMMA StepRelease ==
    ASSUME Inv, NEW h \in Handler, ReleaseNodes(h)
    PROVE  Inv'
<1> DEFINE Mine(n) == IF n \in held[h] THEN 1 ELSE 0
<1>1. /\ UNCHANGED <<listVars, flagVars, opener, permitVars, historyVars>>
      /\ \A g \in Handler : held'[g] = IF g = h THEN {} ELSE held[g]
      /\ held' \in [Handler -> SUBSET Node] /\ serving' = serving \ {h}
      /\ nRefCount' \in [Node -> Int]
      /\ \A n \in Node : nRefCount'[n] = nRefCount[n] - Mine(n)
    BY DEF Inv, TypeOK, ReleaseNodes
<1>2. TypeOK'
    BY <1>1 DEF Inv, TypeOK, vNodesDisconnected, listVars, flagVars, permitVars, historyVars
<1>3. /\ made' = made /\ addr' = addr /\ kept' = kept /\ opener' = opener /\ torn' = torn
      /\ allocated' = allocated /\ vNodes' = vNodes /\ closing' = closing
    BY <1>1 DEF listVars, historyVars, permitVars
<1>4. \A o \in Opener : Pointed(o)' = Pointed(o)
    BY <1>3 DEF Pointed, At
<1>5. PlaceInv'
  <2>1. \A g \in Handler : (g \notin serving' => held'[g] = {}) /\ held'[g] \subseteq 1..made'
      BY <1>1, <1>3 DEF Inv, PlaceInv
  <2>2. \A o \in Opener : Pointed(o)' \subseteq 1..made'
      BY <1>3, <1>4 DEF Inv, PlaceInv
  <2> QED
      BY <1>3, <2>1, <2>2 DEF Inv, PlaceInv, At, Has, Looking, Unlocked
<1>6. ASSUME ~torn' PROVE CountInv' /\ UseInv'
  <2>1. CountInv /\ UseInv
      BY <1>6, <1>3 DEF Inv
  <2>2. \A n \in Node : Cardinality(Holders(n))' = Cardinality(Holders(n)) - Mine(n)
      BY ReleaseCounts
  <2>3. \A n : Cardinality(Holders(n)) \in Nat
      BY HoldersFinite
  <2>4. allocated \subseteq Node
      BY PeersAssumption DEF Inv, TypeOK, Node
  <2>5. \A n \in Node : Listed(n)' = Listed(n)
      BY <1>3 DEF Listed
  <2>6. kept \in [Node -> Nat] /\ nRefCount \in [Node -> Int]
      BY DEF Inv, TypeOK
  <2>7. CountInv'
      BY <1>1, <1>3, <2>1, <2>2, <2>3, <2>4, <2>5, <2>6 DEF CountInv, Listed
  <2>8. UsedIsAllocated'
      BY <1>1, <1>3, <1>4, <2>1 DEF UseInv, UsedIsAllocated
  <2>9. \A n \in Node : nRefCount[n] >= Cardinality(Holders(n)) + 1
                            => nRefCount'[n] >= Cardinality(Holders(n))' + 1
      BY <1>1, <2>2, <2>3, <2>6
  <2> QED
      BY <1>1, <1>3, <2>1, <2>5, <2>7, <2>8, <2>9 DEF UseInv, Backed, Has, Looking, At, flagVars
<1> QED
    BY <1>2, <1>5, <1>6 DEF Inv

\* setting fDisconnect, or time going by, moves no node and no reference
LEMMA StepFlags ==
    ASSUME Inv, TimePasses \/ \E h \in Handler, n \in Node : Drop(h, n)
    PROVE  Inv'
<1>1. /\ UNCHANGED <<listVars, fNetworkNode, nRefCount, copyVars, opener, permitVars, historyVars>>
      /\ recent' \subseteq recent /\ fDisconnect' \subseteq 1..made
      /\ \A o \in Opener : Looking(o) => recent' = recent
  <2>1. CASE TimePasses
      BY <2>1 DEF TimePasses, Inv, TypeOK, Looking
  <2>2. ASSUME NEW h \in Handler, NEW n \in Node, Drop(h, n)
        PROVE  /\ UNCHANGED <<listVars, fNetworkNode, nRefCount, copyVars, opener, permitVars, historyVars>>
               /\ recent' = recent /\ fDisconnect' \subseteq 1..made
    <3>1. held[h] \subseteq 1..made /\ fDisconnect \subseteq 1..made
        BY DEF Inv, TypeOK, PlaceInv
    <3> QED
        BY <2>2, <3>1 DEF Drop
  <2> QED
      BY <2>1, <2>2
<1>2. /\ made' = made /\ addr' = addr /\ kept' = kept /\ opener' = opener /\ torn' = torn
      /\ allocated' = allocated /\ vNodes' = vNodes /\ held' = held /\ serving' = serving
      /\ fNetworkNode' = fNetworkNode /\ nRefCount' = nRefCount /\ closing' = closing
    BY <1>1 DEF listVars, copyVars, historyVars, permitVars
<1>3. TypeOK'
    BY <1>1, <1>2 DEF Inv, TypeOK, vNodesDisconnected, permitVars, historyVars
<1>4. \A o \in Opener : Pointed(o)' = Pointed(o)
    BY <1>2 DEF Pointed, At
<1>5. PlaceInv'
    BY <1>2, <1>4 DEF Inv, PlaceInv, At, Has, Looking, Unlocked
<1>6. ASSUME ~torn' PROVE CountInv' /\ UseInv'
  <2>1. CountInv /\ UseInv
      BY <1>6, <1>2 DEF Inv
  <2>2. \A n : Holders(n)' = Holders(n) /\ Listed(n)' = Listed(n)
      BY <1>2 DEF Holders, Listed
  <2>3. CountInv'
      BY <1>2, <2>1, <2>2 DEF CountInv
  <2>4. UsedIsAllocated'
      BY <1>2, <1>4, <2>1 DEF UseInv, UsedIsAllocated
  <2> QED
      BY <1>1, <1>2, <2>1, <2>2, <2>3, <2>4 DEF UseInv, Backed, Has, Looking, At
<1> QED
    BY <1>3, <1>5, <1>6 DEF Inv

\* a node leaves the list, with its first reference still counted
LEMMA StepDisconnect ==
    ASSUME Inv, NEW n \in Node, Disconnect(n)
    PROVE  Inv'
<1>1. /\ made' = made /\ addr' = addr /\ kept' = kept /\ opener' = opener /\ torn' = torn
      /\ held' = held /\ serving' = serving /\ fNetworkNode' = fNetworkNode
      /\ recent' = recent /\ fDisconnect' = fDisconnect /\ nRefCount' = nRefCount
      /\ allocated' = allocated /\ grant' = grant /\ vNodes' = vNodes \ {n}
      /\ closing' = [node |-> n, posted |-> n \in grant] /\ n \in vNodes /\ Unlocked
    BY DEF Disconnect, flagVars, copyVars, Leaving
<1>2. closing'.node = n /\ closing' \in [node : 0..MaxNodes, posted : BOOLEAN]
    BY <1>1, PeersAssumption DEF Node
<1>3. semOutbound' \in Nat /\ clashed' \in BOOLEAN
    BY DEF Disconnect, Posted, Inv, TypeOK
<1>4. TypeOK'
    BY <1>1, <1>2, <1>3 DEF Inv, TypeOK, vNodesDisconnected
<1>5. \A o \in Opener : /\ Pointed(o)' = Pointed(o) /\ (Has(o)' <=> Has(o))
                        /\ (Looking(o)' <=> Looking(o))
    BY <1>1 DEF Pointed, At, Has, Looking
<1>6. n \in allocated
    BY <1>1 DEF Inv, TypeOK
<1>7. PlaceInv'
    BY <1>1, <1>2, <1>5, <1>6 DEF Inv, PlaceInv, At
<1>8. ASSUME ~torn' PROVE CountInv' /\ UseInv'
  <2>1. CountInv /\ UseInv
      BY <1>8, <1>1 DEF Inv
  <2>2. \A m \in Node : Holders(m)' = Holders(m) /\ Listed(m)' = Listed(m)
    <3> SUFFICES ASSUME NEW m \in Node PROVE Holders(m)' = Holders(m) /\ Listed(m)' = Listed(m)
        OBVIOUS
    <3>1. Listed(m) = IF m \in vNodes THEN 1 ELSE 0
        BY <1>1, NoneClosing
    <3> QED
        BY <1>1, <1>2, <3>1 DEF Holders, Listed
  <2>3. allocated \subseteq Node
      BY PeersAssumption DEF Inv, TypeOK, Node
  <2>4. CountInv'
      BY <1>1, <2>1, <2>2, <2>3 DEF CountInv
  <2>5. UsedIsAllocated'
      BY <1>1, <1>5, <2>1 DEF UseInv, UsedIsAllocated
  <2>6. \A m \in Node : m # closing.node
      BY <1>1, NoneClosing
  <2> QED
      BY <1>1, <1>2, <1>5, <2>1, <2>2, <2>4, <2>5, <2>6 DEF UseInv, Backed
<1> QED
    BY <1>4, <1>7, <1>8 DEF Inv

\* ... and gives it up unless it belongs to an opener
LEMMA StepFinishDisconnect ==
    ASSUME Inv, FinishDisconnect
    PROVE  Inv'
<1>0. PICK m : m = closing.node
    OBVIOUS
<1>1. /\ made' = made /\ addr' = addr /\ kept' = kept /\ opener' = opener /\ torn' = torn
      /\ held' = held /\ serving' = serving /\ fNetworkNode' = fNetworkNode
      /\ allocated' = allocated /\ vNodes' = vNodes /\ semOutbound' = semOutbound
      /\ clashed' = clashed /\ closing' = Open /\ grant' \subseteq grant
      /\ recent' = recent \cup {m} /\ fDisconnect' = fDisconnect \cup {m} /\ ~Unlocked
    BY <1>0 DEF FinishDisconnect, PutAway, listVars, copyVars, historyVars
<1>2. m \in allocated /\ m \notin vNodes /\ m \in 1..made /\ m \in Node /\ allocated \subseteq Node
    BY <1>0, <1>1, PeersAssumption DEF Inv, TypeOK, PlaceInv, Node
<1>3. /\ nRefCount' \in [Node -> Int]
      /\ \A n \in Node \ {m} : nRefCount'[n] = nRefCount[n]
      /\ nRefCount'[m] >= nRefCount[m] - 1
      /\ m \notin fNetworkNode /\ addr[m] # Inbound => nRefCount'[m] = nRefCount[m]
    BY <1>0, <1>2 DEF FinishDisconnect, PutAway, fInbound, Inv, TypeOK
<1>4. closing'.node = 0 /\ closing' \in [node : 0..MaxNodes, posted : BOOLEAN] /\ 0 \notin Node
    BY <1>1, PeersAssumption DEF Open, Node
<1>5. TypeOK'
    BY <1>1, <1>2, <1>3, <1>4 DEF Inv, TypeOK, vNodesDisconnected
<1>6. \A o \in Opener : /\ Pointed(o)' = Pointed(o) /\ (Has(o)' <=> Has(o))
                        /\ (Looking(o)' <=> Looking(o))
    BY <1>1 DEF Pointed, At, Has, Looking
<1>7. 0 \notin vNodes
    BY PeersAssumption DEF Inv, TypeOK
<1>8. PlaceInv'
    BY <1>1, <1>4, <1>6, <1>7 DEF Inv, PlaceInv, At, Unlocked
<1>9. ASSUME ~torn' PROVE CountInv' /\ UseInv'
  <2>1. CountInv /\ UseInv
      BY <1>9, <1>1 DEF Inv
  <2>2. \A n : Holders(n)' = Holders(n) /\ Cardinality(Holders(n)) \in Nat
      BY <1>1, HoldersFinite DEF Holders
  <2>3. kept \in [Node -> Nat] /\ nRefCount \in [Node -> Int]
      BY DEF Inv, TypeOK
  <2>4. /\ Listed(m) = 1 /\ Listed(m)' = 0
        /\ \A n \in Node \ {m} : Listed(n)' = Listed(n)
      BY <1>0, <1>1, <1>2, <1>4 DEF Listed
  <2>5. CountInv'
    <3> SUFFICES ASSUME NEW n \in allocated
                 PROVE  nRefCount'[n] >= Cardinality(Holders(n)) + kept[n] + Listed(n)'
        BY <1>1, <2>2 DEF CountInv
    <3>1. nRefCount[n] >= Cardinality(Holders(n)) + kept[n] + Listed(n) /\ n \in Node
        BY <1>2, <2>1 DEF CountInv
    <3> QED
        BY <1>3, <2>2, <2>3, <2>4, <3>1
  <2>6. UsedIsAllocated'
      BY <1>1, <1>6, <2>1 DEF UseInv, UsedIsAllocated
  <2>7. ASSUME NEW o \in Opener, NEW n \in Node, n = opener[o].node, Has(o), kept[n] = 0
        PROVE  Backed(n)'
    <3>1. Backed(n)
        BY <2>1, <2>3, <2>7 DEF UseInv
    <3>2. CASE n = m
      <4>1. nRefCount'[m] = nRefCount[m] /\ m \notin fNetworkNode
          BY <1>3, <2>7, <3>1, <3>2 DEF Inv, PlaceInv, Backed
      <4>2. nRefCount[m] >= Cardinality(Holders(m)) + kept[m] + 1
          BY <1>2, <2>1, <2>4 DEF CountInv
      <4> QED
          BY <1>1, <2>2, <2>3, <2>7, <3>2, <4>1, <4>2, <1>2 DEF Backed
    <3>3. CASE n # m
        BY <1>1, <1>3, <2>2, <2>4, <3>1, <3>3 DEF Backed
    <3> QED
        BY <3>2, <3>3
  <2>8. \A o \in Opener, n \in Node : n = opener[o].node =>
            /\ Has(o) => kept[n] > 0 \/ Backed(n)'
            /\ Looking(o) => n \in vNodes \cup recent'
      BY <1>0, <1>1, <2>1, <2>3, <2>7 DEF UseInv
  <2> QED
      BY <1>1, <1>6, <2>5, <2>6, <2>8 DEF UseInv
<1> QED
    BY <1>5, <1>8, <1>9 DEF Inv

\* What is deleted has no holder, no reference of an opener and is old.
LEMMA StepDelete ==
    ASSUME Inv, NEW d \in Node, Delete(d)
    PROVE  Inv'
<1>1. /\ made' = made /\ addr' = addr /\ kept' = kept /\ opener' = opener /\ torn' = torn
      /\ held' = held /\ serving' = serving /\ fNetworkNode' = fNetworkNode
      /\ recent' = recent /\ fDisconnect' = fDisconnect /\ nRefCount' = nRefCount
      /\ closing' = closing /\ vNodes' = vNodes /\ grant' = grant \ {d}
      /\ allocated' = allocated \ {d} /\ Unlocked
    BY DEF Delete, flagVars, copyVars
<1>2. d \in allocated /\ d \notin vNodes /\ nRefCount[d] <= 0 /\ d \notin recent
    BY DEF Delete, Deletable, vNodesDisconnected, Unreferenced
<1>3. semOutbound' \in Nat /\ clashed' \in BOOLEAN
    BY DEF Delete, Posted, Inv, TypeOK
<1>4. TypeOK'
    BY <1>1, <1>2, <1>3 DEF Inv, TypeOK, vNodesDisconnected
<1>5. \A o \in Opener : /\ Pointed(o)' = Pointed(o) /\ (Has(o)' <=> Has(o))
                        /\ (Looking(o)' <=> Looking(o))
    BY <1>1 DEF Pointed, At, Has, Looking
<1>6. PlaceInv'
    BY <1>1, <1>5 DEF Inv, PlaceInv, At, Unlocked
<1>7. ASSUME ~torn' PROVE CountInv' /\ UseInv'
  <2>1. CountInv /\ UseInv
      BY <1>7, <1>1 DEF Inv
  <2>2. \A n : /\ Holders(n)' = Holders(n) /\ Cardinality(Holders(n)) \in Nat
               /\ Listed(n)' = Listed(n)
      BY <1>1, HoldersFinite DEF Holders, Listed
  <2>3. kept \in [Node -> Nat] /\ nRefCount \in [Node -> Int]
      BY DEF Inv, TypeOK
  <2>4. CountInv'
      BY <1>1, <2>1, <2>2 DEF CountInv
  <2>5. kept[d] = 0 /\ Cardinality(Holders(d)) = 0 /\ Listed(d) = 0 /\ d # closing.node
    <3>1. Listed(d) = 0 /\ d # closing.node
        BY <1>1, <1>2, NoneClosing
    <3>2. nRefCount[d] >= Cardinality(Holders(d)) + kept[d]
        BY <1>2, <2>1, <2>2, <2>3, <3>1 DEF CountInv
    <3> QED
        BY <1>2, <2>2, <2>3, <3>1, <3>2
  <2>6. \A h \in Handler : d \notin held[h]
      BY SomeHolder, <2>5
  <2>7. \A o \in Opener : d \notin Pointed(o)
    <3> SUFFICES ASSUME NEW o \in Opener, d \in Pointed(o) PROVE FALSE
        OBVIOUS
    <3>1. d = opener[o].node /\ (Looking(o) \/ Has(o))
        BY DEF Pointed, At, Looking, Has, Inv, TypeOK, OpenerState
    <3>2. ~Looking(o)
        BY <1>2, <2>1, <2>5, <3>1 DEF UseInv
    <3>3. Backed(d)
        BY <2>1, <2>5, <3>1, <3>2 DEF UseInv
    <3> QED
        BY <1>2, <2>3, <2>5, <3>3 DEF Backed
  <2>8. UsedIsAllocated'
      BY <1>1, <1>5, <2>1, <2>6, <2>7 DEF UseInv, UsedIsAllocated
  <2> QED
      BY <1>1, <1>5, <2>1, <2>2, <2>4, <2>8 DEF UseInv, Backed
<1> QED
    BY <1>4, <1>6, <1>7 DEF Inv

-----------------------------------------------------------------------------
(* New nodes and openers                                                   *)

\* the node that is added is nobody's yet, except that its opener comes to know it
LEMMA NewNode ==
    ASSUME Inv, NEW a \in Addr \cup {Inbound}, AddNode(a), Unlocked,
           UNCHANGED <<flagVars, copyVars, permitVars, historyVars>>
    PROVE  /\ made + 1 \in Node /\ made + 1 \notin 1..made /\ made' = made + 1
           /\ 1..made \subseteq 1..made' /\ made + 1 \in 1..made'
           /\ vNodes' = vNodes \cup {made + 1} /\ allocated' = allocated \cup {made + 1}
           /\ addr' \in [Node -> Addr \cup {Inbound}]
           /\ \A n \in Node : addr'[n] = IF n = made + 1 THEN a ELSE addr[n]
           /\ nRefCount' \in [Node -> Int]
           /\ \A n \in Node : nRefCount'[n] = IF n = made + 1 THEN 1 ELSE nRefCount[n]
           /\ closing' = closing /\ closing.node # made + 1
           /\ \A n \in Node : Listed(n)' = IF n = made + 1 THEN 1 ELSE Listed(n)
           /\ ~torn => CountInv'
<1>1. made \in 0..MaxNodes /\ made < MaxNodes
    BY DEF Inv, TypeOK, AddNode
<1>2. /\ made + 1 \in Node /\ made + 1 \notin 1..made /\ made' = made + 1
      /\ 1..made \subseteq 1..made' /\ made + 1 \in 1..made'
    BY <1>1, PeersAssumption DEF Node, AddNode
<1>3. /\ vNodes' = vNodes \cup {made + 1} /\ allocated' = allocated \cup {made + 1}
      /\ addr' \in [Node -> Addr \cup {Inbound}]
      /\ \A n \in Node : addr'[n] = IF n = made + 1 THEN a ELSE addr[n]
      /\ nRefCount' \in [Node -> Int]
      /\ \A n \in Node : nRefCount'[n] = IF n = made + 1 THEN 1 ELSE nRefCount[n]
    BY <1>2 DEF Inv, TypeOK, AddNode
<1>5. closing' = closing /\ closing.node # made + 1
    BY <1>2, NoneClosing DEF permitVars
<1>6. \A n \in Node : Listed(n)' = IF n = made + 1 THEN 1 ELSE Listed(n)
    BY <1>3, <1>5 DEF Listed
<1>7. ASSUME ~torn PROVE CountInv'
  <2>1. \A n : Holders(n)' = Holders(n) /\ Cardinality(Holders(n)) \in Nat
      BY HoldersFinite DEF Holders, copyVars
  <2>2. Cardinality(Holders(made + 1)) = 0
      BY <1>2, NoHolders DEF Inv, PlaceInv
  <2>3. kept \in [Node -> Nat] /\ kept' = kept /\ kept[made + 1] = 0
      BY <1>1, <1>2 DEF Inv, TypeOK, PlaceInv, historyVars
  <2>4. \A n \in allocated : n \in Node /\ n # made + 1
      BY <1>1, <1>2, PeersAssumption DEF Inv, TypeOK, Node
  <2> QED
      BY <1>2, <1>3, <1>6, <1>7, <2>1, <2>2, <2>3, <2>4 DEF Inv, CountInv
<1> QED
    BY <1>2, <1>3, <1>5, <1>6, <1>7

LEMMA StepAccept ==
    ASSUME Inv, Accept
    PROVE  Inv'
<1>1. AddNode(Inbound) /\ Unlocked /\ UNCHANGED <<flagVars, copyVars, permitVars, historyVars>> /\ opener' = opener
    BY DEF Accept
<1>2. /\ held' = held /\ serving' = serving /\ kept' = kept /\ torn' = torn /\ grant' = grant
      /\ fNetworkNode' = fNetworkNode /\ recent' = recent /\ fDisconnect' = fDisconnect
      /\ semOutbound' = semOutbound /\ clashed' = clashed
    BY <1>1 DEF flagVars, copyVars, permitVars, historyVars
<1>3. /\ made + 1 \in Node /\ made + 1 \notin 1..made /\ made' = made + 1
      /\ 1..made \subseteq 1..made' /\ made + 1 \in 1..made'
      /\ vNodes' = vNodes \cup {made + 1} /\ allocated' = allocated \cup {made + 1}
      /\ addr' \in [Node -> Addr \cup {Inbound}]
      /\ \A n \in Node : addr'[n] = IF n = made + 1 THEN Inbound ELSE addr[n]
      /\ nRefCount' \in [Node -> Int]
      /\ \A n \in Node : nRefCount'[n] = IF n = made + 1 THEN 1 ELSE nRefCount[n]
      /\ closing' = closing /\ closing.node # made + 1
      /\ \A n \in Node : Listed(n)' = IF n = made + 1 THEN 1 ELSE Listed(n)
      /\ ~torn => CountInv'
    BY <1>1, NewNode
<1>4. made' \in 0..MaxNodes
    BY <1>3, PeersAssumption DEF Node
<1>5. recent' \subseteq allocated' \ vNodes'
    BY <1>2, <1>3 DEF Inv, TypeOK, vNodesDisconnected
<1>6. TypeOK'
    BY <1>1, <1>2, <1>3, <1>4, <1>5 DEF Inv, TypeOK, vNodesDisconnected
<1>7. \A o \in Opener : /\ Pointed(o)' = Pointed(o) /\ Pointed(o) \subseteq 1..made
                        /\ (Has(o)' <=> Has(o)) /\ (Looking(o)' <=> Looking(o))
    BY <1>1 DEF Pointed, At, Has, Looking, Inv, PlaceInv
<1>8. \A o \in Opener : Has(o) \/ Looking(o) => opener[o].node \in 1..made
    BY <1>7 DEF Pointed, At, Has, Looking
<1>9. 1..made \subseteq Node /\ made \in Nat
    BY PeersAssumption DEF Inv, TypeOK, Node
<1>10. PlaceInv'
  <2>1. \A o \in Opener : Looking(o) \/ Has(o) => addr'[opener[o].node] # Inbound
      BY <1>3, <1>8, <1>9 DEF Inv, PlaceInv
  <2>2. \A n \in Node : kept[n] > 0 => n <= made'
      BY <1>3, <1>9 DEF Inv, TypeOK, PlaceInv, Node
  <2>3. \A h \in Handler : held[h] \subseteq 1..made'
      BY <1>3 DEF Inv, PlaceInv
  <2>4. \A o \in Opener : Pointed(o)' \subseteq 1..made'
      BY <1>3, <1>7
  <2> QED
      BY <1>1, <1>2, <1>3, <1>7, <2>1, <2>2, <2>3, <2>4 DEF Inv, PlaceInv, At, Unlocked
<1>11. ASSUME ~torn' PROVE CountInv' /\ UseInv'
  <2>1. CountInv /\ UseInv /\ CountInv'
      BY <1>11, <1>2, <1>3 DEF Inv
  <2>2. \A n : Holders(n)' = Holders(n)
      BY <1>2 DEF Holders
  <2>3. UsedIsAllocated'
      BY <1>2, <1>3, <1>7, <2>1 DEF UseInv, UsedIsAllocated
  <2>4. \A o \in Opener : Has(o) \/ Looking(o) => opener[o].node # made + 1
      BY <1>3, <1>8
  <2> QED
      BY <1>1, <1>2, <1>3, <1>7, <2>1, <2>2, <2>3, <2>4 DEF UseInv, Backed
<1> QED
    BY <1>6, <1>10, <1>11 DEF Inv

\* the opener that connects relies on the reference the node is made with
LEMMA StepConnect ==
    ASSUME Inv, NEW o \in Opener, Connect(o)
    PROVE  Inv'
<1>0. opener[o].addr \in Addr \cup {Inbound} /\ opener[o].addr # Inbound
    BY DEF Inv, TypeOK, OpenerState, PlaceInv, Connect
<1>1. /\ AddNode(opener[o].addr) /\ Unlocked /\ UNCHANGED <<flagVars, copyVars, permitVars, historyVars>>
      /\ At(o, "looked")
      /\ \A q \in Opener : opener'[q] = IF q = o THEN [opener[o] EXCEPT !.stage = "made", !.node = made + 1]
                                         ELSE opener[q]
    BY DEF Connect, Goto, Inv, TypeOK, OpenerState
<1>2. /\ held' = held /\ serving' = serving /\ kept' = kept /\ torn' = torn /\ grant' = grant
      /\ fNetworkNode' = fNetworkNode /\ recent' = recent /\ fDisconnect' = fDisconnect
      /\ semOutbound' = semOutbound /\ clashed' = clashed
    BY <1>1 DEF flagVars, copyVars, permitVars, historyVars
<1>3. /\ made + 1 \in Node /\ made + 1 \notin 1..made /\ made' = made + 1
      /\ 1..made \subseteq 1..made' /\ made + 1 \in 1..made'
      /\ vNodes' = vNodes \cup {made + 1} /\ allocated' = allocated \cup {made + 1}
      /\ addr' \in [Node -> Addr \cup {Inbound}]
      /\ \A n \in Node : addr'[n] = IF n = made + 1 THEN opener[o].addr ELSE addr[n]
      /\ nRefCount' \in [Node -> Int]
      /\ \A n \in Node : nRefCount'[n] = IF n = made + 1 THEN 1 ELSE nRefCount[n]
      /\ closing' = closing /\ closing.node # made + 1
      /\ \A n \in Node : Listed(n)' = IF n = made + 1 THEN 1 ELSE Listed(n)
      /\ ~torn => CountInv'
    BY <1>0, <1>1, NewNode
<1>4. made' \in 0..MaxNodes /\ made + 1 \in 0..MaxNodes
    BY <1>3, PeersAssumption DEF Node
<1>5. recent' \subseteq allocated' \ vNodes'
    BY <1>2, <1>3 DEF Inv, TypeOK, vNodesDisconnected
<1>6. TypeOK'
  <2>1. opener' \in [Opener -> OpenerState]
    <3>1. opener[o] \in OpenerState
        BY DEF Inv, TypeOK
    <3>2. [opener[o] EXCEPT !.stage = "made", !.node = made + 1] \in OpenerState
        BY <1>4, <3>1 DEF OpenerState
    <3> QED
        BY <3>2, GoesOn DEF Connect, Inv
  <2> QED
      BY <2>1, <1>2, <1>3, <1>4, <1>5 DEF Inv, TypeOK, vNodesDisconnected
<1>7. /\ opener'[o].stage = "made" /\ opener'[o].node = made + 1
      /\ \A q \in Opener \ {o} : opener'[q] = opener[q]
    BY <1>1 DEF Inv, TypeOK, OpenerState
<1>8. /\ Pointed(o)' = {made + 1}
      /\ Has(o)' /\ ~Looking(o)' /\ ~At(o, "reused")' /\ ~At(o, "looked")'
      /\ \A q \in Opener \ {o} : /\ Pointed(q)' = Pointed(q) /\ Pointed(q) \subseteq 1..made
                               /\ (Has(q)' <=> Has(q)) /\ (Looking(q)' <=> Looking(q))
    BY <1>7 DEF Pointed, At, Has, Looking, Inv, PlaceInv
<1>9. \A q \in Opener \ {o} : Has(q) \/ Looking(q) => opener[q].node \in 1..made
    BY <1>8 DEF Pointed, At, Has, Looking
<1>10. 1..made \subseteq Node /\ made \in Nat
    BY PeersAssumption DEF Inv, TypeOK, Node
<1>11. PlaceInv'
  <2>1. \A q \in Opener : Looking(q)' \/ Has(q)' => addr'[opener'[q].node] # Inbound
      BY <1>0, <1>3, <1>7, <1>8, <1>9, <1>10 DEF Inv, PlaceInv
  <2>2. \A n \in Node : kept[n] > 0 => n <= made'
      BY <1>3, <1>10 DEF Inv, TypeOK, PlaceInv, Node
  <2>3. \A h \in Handler : held[h] \subseteq 1..made'
      BY <1>3 DEF Inv, PlaceInv
  <2>4. \A q \in Opener : Pointed(q)' \subseteq 1..made'
      BY <1>3, <1>8
  <2>5. \A p, q \in Opener : Has(p)' /\ Has(q)' /\ opener'[p].node = opener'[q].node /\ p # q
                                => kept[opener'[p].node] > 0
      BY <1>3, <1>7, <1>8, <1>9 DEF Inv, PlaceInv
  <2>7. \A q \in Opener : At(q, "reused")' => kept[opener'[q].node] > 0
      BY <1>7, <1>8 DEF Inv, PlaceInv, At
  <2>6. \A q \in Opener : At(q, "looked")' => opener'[q].addr # Inbound
      BY <1>7 DEF Inv, PlaceInv, At
  <2> QED
      BY <1>1, <1>2, <1>3, <2>1, <2>2, <2>3, <2>4, <2>5, <2>6, <2>7 DEF Inv, PlaceInv, Unlocked
<1>12. ASSUME ~torn' PROVE CountInv' /\ UseInv'
  <2>1. CountInv /\ UseInv /\ CountInv'
      BY <1>12, <1>2, <1>3 DEF Inv
  <2>2. \A n : Holders(n)' = Holders(n)
      BY <1>2 DEF Holders
  <2>3. UsedIsAllocated'
      BY <1>2, <1>3, <1>8, <2>1 DEF UseInv, UsedIsAllocated
  <2>4. \A n \in Node : n = made + 1 => Backed(n)'
      BY <1>2, <1>3 DEF Inv, TypeOK, Backed
  <2>5. ASSUME NEW q \in Opener, NEW n \in Node, n = opener'[q].node
        PROVE  /\ Has(q)' => kept[n] > 0 \/ Backed(n)'
               /\ Looking(q)' => n \in vNodes' \cup recent \/ n = closing.node
    <3>1. CASE q = o
        BY <3>1, <2>4, <2>5, <1>7, <1>8
    <3>2. CASE q # o
        BY <3>2, <2>2, <2>5, <2>1, <1>2, <1>3, <1>7, <1>8, <1>9 DEF Backed, UseInv
    <3> QED
        BY <3>1, <3>2
  <2> QED
      BY <1>2, <1>3, <2>1, <2>3, <2>5 DEF UseInv
<1> QED
    BY <1>6, <1>11, <1>12 DEF Inv

\* steps of an opener that touch neither a node nor a reference; FindNode answers with
\* a listed node
LEMMA StepOpener ==
    ASSUME Inv, NEW o \in Opener,
           \/ Acquire(o) \/ GiveUp(o) \/ ReadRef(o)
           \/ \E a \in Addr : LookUp(o, a)
           \/ \E n \in Node : Find(o, n)
    PROVE  Inv'
<1> DEFINE r == opener'[o]
<1>1. UNCHANGED <<listVars, flagVars, nRefCount, copyVars, grant, closing, historyVars>>
    BY DEF Acquire, GiveUp, ReadRef, LookUp, Find, permitVars
<1>2. /\ made' = made /\ addr' = addr /\ kept' = kept /\ torn' = torn /\ nRefCount' = nRefCount
      /\ allocated' = allocated /\ vNodes' = vNodes /\ held' = held /\ serving' = serving
      /\ fNetworkNode' = fNetworkNode /\ recent' = recent /\ fDisconnect' = fDisconnect /\ grant' = grant
      /\ closing' = closing /\ clashed' = clashed
    BY <1>1 DEF listVars, flagVars, copyVars, historyVars
<1>3. semOutbound' \in Nat
  <2>1. semOutbound \in Nat
      BY DEF Inv, TypeOK
  <2>2. \/ semOutbound > 0 /\ semOutbound' = semOutbound - 1
        \/ semOutbound' = semOutbound + 1
        \/ semOutbound' = semOutbound
      BY DEF Acquire, GiveUp, ReadRef, LookUp, Find, permitVars
  <2> QED
      BY <2>1, <2>2
<1>4. /\ \A q \in Opener \ {o} : opener'[q] = opener[q]
      /\ opener' \in [Opener -> OpenerState]
      /\ r.stage \in {"idle", "granted", "looked", "found", "read"}
      /\ r.stage = "looked" => r.addr # Inbound
      /\ r.stage = "found" => r.node \in vNodes /\ addr[r.node] # Inbound
      /\ r.stage = "read" => At(o, "found") /\ r.node = opener[o].node
  <2>1. CASE Acquire(o) \/ GiveUp(o)
    <3>1. Idle \in OpenerState
        BY PeersAssumption DEF Idle, OpenerState
    <3>2. opener' = [opener EXCEPT ![o] = [Idle EXCEPT !.stage = "granted"]]
             \/ opener' = [opener EXCEPT ![o] = Idle]
        BY <2>1 DEF Acquire, GiveUp, Goto
    <3> QED
        BY <3>1, <3>2 DEF Inv, TypeOK, Idle, OpenerState
  <2>2. CASE ReadRef(o)
    <3>1. nRefCount[opener[o].node] \in Int
      <4>1. opener[o].node \in 1..made
          BY <2>2 DEF ReadRef, At, Inv, PlaceInv, Pointed
      <4> QED
          BY <4>1, PeersAssumption DEF Inv, TypeOK, Node
    <3> QED
      <4>1. opener[o] \in OpenerState
          BY DEF Inv, TypeOK
      <4>2. [opener[o] EXCEPT !.stage = "read", !.count = nRefCount[opener[o].node]] \in OpenerState
          BY <3>1, <4>1 DEF OpenerState
      <4>3. /\ [opener[o] EXCEPT !.stage = "read", !.count = nRefCount[opener[o].node]].stage = "read"
            /\ [opener[o] EXCEPT !.stage = "read", !.count = nRefCount[opener[o].node]].node = opener[o].node
          BY <4>1 DEF OpenerState
      <4> QED
          BY <2>2, <4>2, <4>3, GoesOn DEF ReadRef, Inv
  <2>3. ASSUME NEW a \in Addr, LookUp(o, a)
        PROVE  opener' = [opener EXCEPT ![o] = [opener[o] EXCEPT !.stage = "looked", !.addr = a]]
      BY <2>3 DEF LookUp, Goto
  <2>4. ASSUME NEW a \in Addr, LookUp(o, a) PROVE <1>4!1 /\ <1>4!2 /\ r.stage = "looked" /\ r.addr # Inbound
    <3>1. opener' = [opener EXCEPT ![o] = [opener[o] EXCEPT !.stage = "looked", !.addr = a]]
        BY <2>3, <2>4
    <3>2. a # Inbound
        BY PeersAssumption
    <3>3. opener \in [Opener -> OpenerState]
        BY DEF Inv, TypeOK
    <3> QED
        BY <3>1, <3>2, <3>3 DEF OpenerState
  <2>5. ASSUME NEW n \in Node, Find(o, n) PROVE <1>4!1 /\ <1>4!2 /\ r.stage = "found"
                                                  /\ r.node \in vNodes /\ addr[r.node] # Inbound
    <3>1. n \in 0..MaxNodes
        BY PeersAssumption DEF Node
    <3>2. n \in vNodes /\ addr[n] # Inbound
        BY <2>5 DEF Find, Inv, PlaceInv
    <3>3. opener[o] \in OpenerState
        BY DEF Inv, TypeOK
    <3>4. /\ [opener[o] EXCEPT !.stage = "found", !.node = n] \in OpenerState
          /\ [opener[o] EXCEPT !.stage = "found", !.node = n].stage = "found"
          /\ [opener[o] EXCEPT !.stage = "found", !.node = n].node = n
        BY <3>1, <3>3 DEF OpenerState
    <3> QED
        BY <2>5, <3>2, <3>4, GoesOn DEF Find, Inv
  <2> QED
      BY <2>1, <2>2, <2>4, <2>5
<1> HIDE DEF r
<1>5. TypeOK'
    BY <1>2, <1>3, <1>4 DEF Inv, TypeOK, vNodesDisconnected
<1>6. /\ \A q \in Opener \ {o} : /\ Pointed(q)' = Pointed(q)
                               /\ (Has(q)' <=> Has(q)) /\ (Looking(q)' <=> Looking(q))
      /\ ~Has(o)' /\ ~At(o, "reused")'
      /\ Looking(o)' => r.node \in vNodes \/ (Looking(o) /\ r.node = opener[o].node)
      /\ Looking(o)' => addr[r.node] # Inbound
  <2>1. /\ \A q \in Opener \ {o} : /\ Pointed(q)' = Pointed(q)
                                 /\ (Has(q)' <=> Has(q)) /\ (Looking(q)' <=> Looking(q))
        /\ ~Has(o)' /\ ~At(o, "reused")'
        /\ Looking(o)' => r.node \in vNodes \/ (Looking(o) /\ r.node = opener[o].node)
      BY <1>4 DEF Pointed, At, Has, Looking, r
  <2>3. Looking(o) => addr[opener[o].node] # Inbound
      BY DEF Inv, PlaceInv
  <2>2. ASSUME Looking(o)' PROVE addr[r.node] # Inbound
    <3>1. r.stage = "found" \/ r.stage = "read"
        BY <2>2 DEF At, Looking, r
    <3>2. CASE r.stage = "read"
        BY <3>2, <1>4, <2>3 DEF Looking
    <3> QED
        BY <1>4, <3>1, <3>2
  <2> QED
      BY <2>1, <2>2
<1>7. Pointed(o)' \subseteq vNodes \cup Pointed(o)
    BY <1>4 DEF Pointed, At, r
<1>8. vNodes \subseteq 1..made /\ vNodes \subseteq allocated
    BY DEF Inv, TypeOK
<1>9. PlaceInv'
  <2>1. \A q \in Opener : Pointed(q)' \subseteq 1..made'
    <3>1. \A q \in Opener : Pointed(q) \subseteq 1..made
        BY DEF Inv, PlaceInv
    <3>2. \A q \in Opener \ {o} : Pointed(q)' = Pointed(q)
        BY <1>6
    <3> QED
        BY <3>1, <3>2, <1>2, <1>7, <1>8
  <2>2. \A q \in Opener : At(q, "reused")' => q # o /\ At(q, "reused")
      BY <1>4 DEF At, r
  <2>3. \A q \in Opener : At(q, "looked")' => opener'[q].addr # Inbound
      BY <1>4 DEF At, r, Inv, PlaceInv
  <2> QED
      BY <1>2, <1>4, <1>6, <2>1, <2>2, <2>3 DEF Inv, PlaceInv, Unlocked, r
<1>10. ASSUME ~torn' PROVE CountInv' /\ UseInv'
  <2>1. CountInv /\ UseInv
      BY <1>10, <1>2 DEF Inv
  <2>2. \A n : Holders(n)' = Holders(n) /\ Listed(n)' = Listed(n)
      BY <1>2 DEF Holders, Listed
  <2>3. CountInv'
      BY <1>2, <2>1, <2>2 DEF CountInv
  <2>4. UsedIsAllocated'
      BY <1>2, <1>6, <1>7, <1>8, <2>1 DEF UseInv, UsedIsAllocated
  <2>5. ASSUME NEW q \in Opener, NEW n \in Node, n = opener'[q].node
        PROVE  /\ Has(q)' => kept[n] > 0 \/ Backed(n)
               /\ Looking(q)' => n \in vNodes \cup recent \/ n = closing.node
    <3>1. CASE q = o
        BY <3>1, <2>1, <2>5, <1>6 DEF r, UseInv
    <3>2. CASE q # o
        BY <3>2, <2>5, <2>1, <1>4, <1>6 DEF UseInv
    <3> QED
        BY <3>1, <3>2
  <2> QED
      BY <1>2, <2>2, <2>3, <2>4, <2>5 DEF UseInv, Backed
<1> QED
    BY <1>5, <1>9, <1>10 DEF Inv

\* the reference on a node that was found: counted, or the count is known to be torn
LEMMA StepStore ==
    ASSUME Inv, NEW o \in Opener, StoreRef(o)
    PROVE  Inv'
<1>0. PICK m : m = opener[o].node
    OBVIOUS
<1>1. m \in 1..made /\ m \in Node /\ made \in 0..MaxNodes
  <2>1. m \in 1..made
      BY <1>0 DEF StoreRef, At, Inv, PlaceInv, Pointed
  <2> QED
      BY <2>1, PeersAssumption DEF Inv, TypeOK, Node
<1>2. /\ made' = made /\ addr' = addr /\ allocated' = allocated /\ vNodes' = vNodes
      /\ held' = held /\ serving' = serving /\ semOutbound' = semOutbound /\ grant' = grant
      /\ fNetworkNode' = fNetworkNode /\ recent' = recent /\ fDisconnect' = fDisconnect
      /\ closing' = closing /\ clashed' = clashed
    BY DEF StoreRef, listVars, flagVars, copyVars, permitVars
<1>3. /\ nRefCount' \in [Node -> Int] /\ kept' \in [Node -> Nat]
      /\ \A n \in Node : nRefCount'[n] = IF n = m THEN opener[o].count + 1 ELSE nRefCount[n]
      /\ \A n \in Node : kept'[n] = IF n = m THEN kept[n] + 1 ELSE kept[n]
    BY <1>0, <1>1 DEF StoreRef, Inv, TypeOK, OpenerState
<1>4. torn' \in BOOLEAN /\ (~torn' => ~torn /\ nRefCount[m] = opener[o].count)
  <2>1. torn' \in BOOLEAN /\ (~torn' => ~torn /\ nRefCount[opener[o].node] = opener[o].count)
      BY DEF StoreRef
  <2> QED
      BY <1>0, <2>1
<1>5. /\ \A q \in Opener \ {o} : opener'[q] = opener[q]
      /\ opener' \in [Opener -> OpenerState]
      /\ opener'[o].stage = "reused" /\ opener'[o].node = m /\ At(o, "read")
  <2>1. opener' = [opener EXCEPT ![o] = [opener[o] EXCEPT !.stage = "reused", !.count = 0]] /\ At(o, "read")
      BY DEF StoreRef, Goto
  <2> DEFINE T == OpenerState
             t == [opener[o] EXCEPT !.stage = "reused", !.count = 0]
  <2>2. opener \in [Opener -> T]
      BY DEF Inv, TypeOK
  <2>3. t \in T /\ t.stage = "reused" /\ t.node = m
    <3>1. ASSUME NEW c \in Int, NEW u, u = [opener[o] EXCEPT !.stage = "reused", !.count = c]
          PROVE  u \in T /\ u.stage = "reused" /\ u.node = m
        BY <1>0, <2>2, <3>1 DEF OpenerState
    <3>2. 0 \in Int
        OBVIOUS
    <3> QED
        BY <3>1, <3>2
  <2> HIDE DEF T, t
  <2>4. opener' \in [Opener -> T] /\ opener'[o] = t /\ \A q \in Opener \ {o} : opener'[q] = opener[q]
      BY <2>1, <2>2, <2>3 DEF t
  <2> QED
      BY <2>1, <2>3, <2>4 DEF T
<1>6. TypeOK'
    BY <1>2, <1>3, <1>4, <1>5 DEF Inv, TypeOK, vNodesDisconnected
<1>7. /\ \A q \in Opener : Pointed(q)' = Pointed(q) /\ opener'[q].node = opener[q].node
      /\ \A q \in Opener \ {o} : (Has(q)' <=> Has(q)) /\ (Looking(q)' <=> Looking(q))
      /\ Has(o)' /\ ~Looking(o)' /\ ~Has(o) /\ Looking(o)
    BY <1>0, <1>5 DEF Pointed, At, Has, Looking
<1>8. PlaceInv'
  <2>1. \A n \in Node : kept[n] > 0 => kept'[n] > 0
      BY <1>3 DEF Inv, TypeOK
  <2>4. kept'[m] > 0
      BY <1>1, <1>3 DEF Inv, TypeOK
  <2>5. \A q \in Opener : Has(q)' => opener[q].node \in Node
    <3>1. \A q \in Opener \ {o} : Has(q) => opener[q].node \in 1..made
        BY DEF Has, At, Pointed, Inv, PlaceInv
    <3> QED
        BY <1>0, <1>1, <1>7, <3>1, PeersAssumption DEF Node
  <2>6. \A p, q \in Opener : Has(p)' /\ Has(q)' /\ opener[p].node = opener[q].node /\ p # q
                                => kept'[opener[p].node] > 0
      BY <1>0, <1>7, <2>1, <2>4, <2>5 DEF Inv, PlaceInv
  <2>7. \A q \in Opener : At(q, "reused")' => kept'[opener[q].node] > 0
    <3> SUFFICES ASSUME NEW q \in Opener, At(q, "reused")', q # o PROVE kept'[opener[q].node] > 0
        BY <1>0, <2>4
    <3>1. At(q, "reused") /\ Has(q)
        BY <1>5 DEF At, Has
    <3> QED
        BY <1>7, <2>1, <2>5, <3>1 DEF Inv, PlaceInv
  <2>8. \A q \in Opener : Looking(q)' \/ Has(q)' => addr[opener[q].node] # Inbound
      BY <1>7 DEF Inv, PlaceInv
  <2>2. \A q \in Opener : At(q, "looked")' => q # o /\ At(q, "looked")
      BY <1>5 DEF At
  <2>3. \A n \in Node : kept'[n] > 0 => n <= made
      BY <1>1, <1>3 DEF Inv, PlaceInv
  <2> QED
      BY <1>2, <1>5, <1>7, <2>2, <2>3, <2>6, <2>7, <2>8 DEF Inv, PlaceInv, Unlocked
<1>9. ASSUME ~torn' PROVE CountInv' /\ UseInv'
  <2>1. CountInv /\ UseInv
      BY <1>9, <1>4 DEF Inv
  <2>2. \A n : Holders(n)' = Holders(n) /\ Listed(n)' = Listed(n) /\ Cardinality(Holders(n)) \in Nat
      BY <1>2, HoldersFinite DEF Holders, Listed
  <2>3. \A n \in Node : nRefCount'[n] = IF n = m THEN nRefCount[n] + 1 ELSE nRefCount[n]
      BY <1>3, <1>4, <1>9
  <2>4. nRefCount \in [Node -> Int] /\ kept \in [Node -> Nat] /\ allocated \subseteq Node
      BY PeersAssumption DEF Inv, TypeOK, Node
  <2>5. CountInv'
      BY <1>2, <1>3, <2>1, <2>2, <2>3, <2>4 DEF CountInv, Listed
  <2>6. UsedIsAllocated'
      BY <1>2, <1>7, <2>1 DEF UseInv, UsedIsAllocated
  <2>7. ASSUME NEW q \in Opener, NEW n \in Node, n = opener'[q].node
        PROVE  /\ Has(q)' => kept'[n] > 0 \/ Backed(n)'
               /\ Looking(q)' => n \in vNodes \cup recent \/ n = closing.node
    <3>1. CASE q = o
        BY <3>1, <2>4, <2>7, <1>3, <1>5, <1>7
    <3>2. CASE q # o
      <4>1. kept'[n] >= kept[n] /\ nRefCount'[n] >= nRefCount[n]
          BY <1>3, <2>3, <2>4
      <4> QED
          BY <3>2, <4>1, <2>2, <2>4, <2>7, <2>1, <1>2, <1>3, <1>7 DEF Backed, UseInv
    <3> QED
        BY <3>1, <3>2
  <2> QED
      BY <1>2, <2>2, <2>5, <2>6, <2>7 DEF UseInv
<1> QED
    BY <1>6, <1>8, <1>9 DEF Inv

\* the permit moves while the opener keeps its node; when fNetworkNode is set, the first
\* reference will be released on disconnection
LEMMA StepMove ==
    ASSUME Inv, NEW o \in Opener, GiveBack(o) \/ Clear(o) \/ Take(o) \/ MarkNetworkNode(o)
    PROVE  Inv'
<1>0. PICK m : m = opener[o].node
    OBVIOUS
<1>1. Has(o) /\ m \in 1..made /\ m \in Node
  <2>1. Has(o)
      BY DEF GiveBack, Clear, Take, MarkNetworkNode, Has
  <2>2. m \in 1..made
      BY <1>0, <2>1 DEF Has, At, Inv, PlaceInv, Pointed
  <2> QED
      BY <2>1, <2>2, PeersAssumption DEF Inv, TypeOK, Node
<1>2. /\ made' = made /\ addr' = addr /\ allocated' = allocated /\ vNodes' = vNodes
      /\ held' = held /\ serving' = serving /\ kept' = kept /\ torn' = torn
      /\ recent' = recent /\ fDisconnect' = fDisconnect /\ nRefCount' = nRefCount
      /\ closing' = closing
    BY DEF GiveBack, Clear, Take, MarkNetworkNode, listVars, copyVars, flagVars, permitVars,
           historyVars
<1>3. semOutbound' \in Nat /\ clashed' \in BOOLEAN /\ grant' \subseteq 1..made
  <2>1. CASE GiveBack(o)
      BY <2>1 DEF GiveBack, Posted, Inv, TypeOK
  <2>2. CASE Clear(o)
      BY <2>2 DEF Clear, historyVars, Inv, TypeOK
  <2>3. CASE Take(o)
      BY <2>3, <1>0, <1>1 DEF Take, historyVars, Inv, TypeOK
  <2>4. CASE MarkNetworkNode(o)
      BY <2>4 DEF MarkNetworkNode, permitVars, historyVars, Inv, TypeOK
  <2> QED
      BY <2>1, <2>2, <2>3, <2>4
<1>4. /\ opener' \in [Opener -> OpenerState]
      /\ \A q \in Opener \ {o} : opener'[q] = opener[q]
      /\ \/ opener'[o].stage = "idle" /\ fNetworkNode' = fNetworkNode \cup {m}
         \/ /\ opener'[o].stage \in {"posted", "cleared", "moved"} /\ opener'[o].node = m
            /\ fNetworkNode' = fNetworkNode
  <2>1. ASSUME NEW s \in {"posted", "cleared", "moved"}, Goto(o, [opener[o] EXCEPT !.stage = s]),
               UNCHANGED flagVars
        PROVE  <1>4
      BY <2>1, <1>0 DEF Goto, OpenerState, flagVars, Inv, TypeOK
  <2>2. CASE GiveBack(o)
      BY <2>2, <2>1 DEF GiveBack
  <2>3. CASE Clear(o)
      BY <2>3, <2>1 DEF Clear
  <2>4. CASE Take(o)
      BY <2>4, <2>1 DEF Take
  <2>5. CASE MarkNetworkNode(o)
    <3>1. Idle \in OpenerState
        BY PeersAssumption DEF Idle, OpenerState
    <3> QED
        BY <2>5, <3>1, <1>0 DEF MarkNetworkNode, Goto, Idle, Inv, TypeOK
  <2> QED
      BY <2>2, <2>3, <2>4, <2>5
<1>5. TypeOK'
    BY <1>1, <1>2, <1>3, <1>4 DEF Inv, TypeOK, vNodesDisconnected
<1>6. /\ \A q \in Opener \ {o} : /\ Pointed(q)' = Pointed(q)
                               /\ (Has(q)' <=> Has(q)) /\ (Looking(q)' <=> Looking(q))
      /\ ~Looking(o)' /\ ~At(o, "reused")' /\ ~At(o, "looked")'
      /\ Pointed(o)' \subseteq Pointed(o)
      /\ Has(o)' => opener'[o].node = m /\ fNetworkNode' = fNetworkNode
    BY <1>0, <1>1, <1>4 DEF Pointed, At, Has, Looking
<1>7. PlaceInv'
  <2>1. \A q \in Opener : Has(q)' => Has(q) /\ opener'[q].node = opener[q].node
      BY <1>0, <1>1, <1>4, <1>6
  <2>2. \A q \in Opener : Looking(q)' => Looking(q) /\ opener'[q].node = opener[q].node
      BY <1>4, <1>6
  <2>3. \A q \in Opener : At(q, "reused")' \/ At(q, "looked")' => q # o /\ opener'[q] = opener[q]
      BY <1>4, <1>6
  <2>4. \A q \in Opener : Pointed(q)' \subseteq 1..made
      BY <1>6 DEF Inv, PlaceInv
  <2> QED
      BY <1>2, <2>1, <2>2, <2>3, <2>4 DEF Inv, PlaceInv, Unlocked, At
<1>8. ASSUME ~torn' PROVE CountInv' /\ UseInv'
  <2>1. CountInv /\ UseInv
      BY <1>8, <1>2 DEF Inv
  <2>2. \A n : Holders(n)' = Holders(n) /\ Listed(n)' = Listed(n)
      BY <1>2 DEF Holders, Listed
  <2>3. CountInv'
      BY <1>2, <2>1, <2>2 DEF CountInv
  <2>4. UsedIsAllocated'
      BY <1>2, <1>6, <2>1 DEF UseInv, UsedIsAllocated
  <2>5. ASSUME NEW q \in Opener, NEW n \in Node, n = opener'[q].node, Has(q)'
        PROVE  kept[n] > 0 \/ Backed(n)'
    <3>1. Has(q) /\ n = opener[q].node
        BY <2>5, <1>0, <1>1, <1>4, <1>6
    <3>2. kept[n] > 0 \/ Backed(n)
        BY <3>1, <2>1 DEF UseInv
    <3>3. CASE q # o /\ n = m
        BY <3>1, <3>3, <1>0, <1>1 DEF Inv, PlaceInv
    <3>4. CASE q = o \/ n # m
        BY <3>2, <3>4, <2>2, <2>5, <1>2, <1>4, <1>6 DEF Backed
    <3> QED
        BY <3>3, <3>4
  <2>6. \A q \in Opener, n \in Node : n = opener'[q].node /\ Looking(q)' =>
            n \in vNodes \cup recent \/ n = closing.node
      BY <2>1, <1>4, <1>6 DEF UseInv
  <2> QED
      BY <1>2, <2>3, <2>4, <2>5, <2>6 DEF UseInv
<1> QED
    BY <1>5, <1>7, <1>8 DEF Inv

LEMMA InvStep == Inv /\ [Next]_vars => Inv'
<1> SUFFICES ASSUME Inv, [Next]_vars PROVE Inv'
    OBVIOUS
<1>1. CASE Next
    BY <1>1, StepDisconnect, StepFinishDisconnect, StepDelete, StepAccept, StepCopy, StepRelease,
       StepFlags, StepOpener, StepStore, StepConnect, StepMove DEF Next
<1>2. CASE UNCHANGED vars
  <2>1. \A n : Holders(n)' = Holders(n) /\ Listed(n)' = Listed(n)
      BY <1>2 DEF vars, Holders, Listed
  <2>2. \A o \in Opener : Pointed(o)' = Pointed(o)
      BY <1>2 DEF vars, Pointed, At
  <2>3. TypeOK' /\ PlaceInv'
      BY <1>2, <2>2 DEF vars, Inv, TypeOK, PlaceInv, vNodesDisconnected, At, Has, Looking, Unlocked
  <2>4. ~torn' => CountInv' /\ UseInv'
      BY <1>2, <2>1, <2>2 DEF vars, Inv, CountInv, UseInv, UsedIsAllocated, Backed, At, Has, Looking
  <2> QED
      BY <2>3, <2>4 DEF Inv
<1> QED
    BY <1>1, <1>2

-----------------------------------------------------------------------------
(* The permits of outbound connections                                     *)

\* openers whose post is not yet followed by the store to the flag
Posting == {o \in Opener : At(o, "posted")}
Inside(o) == At(o, "posted") \/ At(o, "cleared")

\* One thread is inside a grant at a time, and it knows the flag.
MoveInv ==
    /\ \A o \in Opener : At(o, "posted") => opener[o].node \in grant
    /\ \A o \in Opener : At(o, "cleared") => opener[o].node \notin grant
    /\ \A o, q \in Opener : Inside(o) /\ Inside(q) /\ opener[o].node = opener[q].node => o = q
    /\ closing.posted => closing.node \in grant
    /\ \A o \in Opener : Inside(o) /\ closing.posted => opener[o].node # closing.node

\* A listed outbound node has its permit, or the opener that made it still has it.
Permitted ==
    \A n \in vNodes \ fInbound :
        n \in grant \/ \E o \in Opener : (At(o, "made") \/ At(o, "cleared")) /\ opener[o].node = n

Accounted == PermitsConserved /\ MoveInv /\ Permitted
PermitInv == Inv /\ (~clashed => Accounted)

Taken == IF closing.posted THEN 1 ELSE 0

\* what is counted is finite
LEMMA PermitsFinite ==
    ASSUME TypeOK
    PROVE  /\ IsFiniteSet(Carrying) /\ Cardinality(Carrying) \in Nat
           /\ IsFiniteSet(Posting) /\ Cardinality(Posting) \in Nat
           /\ IsFiniteSet(grant) /\ Cardinality(grant) \in Nat
           /\ semOutbound \in Nat /\ Taken \in Nat
<1>1. Carrying \in SUBSET Opener /\ Posting \in SUBSET Opener /\ IsFiniteSet(Opener)
    BY PeersAssumption DEF Carrying, Posting
<1>2. grant \in SUBSET (1..made) /\ IsFiniteSet(1..made)
  <2>1. made \in Int
      BY PeersAssumption DEF TypeOK
  <2> QED
      BY <2>1, FS_Interval DEF TypeOK
<1> QED
    BY <1>1, <1>2, FS_Subset, FS_CardinalityType DEF TypeOK, Taken

\* the sum that stays the same
LEMMA Conserved ==
    PermitsConserved <=>
        semOutbound + Cardinality(Carrying) + Cardinality(grant)
            = MaxOutbound + (Cardinality(Posting) + Taken)
BY Zenon DEF PermitsConserved, HalfReleased, Posting, Taken

\* an opener that starts to carry takes a permit with it, one that comes to rest leaves it
LEMMA CarryingCounts ==
    ASSUME TypeOK, NEW o \in Opener, \A q \in Opener \ {o} : opener'[q] = opener[q]
    PROVE  /\ o \notin Carrying /\ o \in Carrying' =>
                  Cardinality(Carrying') = Cardinality(Carrying) + 1
           /\ o \in Carrying /\ o \notin Carrying' =>
                  Cardinality(Carrying') = Cardinality(Carrying) - 1
           /\ (o \in Carrying <=> o \in Carrying') => Carrying' = Carrying
<1>1. \A q \in Opener \ {o} : q \in Carrying' <=> q \in Carrying
    BY DEF At, Carrying
<1>2. Carrying \subseteq Opener /\ Carrying' \subseteq Opener
    BY DEF Carrying
<1>3. ASSUME o \notin Carrying, o \in Carrying' PROVE Cardinality(Carrying') = Cardinality(Carrying) + 1
  <2>1. Carrying' = Carrying \cup {o}
      BY <1>1, <1>2, <1>3
  <2> QED
      BY <2>1, <1>3, PermitsFinite, FS_AddElement
<1>4. ASSUME o \in Carrying, o \notin Carrying' PROVE Cardinality(Carrying') = Cardinality(Carrying) - 1
  <2>1. Carrying' = Carrying \ {o}
      BY <1>1, <1>2, <1>4
  <2> QED
      BY <2>1, <1>4, PermitsFinite, FS_RemoveElement
<1>5. (o \in Carrying <=> o \in Carrying') => Carrying' = Carrying
    BY <1>1, <1>2
<1> QED
    BY <1>3, <1>4, <1>5

LEMMA PostingCounts ==
    ASSUME TypeOK, NEW o \in Opener, \A q \in Opener \ {o} : opener'[q] = opener[q]
    PROVE  /\ o \notin Posting /\ o \in Posting' =>
                  Cardinality(Posting') = Cardinality(Posting) + 1
           /\ o \in Posting /\ o \notin Posting' =>
                  Cardinality(Posting') = Cardinality(Posting) - 1
           /\ (o \in Posting <=> o \in Posting') => Posting' = Posting
<1>1. \A q \in Opener \ {o} : q \in Posting' <=> q \in Posting
    BY DEF At, Posting
<1>2. Posting \subseteq Opener /\ Posting' \subseteq Opener
    BY DEF Posting
<1>3. ASSUME o \notin Posting, o \in Posting' PROVE Cardinality(Posting') = Cardinality(Posting) + 1
  <2>1. Posting' = Posting \cup {o}
      BY <1>1, <1>2, <1>3
  <2> QED
      BY <2>1, <1>3, PermitsFinite, FS_AddElement
<1>4. ASSUME o \in Posting, o \notin Posting' PROVE Cardinality(Posting') = Cardinality(Posting) - 1
  <2>1. Posting' = Posting \ {o}
      BY <1>1, <1>2, <1>4
  <2> QED
      BY <2>1, <1>4, PermitsFinite, FS_RemoveElement
<1>5. (o \in Posting <=> o \in Posting') => Posting' = Posting
    BY <1>1, <1>2
<1> QED
    BY <1>3, <1>4, <1>5

\* the post of a Release gives a permit back before the flag is cleared
LEMMA DisconnectKeepsPermits ==
    ASSUME Inv, Accounted, NEW n \in Node, Disconnect(n), ~clashed'
    PROVE  Accounted'
<1>1. /\ made' = made /\ addr' = addr /\ opener' = opener /\ grant' = grant
      /\ vNodes' = vNodes \ {n} /\ Unlocked
      /\ closing' = [node |-> n, posted |-> n \in grant]
      /\ semOutbound' = Posted(n)
      /\ n \in grant => ~InsideMove(n)
    BY DEF Disconnect
<1>2. closing'.node = n /\ (closing'.posted <=> n \in grant) /\ ~closing.posted
    BY <1>1 DEF Unlocked, Open
<1>3. PermitsConserved'
  <2>1. Carrying' = Carrying /\ Posting' = Posting
      BY <1>1 DEF Carrying, Posting, At
  <2>2. Taken = 0 /\ Taken' = IF n \in grant THEN 1 ELSE 0
      BY <1>2 DEF Taken
  <2>3. semOutbound' = semOutbound + Taken'
      BY <1>1, <2>2, PermitsFinite DEF Posted, Inv
  <2>4. semOutbound + Cardinality(Carrying) + Cardinality(grant)
            = MaxOutbound + (Cardinality(Posting) + Taken)
      BY Conserved DEF Accounted
  <2>5. semOutbound' + Cardinality(Carrying') + Cardinality(grant')
            = MaxOutbound + (Cardinality(Posting') + Taken')
      BY <1>1, <2>1, <2>2, <2>3, <2>4, PermitsFinite, PeersAssumption DEF Inv
  <2> QED
      BY <2>5 DEF PermitsConserved, HalfReleased, Posting, Taken
<1>4. MoveInv'
    BY <1>1, <1>2 DEF Accounted, MoveInv, Inside, At, InsideMove
<1>5. Permitted'
    BY <1>1 DEF Accounted, Permitted, fInbound, At
<1> QED
    BY <1>3, <1>4, <1>5 DEF Accounted

LEMMA FinishDisconnectKeepsPermits ==
    ASSUME Inv, Accounted, FinishDisconnect
    PROVE  Accounted'
<1>0. PICK m : m = closing.node
    OBVIOUS
<1>1. /\ made' = made /\ addr' = addr /\ opener' = opener /\ vNodes' = vNodes
      /\ grant' = IF closing.posted THEN grant \ {m} ELSE grant
      /\ closing' = Open /\ semOutbound' = semOutbound
    BY <1>0 DEF FinishDisconnect, PutAway, listVars
<1>2. ~closing'.posted
    BY <1>1 DEF Open
<1>3. m \notin vNodes
    BY <1>0 DEF Inv, PlaceInv
<1>4. PermitsConserved'
  <2>1. Carrying' = Carrying /\ Posting' = Posting
      BY <1>1 DEF Carrying, Posting, At
  <2>2. Taken' = 0
      BY <1>2 DEF Taken
  <2>3. Cardinality(grant') = Cardinality(grant) - Taken
    <3>1. CASE closing.posted
      <4>1. m \in grant
          BY <1>0, <3>1 DEF Accounted, MoveInv
      <4> QED
          BY <4>1, <3>1, <1>1, PermitsFinite, FS_RemoveElement DEF Taken, Inv
    <3>2. CASE ~closing.posted
        BY <3>2, <1>1, PermitsFinite DEF Taken, Inv
    <3> QED
        BY <3>1, <3>2
  <2>4. semOutbound + Cardinality(Carrying) + Cardinality(grant)
            = MaxOutbound + (Cardinality(Posting) + Taken)
      BY Conserved DEF Accounted
  <2>5. semOutbound' + Cardinality(Carrying') + Cardinality(grant')
            = MaxOutbound + (Cardinality(Posting') + Taken')
      BY <1>1, <2>1, <2>2, <2>3, <2>4, PermitsFinite, PeersAssumption DEF Inv
  <2> QED
      BY <2>5 DEF PermitsConserved, HalfReleased, Posting, Taken
<1>5. MoveInv'
    BY <1>0, <1>1, <1>2 DEF Accounted, MoveInv, Inside, At
<1>6. Permitted'
    BY <1>1, <1>3 DEF Accounted, Permitted, fInbound, At
<1> QED
    BY <1>4, <1>5, <1>6 DEF Accounted

\* the destructor posts too
LEMMA DeleteKeepsPermits ==
    ASSUME Inv, Accounted, NEW n \in Node, Delete(n), ~clashed'
    PROVE  Accounted'
<1>1. /\ made' = made /\ addr' = addr /\ opener' = opener /\ vNodes' = vNodes
      /\ grant' = grant \ {n} /\ closing' = closing /\ semOutbound' = Posted(n)
      /\ n \in grant => ~InsideMove(n)
      /\ Unlocked
    BY DEF Delete
<1>2. ~closing.posted /\ n \notin vNodes
    BY <1>1 DEF Unlocked, Open, Delete, Deletable, vNodesDisconnected
<1>3. PermitsConserved'
  <2>1. Carrying' = Carrying /\ Posting' = Posting /\ Taken' = Taken
      BY <1>1 DEF Carrying, Posting, Taken, At
  <2>2. semOutbound' + Cardinality(grant') = semOutbound + Cardinality(grant)
    <3>1. CASE n \in grant
      <4>1. Cardinality(grant \ {n}) = Cardinality(grant) - 1
          BY <3>1, PermitsFinite, FS_RemoveElement DEF Inv
      <4> QED
          BY <4>1, <3>1, <1>1, PermitsFinite DEF Posted, Inv
    <3>2. CASE n \notin grant
      <4>1. grant \ {n} = grant
          BY <3>2
      <4> QED
          BY <4>1, <3>2, <1>1 DEF Posted
    <3> QED
        BY <3>1, <3>2
  <2>3. semOutbound + Cardinality(Carrying) + Cardinality(grant)
            = MaxOutbound + (Cardinality(Posting) + Taken)
      BY Conserved DEF Accounted
  <2>4. semOutbound' \in Nat /\ Cardinality(grant') \in Nat
    <3>1. grant' \in SUBSET grant
        BY <1>1
    <3> QED
        BY <1>1, <3>1, PermitsFinite, FS_Subset, FS_CardinalityType DEF Posted, Inv
  <2>5. semOutbound' + Cardinality(Carrying') + Cardinality(grant')
            = MaxOutbound + (Cardinality(Posting') + Taken')
      BY <2>1, <2>2, <2>3, <2>4, PermitsFinite, PeersAssumption DEF Inv
  <2> QED
      BY <2>5 DEF PermitsConserved, HalfReleased, Posting, Taken
<1>4. MoveInv'
    BY <1>1, <1>2 DEF Accounted, MoveInv, Inside, At, InsideMove
<1>5. Permitted'
    BY <1>1, <1>2 DEF Accounted, Permitted, fInbound, At
<1> QED
    BY <1>3, <1>4, <1>5 DEF Accounted

\* openers on their way, and steps of handlers, list no outbound node
LEMMA OthersKeepPermits ==
    ASSUME Inv, Accounted, UNCHANGED <<vNodes, made, addr, semOutbound, grant, closing>>,
           \/ opener' = opener
           \/ \E o \in Opener : /\ \A q \in Opener \ {o} : opener'[q] = opener[q]
                                /\ o \in Carrying <=> o \in Carrying'
                                /\ ~Inside(o) /\ ~Inside(o)' /\ ~At(o, "made")
    PROVE  Accounted'
<1>1. Carrying' = Carrying /\ Posting' = Posting
  <2>1. CASE opener' = opener
      BY <2>1 DEF Carrying, Posting, At
  <2>2. ASSUME NEW o \in Opener, \A q \in Opener \ {o} : opener'[q] = opener[q],
               o \in Carrying <=> o \in Carrying', ~Inside(o), ~Inside(o)'
        PROVE  Carrying' = Carrying /\ Posting' = Posting
    <3>1. o \notin Posting /\ o \notin Posting'
        BY <2>2 DEF Posting, Inside
    <3> QED
        BY <2>2, <3>1, CarryingCounts, PostingCounts DEF Inv
  <2> QED
      BY <2>1, <2>2
<1>2. /\ \A q \in Opener : Inside(q)' => Inside(q) /\ opener'[q] = opener[q]
      /\ \A q \in Opener : At(q, "made") \/ At(q, "cleared") => opener'[q] = opener[q]
    BY DEF Inside, At
<1>3. MoveInv'
  <2>1. \A q \in Opener : /\ At(q, "posted")' => Inside(q)' /\ At(q, "posted")
                          /\ At(q, "cleared")' => Inside(q)' /\ At(q, "cleared")
      BY <1>2 DEF Inside, At
  <2> QED
      BY <1>2, <2>1 DEF Accounted, MoveInv
<1>4. Permitted'
    BY <1>2 DEF Accounted, Permitted, fInbound, At
<1>5. PermitsConserved'
    BY <1>1 DEF Accounted, PermitsConserved, HalfReleased, Posting
<1> QED
    BY <1>3, <1>4, <1>5 DEF Accounted

\* a permit is taken from the semaphore or put back
LEMMA SemaphoreKeepsPermits ==
    ASSUME Inv, Accounted, NEW o \in Opener, Acquire(o) \/ GiveUp(o)
    PROVE  Accounted'
<1>1. /\ UNCHANGED <<vNodes, made, addr, grant, closing>>
      /\ \A q \in Opener \ {o} : opener'[q] = opener[q]
      /\ ~At(o, "made") /\ ~Inside(o)
    BY DEF Acquire, GiveUp, Goto, listVars, At, Inside, Inv, TypeOK
<1>2. /\ ~Inside(o)'
      /\ \/ semOutbound' = semOutbound - 1 /\ o \notin Carrying /\ o \in Carrying'
         \/ semOutbound' = semOutbound + 1 /\ o \in Carrying /\ o \notin Carrying'
    BY DEF Acquire, GiveUp, Goto, At, Inside, Idle, Carrying, Inv, TypeOK
<1>3. \/ semOutbound' = semOutbound - 1 /\ Cardinality(Carrying') = Cardinality(Carrying) + 1
      \/ semOutbound' = semOutbound + 1 /\ Cardinality(Carrying') = Cardinality(Carrying) - 1
    BY <1>1, <1>2, CarryingCounts DEF Inv
<1>4. PermitsConserved'
  <2>1. Posting' = Posting /\ Taken' = Taken
    <3>1. o \notin Posting /\ o \notin Posting'
        BY <1>1, <1>2 DEF Posting, Inside
    <3> QED
        BY <1>1, <3>1, PostingCounts DEF Inv, Taken
  <2>2. semOutbound + Cardinality(Carrying) + Cardinality(grant)
            = MaxOutbound + (Cardinality(Posting) + Taken)
      BY Conserved DEF Accounted
  <2>3. semOutbound' + Cardinality(Carrying') + Cardinality(grant')
            = MaxOutbound + (Cardinality(Posting') + Taken')
      BY <1>1, <1>3, <2>1, <2>2, PermitsFinite, PeersAssumption DEF Inv
  <2> QED
      BY <2>3 DEF PermitsConserved, HalfReleased, Posting, Taken
<1>5. /\ \A q \in Opener : Inside(q)' => Inside(q) /\ opener'[q] = opener[q]
      /\ \A q \in Opener : At(q, "made") \/ At(q, "cleared") => opener'[q] = opener[q]
    BY <1>1, <1>2 DEF Inside, At
<1>6. MoveInv'
  <2>1. \A q \in Opener : /\ At(q, "posted")' => Inside(q)' /\ At(q, "posted")
                          /\ At(q, "cleared")' => Inside(q)' /\ At(q, "cleared")
      BY <1>5 DEF Inside, At
  <2> QED
      BY <1>1, <1>5, <2>1 DEF Accounted, MoveInv
<1>7. Permitted'
    BY <1>1, <1>5 DEF Accounted, Permitted, fInbound, At
<1> QED
    BY <1>4, <1>6, <1>7 DEF Accounted

\* a node is listed before it has the permit; until then its opener has it
LEMMA NewNodesKeepPermits ==
    ASSUME Inv, Accounted, Accept \/ \E o \in Opener : Connect(o)
    PROVE  Accounted'
<1>1. /\ UNCHANGED permitVars
      /\ made' = made + 1 /\ made + 1 \in Node /\ made \in Nat /\ MaxNodes \in Nat
      /\ vNodes' = vNodes \cup {made + 1} /\ vNodes \subseteq 1..made
      /\ 1..made \subseteq Node
  <2>1. UNCHANGED permitVars /\ \E a : AddNode(a)
      BY DEF Accept, Connect
  <2>2. /\ made < MaxNodes /\ made' = made + 1 /\ vNodes' = vNodes \cup {made + 1}
      BY <2>1 DEF AddNode
  <2>3. made \in Nat /\ MaxNodes \in Nat /\ vNodes \subseteq 1..made
      BY PeersAssumption DEF Inv, TypeOK
  <2> QED
      BY <2>1, <2>2, <2>3 DEF Node
<1>2. semOutbound' = semOutbound /\ grant' = grant /\ closing' = closing
    BY <1>1 DEF permitVars
<1>3. CASE Accept
  <2>1. opener' = opener /\ Carrying' = Carrying /\ Posting' = Posting
      BY <1>3 DEF Accept, Carrying, Posting, At
  <2>2. addr' = [addr EXCEPT ![made + 1] = Inbound] /\ addr \in [Node -> Addr \cup {Inbound}]
      BY <1>3 DEF Accept, AddNode, Inv, TypeOK
  <2>3. made + 1 \in fInbound' /\ \A n \in 1..made : n \in fInbound' <=> n \in fInbound
      BY <1>1, <2>2 DEF fInbound
  <2>4. PermitsConserved'
      BY <1>2, <2>1 DEF Accounted, PermitsConserved, HalfReleased, Posting
  <2>5. MoveInv'
      BY <1>2, <2>1 DEF Accounted, MoveInv, Inside, At
  <2>6. Permitted'
      BY <1>1, <1>2, <2>1, <2>3 DEF Accounted, Permitted, At
  <2> QED
      BY <2>4, <2>5, <2>6 DEF Accounted
<1>4. ASSUME NEW o \in Opener, Connect(o) PROVE Accounted'
  <2>1. /\ \A q \in Opener \ {o} : opener'[q] = opener[q]
        /\ At(o, "looked") /\ At(o, "made")' /\ opener'[o].node = made + 1
      BY <1>4 DEF Connect, Goto, At, Inv, TypeOK, OpenerState
  <2>2. addr' = [addr EXCEPT ![made + 1] = opener[o].addr] /\ addr \in [Node -> Addr \cup {Inbound}]
      BY <1>4 DEF Connect, AddNode, Inv, TypeOK
  <2>3. \A n \in 1..made : n \in fInbound' <=> n \in fInbound
      BY <1>1, <2>2 DEF fInbound
  <2>4. Carrying' = Carrying /\ Posting' = Posting
    <3>1. o \in Carrying /\ o \in Carrying' /\ o \notin Posting /\ o \notin Posting'
        BY <2>1 DEF At, Carrying, Posting
    <3> QED
        BY <2>1, <3>1, CarryingCounts, PostingCounts DEF Inv
  <2>5. /\ \A q \in Opener : At(q, "made") \/ Inside(q) => q # o
        /\ \A q \in Opener : Inside(q)' => q # o
      BY <2>1 DEF At, Inside
  <2>6. PermitsConserved'
      BY <1>2, <2>4 DEF Accounted, PermitsConserved, HalfReleased, Posting
  <2>7. MoveInv'
      BY <1>2, <2>1, <2>5 DEF Accounted, MoveInv, Inside, At
  <2>8. Permitted'
    <3> SUFFICES ASSUME NEW n \in vNodes', n \notin fInbound', n \notin grant
                 PROVE  \E q \in Opener : (At(q, "made")' \/ At(q, "cleared")') /\ opener'[q].node = n
        BY <1>2 DEF Permitted
    <3>1. CASE n = made + 1
        BY <3>1, <2>1
    <3>2. CASE n \in vNodes
      <4>1. PICK q \in Opener : (At(q, "made") \/ At(q, "cleared")) /\ opener[q].node = n
          BY <3>2, <1>1, <2>3 DEF Accounted, Permitted
      <4>2. opener'[q] = opener[q]
          BY <4>1, <2>1, <2>5 DEF Inside
      <4> QED
          BY <4>1, <4>2 DEF At
    <3> QED
        BY <3>1, <3>2, <1>1
  <2> QED
      BY <2>6, <2>7, <2>8 DEF Accounted
<1> QED
    BY <1>3, <1>4

\* the permit that the node has is posted, by one thread
LEMMA GiveBackKeepsPermits ==
    ASSUME Inv, Accounted, NEW o \in Opener, GiveBack(o), ~clashed'
    PROVE  Accounted'
<1>0. PICK m : m = opener[o].node
    OBVIOUS
<1>1. /\ UNCHANGED <<vNodes, made, addr, grant, closing>>
      /\ semOutbound' = Posted(m)
      /\ At(o, "made") \/ At(o, "reused")
      /\ closing # [node |-> m, posted |-> TRUE] /\ ~InsideMove(m)
    BY <1>0 DEF GiveBack, listVars
<1>2. /\ \A q \in Opener \ {o} : opener'[q] = opener[q]
      /\ opener'[o].node = m
      /\ opener'[o].stage = IF m \in grant THEN "posted" ELSE "cleared"
    BY <1>0 DEF GiveBack, Goto, Inv, TypeOK, OpenerState
<1>3. closing.posted => closing.node # m
    BY <1>1 DEF Inv, TypeOK
<1>4. PermitsConserved'
  <2>1. /\ o \in Carrying /\ o \in Carrying' /\ o \notin Posting
        /\ o \in Posting' <=> m \in grant
      BY <1>1, <1>2 DEF At, Carrying, Posting
  <2>2. Carrying' = Carrying
      BY <1>2, <2>1, CarryingCounts DEF Inv
  <2>3. Cardinality(Posting') = Cardinality(Posting) + (IF m \in grant THEN 1 ELSE 0)
      BY <1>2, <2>1, PostingCounts, PermitsFinite DEF Inv
  <2>4. semOutbound' = semOutbound + (IF m \in grant THEN 1 ELSE 0)
      BY <1>1, PermitsFinite DEF Posted, Inv
  <2>5. Taken' = Taken
      BY <1>1 DEF Taken
  <2>6. semOutbound + Cardinality(Carrying) + Cardinality(grant)
            = MaxOutbound + (Cardinality(Posting) + Taken)
      BY Conserved DEF Accounted
  <2>7. semOutbound' + Cardinality(Carrying') + Cardinality(grant')
            = MaxOutbound + (Cardinality(Posting') + Taken')
      BY <1>1, <2>2, <2>3, <2>4, <2>5, <2>6, PermitsFinite, PeersAssumption DEF Inv
  <2> QED
      BY <2>7 DEF PermitsConserved, HalfReleased, Posting, Taken
<1>5. \A q \in Opener : Inside(q) => q # o /\ opener[q].node # m
    BY <1>1 DEF Inside, InsideMove, At
<1>6. MoveInv'
  <2>1. \A q \in Opener : At(q, "posted")' => opener'[q].node \in grant
      BY <1>2 DEF Accounted, MoveInv, At
  <2>2. \A q \in Opener : At(q, "cleared")' => opener'[q].node \notin grant
      BY <1>2 DEF Accounted, MoveInv, At
  <2>3. \A q \in Opener : Inside(q)' => q = o \/ (Inside(q) /\ opener'[q] = opener[q])
      BY <1>2 DEF Inside, At
  <2>4. \A p, q \in Opener : Inside(p)' /\ Inside(q)' /\ opener'[p].node = opener'[q].node => p = q
      BY <1>2, <1>5, <2>3 DEF Accounted, MoveInv
  <2>5. \A q \in Opener : Inside(q)' /\ closing.posted => opener'[q].node # closing.node
      BY <1>2, <1>3, <2>3 DEF Accounted, MoveInv
  <2> QED
      BY <1>1, <2>1, <2>2, <2>4, <2>5 DEF Accounted, MoveInv
<1>7. Permitted'
  <2> SUFFICES ASSUME NEW n \in vNodes, n \notin fInbound, n \notin grant
               PROVE  \E q \in Opener : (At(q, "made")' \/ At(q, "cleared")') /\ opener'[q].node = n
      BY <1>1 DEF Permitted, fInbound
  <2>1. PICK q \in Opener : (At(q, "made") \/ At(q, "cleared")) /\ opener[q].node = n
      BY DEF Accounted, Permitted
  <2>2. CASE q = o
      BY <2>1, <2>2, <1>0, <1>2 DEF At
  <2>3. CASE q # o
      BY <2>1, <2>3, <1>2 DEF At
  <2> QED
      BY <2>2, <2>3
<1> QED
    BY <1>4, <1>6, <1>7 DEF Accounted

LEMMA ClearKeepsPermits ==
    ASSUME Inv, Accounted, NEW o \in Opener, Clear(o)
    PROVE  Accounted'
<1>0. PICK m : m = opener[o].node
    OBVIOUS
<1>1. /\ UNCHANGED <<vNodes, made, addr, semOutbound, closing>>
      /\ grant' = grant \ {m} /\ At(o, "posted") /\ Inside(o)
    BY <1>0 DEF Clear, listVars, Inside
<1>2. /\ \A q \in Opener \ {o} : opener'[q] = opener[q]
      /\ opener'[o].node = m /\ opener'[o].stage = "cleared"
    BY <1>0 DEF Clear, Goto, Inv, TypeOK, OpenerState
<1>3. m \in grant
    BY <1>0, <1>1 DEF Accounted, MoveInv
<1>4. PermitsConserved'
  <2>1. o \in Carrying /\ o \in Carrying' /\ o \in Posting /\ o \notin Posting'
      BY <1>1, <1>2 DEF At, Carrying, Posting
  <2>2. Carrying' = Carrying /\ Cardinality(Posting') = Cardinality(Posting) - 1
      BY <1>2, <2>1, CarryingCounts, PostingCounts DEF Inv
  <2>3. Cardinality(grant') = Cardinality(grant) - 1
      BY <1>1, <1>3, PermitsFinite, FS_RemoveElement DEF Inv
  <2>4. Taken' = Taken
      BY <1>1 DEF Taken
  <2>5. semOutbound + Cardinality(Carrying) + Cardinality(grant)
            = MaxOutbound + (Cardinality(Posting) + Taken)
      BY Conserved DEF Accounted
  <2>6. semOutbound' + Cardinality(Carrying') + Cardinality(grant')
            = MaxOutbound + (Cardinality(Posting') + Taken')
      BY <1>1, <2>2, <2>3, <2>4, <2>5, PermitsFinite, PeersAssumption DEF Inv
  <2> QED
      BY <2>6 DEF PermitsConserved, HalfReleased, Posting, Taken
<1>5. \A q \in Opener \ {o} : Inside(q) => opener[q].node # m
    BY <1>0, <1>1 DEF Accounted, MoveInv
<1>6. MoveInv'
  <2>1. \A q \in Opener : /\ Inside(q)' => Inside(q) /\ opener'[q].node = opener[q].node
                          /\ At(q, "posted")' => q # o /\ At(q, "posted") /\ Inside(q)
                          /\ At(q, "cleared")' => q = o \/ At(q, "cleared")
      BY <1>0, <1>1, <1>2 DEF Inside, At
  <2>2. closing.posted => closing.node # m
      BY <1>0, <1>1 DEF Accounted, MoveInv
  <2> QED
      BY <1>0, <1>1, <1>2, <1>5, <2>1, <2>2 DEF Accounted, MoveInv
<1>7. Permitted'
  <2> SUFFICES ASSUME NEW n \in vNodes, n \notin fInbound, n \notin grant'
               PROVE  \E q \in Opener : (At(q, "made")' \/ At(q, "cleared")') /\ opener'[q].node = n
      BY <1>1 DEF Permitted, fInbound
  <2>1. CASE n = m
      BY <2>1, <1>2 DEF At
  <2>2. CASE n # m
    <3>1. PICK q \in Opener : (At(q, "made") \/ At(q, "cleared")) /\ opener[q].node = n
        BY <2>2, <1>1 DEF Accounted, Permitted
    <3> QED
        BY <3>1, <1>1, <1>2 DEF At
  <2> QED
      BY <2>1, <2>2
<1> QED
    BY <1>4, <1>6, <1>7 DEF Accounted

\* the permit of the opener becomes that of the node
LEMMA TakeKeepsPermits ==
    ASSUME Inv, Accounted, NEW o \in Opener, Take(o)
    PROVE  Accounted'
<1>0. PICK m : m = opener[o].node
    OBVIOUS
<1>1. /\ UNCHANGED <<vNodes, made, addr, semOutbound, closing>>
      /\ grant' = grant \cup {m} /\ At(o, "cleared") /\ Inside(o)
    BY <1>0 DEF Take, listVars, Inside
<1>2. /\ \A q \in Opener \ {o} : opener'[q] = opener[q]
      /\ opener'[o].stage = "moved"
    BY DEF Take, Goto, Inv, TypeOK, OpenerState
<1>3. m \notin grant
    BY <1>0, <1>1 DEF Accounted, MoveInv
<1>4. PermitsConserved'
  <2>1. o \in Carrying /\ o \notin Carrying' /\ o \notin Posting /\ o \notin Posting'
      BY <1>1, <1>2 DEF At, Carrying, Posting
  <2>2. Cardinality(Carrying') = Cardinality(Carrying) - 1 /\ Posting' = Posting
      BY <1>2, <2>1, CarryingCounts, PostingCounts DEF Inv
  <2>3. Cardinality(grant') = Cardinality(grant) + 1
      BY <1>1, <1>3, PermitsFinite, FS_AddElement DEF Inv
  <2>4. Taken' = Taken
      BY <1>1 DEF Taken
  <2>5. semOutbound + Cardinality(Carrying) + Cardinality(grant)
            = MaxOutbound + (Cardinality(Posting) + Taken)
      BY Conserved DEF Accounted
  <2>6. semOutbound' + Cardinality(Carrying') + Cardinality(grant')
            = MaxOutbound + (Cardinality(Posting') + Taken')
      BY <1>1, <2>2, <2>3, <2>4, <2>5, PermitsFinite, PeersAssumption DEF Inv
  <2> QED
      BY <2>6 DEF PermitsConserved, HalfReleased, Posting, Taken
<1>5. \A q \in Opener \ {o} : Inside(q) => opener[q].node # m
    BY <1>0, <1>1 DEF Accounted, MoveInv
<1>6. MoveInv'
  <2>1. \A q \in Opener : /\ Inside(q)' => q # o /\ Inside(q) /\ opener'[q] = opener[q]
                          /\ At(q, "posted")' => At(q, "posted") /\ Inside(q)'
                          /\ At(q, "cleared")' => At(q, "cleared") /\ Inside(q)'
      BY <1>1, <1>2 DEF Inside, At
  <2> QED
      BY <1>1, <1>5, <2>1 DEF Accounted, MoveInv
<1>7. Permitted'
  <2> SUFFICES ASSUME NEW n \in vNodes, n \notin fInbound, n \notin grant'
               PROVE  \E q \in Opener : (At(q, "made")' \/ At(q, "cleared")') /\ opener'[q].node = n
      BY <1>1 DEF Permitted, fInbound
  <2>1. PICK q \in Opener : (At(q, "made") \/ At(q, "cleared")) /\ opener[q].node = n
      BY <1>1 DEF Accounted, Permitted
  <2>2. q # o
      BY <2>1, <1>0, <1>1
  <2> QED
      BY <2>1, <2>2, <1>2 DEF At
<1> QED
    BY <1>4, <1>6, <1>7 DEF Accounted

LEMMA PermitStep == PermitInv /\ [Next]_vars => PermitInv'
<1> SUFFICES ASSUME PermitInv, [Next]_vars PROVE PermitInv'
    OBVIOUS
<1>1. Inv /\ Inv'
    BY InvStep DEF PermitInv
<1>2. ASSUME Accounted, ~clashed' PROVE Accounted'
  <2>1. ASSUME NEW n \in Node, Disconnect(n) \/ Delete(n) PROVE Accounted'
      BY <1>1, <1>2, <2>1, DisconnectKeepsPermits, DeleteKeepsPermits
  <2>2. CASE FinishDisconnect
      BY <1>1, <1>2, <2>2, FinishDisconnectKeepsPermits
  <2>3. CASE Accept \/ \E o \in Opener : Connect(o)
      BY <1>1, <1>2, <2>3, NewNodesKeepPermits
  <2>4. ASSUME NEW o \in Opener, Acquire(o) \/ GiveUp(o) PROVE Accounted'
      BY <1>1, <1>2, <2>4, SemaphoreKeepsPermits
  <2>5. ASSUME NEW o \in Opener, GiveBack(o) \/ Clear(o) \/ Take(o) PROVE Accounted'
      BY <1>1, <1>2, <2>5, GiveBackKeepsPermits, ClearKeepsPermits, TakeKeepsPermits
  <2>6. CASE UNCHANGED vars
    <3>1. UNCHANGED <<vNodes, made, addr, semOutbound, grant, closing, opener>>
        BY <2>6 DEF vars
    <3> QED
        BY <1>1, <1>2, <3>1, OthersKeepPermits
  <2>7. CASE \/ \E h \in Handler : CopyNodes(h) \/ ReleaseNodes(h)
             \/ \E h \in Handler, n \in Node : Drop(h, n)
             \/ TimePasses
    <3>1. UNCHANGED <<vNodes, made, addr, semOutbound, grant, closing, opener>>
        BY <2>7 DEF CopyNodes, ReleaseNodes, Drop, TimePasses, listVars, permitVars
    <3> QED
        BY <1>1, <1>2, <3>1, OthersKeepPermits
  <2>8. ASSUME NEW o \in Opener,
               \/ ReadRef(o) \/ StoreRef(o)
               \/ \E a \in Addr : LookUp(o, a)
               \/ \E n \in Node : Find(o, n)
               \/ MarkNetworkNode(o)
        PROVE  Accounted'
    <3>1. UNCHANGED <<vNodes, made, addr, semOutbound, grant, closing>>
        BY <2>8 DEF ReadRef, StoreRef, LookUp, Find, MarkNetworkNode, listVars, permitVars
    <3>2. /\ \A q \in Opener \ {o} : opener'[q] = opener[q]
          /\ \/ /\ opener[o].stage \in {"granted", "looked", "found", "read"}
                /\ opener'[o].stage \in {"looked", "found", "read", "reused"}
             \/ opener[o].stage = "moved" /\ opener'[o].stage = "idle"
      <4>1. ASSUME NEW r, opener' = [opener EXCEPT ![o] = r]
            PROVE  opener'[o] = r /\ \A q \in Opener \ {o} : opener'[q] = opener[q]
          BY <1>1, <4>1 DEF Inv, TypeOK
      <4>2. \A s \in STRING, a \in Addr \cup {Inbound}, n \in 0..MaxNodes, c \in Int :
                /\ [opener[o] EXCEPT !.stage = s, !.addr = a].stage = s
                /\ [opener[o] EXCEPT !.stage = s, !.node = n].stage = s
                /\ [opener[o] EXCEPT !.stage = s, !.count = c].stage = s
        <5>1. opener[o] \in OpenerState
            BY <1>1 DEF Inv, TypeOK
        <5> QED
            BY <5>1 DEF OpenerState
      <4>3. CASE ReadRef(o)
        <5>1. opener[o].node \in 1..made
            BY <4>3, <1>1 DEF ReadRef, At, Pointed, Inv, PlaceInv
        <5>3. opener[o].node \in Node
            BY <1>1, <5>1, PeersAssumption DEF Inv, TypeOK, Node
        <5>2. nRefCount[opener[o].node] \in Int
            BY <1>1, <5>3 DEF Inv, TypeOK
        <5> QED
            BY <4>1, <4>2, <4>3, <5>2, PeersAssumption DEF ReadRef, Goto, At
      <4>4. CASE StoreRef(o)
          BY <4>1, <4>2, <4>4, PeersAssumption DEF StoreRef, Goto, At
      <4>5. ASSUME NEW a \in Addr, LookUp(o, a) PROVE <3>2
        <5>1. /\ opener' = [opener EXCEPT ![o] = [opener[o] EXCEPT !.stage = "looked", !.addr = a]]
              /\ opener[o].stage = "granted"
            BY <4>5 DEF LookUp, Goto, At
        <5>2. [opener[o] EXCEPT !.stage = "looked", !.addr = a].stage = "looked"
            BY <4>2
        <5> QED
            BY <4>1, <5>1, <5>2
      <4>6. ASSUME NEW n \in Node, Find(o, n) PROVE <3>2
        <5>1. n \in 0..MaxNodes
            BY PeersAssumption DEF Node
        <5> QED
            BY <4>1, <4>2, <4>6, <5>1, PeersAssumption DEF Find, Goto, At
      <4>7. CASE MarkNetworkNode(o)
          BY <4>1, <4>7 DEF MarkNetworkNode, Goto, At, Idle
      <4> QED
          BY <2>8, <4>3, <4>4, <4>5, <4>6, <4>7
    <3>3. /\ o \in Carrying <=> o \in Carrying'
          /\ ~Inside(o) /\ ~Inside(o)' /\ ~At(o, "made")
        BY <3>2 DEF Carrying, Inside, At
    <3> QED
        BY <1>1, <1>2, <3>1, <3>2, <3>3, OthersKeepPermits
  <2> QED
      BY <2>1, <2>2, <2>3, <2>4, <2>5, <2>6, <2>7, <2>8 DEF Next
<1>3. ~clashed' => ~clashed
    BY <1>1 DEF Inv, TypeOK, Next, vars, historyVars, Accept, FinishDisconnect, TimePasses, Disconnect,
       Delete, CopyNodes, ReleaseNodes, Drop, Acquire, GiveUp, ReadRef, StoreRef, Connect,
       GiveBack, Clear, Take, MarkNetworkNode, LookUp, Find
<1> QED
    BY <1>1, <1>2, <1>3 DEF PermitInv

LEMMA PermitInit == Init => PermitInv
<1> SUFFICES ASSUME Init PROVE PermitInv
    OBVIOUS
<1>1. \A o \in Opener : At(o, "idle") /\ ~Inside(o)
    BY DEF Init, Idle, At, Inside
<1>2. /\ Carrying = {} /\ Posting = {} /\ grant = {} /\ vNodes = {} /\ semOutbound = MaxOutbound
      /\ ~closing.posted
    BY <1>1 DEF Init, Carrying, Posting, At, Open
<1>3. PermitsConserved
    BY <1>2, FS_EmptySet, PeersAssumption DEF PermitsConserved, HalfReleased, Posting
<1>4. MoveInv /\ Permitted
    BY <1>1, <1>2 DEF MoveInv, Permitted, Inside
<1> QED
    BY <1>3, <1>4, InvInit DEF PermitInv, Accounted

\* the nodes whose openers have the permit are at most as many as these openers
LEMMA PermittedBounds ==
    ASSUME Inv, Accounted
    PROVE  OutboundBounded
<1> DEFINE Owners == {o \in Opener : At(o, "made") \/ At(o, "cleared")}
           Theirs == {opener[o].node : o \in Owners}
           Kept == IF closing.posted THEN grant \ {closing.node} ELSE grant
           f == [o \in Owners |-> opener[o].node]
<1>1. /\ IsFiniteSet(Owners) /\ Cardinality(Owners) \in Nat
      /\ Cardinality(Owners) + Cardinality(Posting) <= Cardinality(Carrying)
  <2>1. /\ Owners \in SUBSET Carrying /\ Posting \in SUBSET Carrying /\ Owners \cap Posting = {}
        /\ Owners \cup Posting \in SUBSET Carrying
      BY DEF Carrying, Posting, At
  <2>2. /\ IsFiniteSet(Owners) /\ IsFiniteSet(Posting) /\ IsFiniteSet(Carrying)
        /\ Cardinality(Owners) \in Nat
      BY <2>1, PermitsFinite, FS_Subset, FS_CardinalityType DEF Inv
  <2> HIDE DEF Owners
  <2>5. Cardinality(Owners \cap Posting) = 0
      BY <2>1, FS_EmptySet
  <2>3. Cardinality(Owners \cup Posting) = Cardinality(Owners) + Cardinality(Posting) - 0
      BY <2>2, <2>5, FS_Union
  <2>4. Cardinality(Owners \cup Posting) <= Cardinality(Carrying)
      BY <2>1, <2>2, FS_Subset
  <2> QED
      BY <2>2, <2>3, <2>4, PermitsFinite DEF Inv
<1>2. IsFiniteSet(Theirs) /\ Cardinality(Theirs) <= Cardinality(Owners) /\ Cardinality(Theirs) \in Nat
  <2>1. f \in Surjection(Owners, Theirs)
      BY DEF Surjection
  <2> QED
      BY <1>1, <2>1, FS_Surjection, FS_CardinalityType
<1>3. IsFiniteSet(Kept) /\ Cardinality(Kept) = Cardinality(grant) - Taken /\ Cardinality(Kept) \in Nat
  <2>1. CASE closing.posted
    <3>1. closing.node \in grant
        BY <2>1 DEF Accounted, MoveInv
    <3>2. grant \ {closing.node} \in SUBSET grant
        OBVIOUS
    <3> QED
        BY <2>1, <3>1, <3>2, PermitsFinite, FS_RemoveElement, FS_Subset, FS_CardinalityType
        DEF Taken, Inv
  <2>2. CASE ~closing.posted
      BY <2>2, PermitsFinite DEF Taken, Inv
  <2> QED
      BY <2>1, <2>2
<1>4. vNodes \ fInbound \in SUBSET (Kept \cup Theirs)
  <2>1. closing.node \notin vNodes
      BY DEF Inv, PlaceInv
  <2> QED
      BY <2>1 DEF Accounted, Permitted
<1> HIDE DEF Owners, Theirs, Kept
<1>5. /\ IsFiniteSet(Kept \cup Theirs) /\ Cardinality(Kept \cup Theirs) \in Nat
      /\ Cardinality(Kept \cup Theirs) <= Cardinality(Kept) + Cardinality(Theirs)
  <2>1. Kept \cap Theirs \in SUBSET Theirs
      OBVIOUS
  <2>2. /\ IsFiniteSet(Kept \cup Theirs)
        /\ Cardinality(Kept \cup Theirs) =
              Cardinality(Kept) + Cardinality(Theirs) - Cardinality(Kept \cap Theirs)
        /\ Cardinality(Kept \cap Theirs) \in Nat
      BY <1>2, <1>3, <2>1, FS_Union, FS_Subset, FS_CardinalityType
  <2> QED
      BY <1>2, <1>3, <2>2, FS_CardinalityType
<1>6. Cardinality(Kept \cup Theirs) <= MaxOutbound
  <2>1. semOutbound + Cardinality(Carrying) + Cardinality(grant)
            = MaxOutbound + (Cardinality(Posting) + Taken)
      BY Conserved DEF Accounted
  <2> QED
      BY <1>1, <1>2, <1>3, <1>5, <2>1, PermitsFinite, PeersAssumption DEF Inv
<1>7. Cardinality(vNodes \ fInbound) <= Cardinality(Kept \cup Theirs)
      /\ Cardinality(vNodes \ fInbound) \in Nat
    BY <1>4, <1>5, FS_Subset, FS_CardinalityType
<1> QED
    BY <1>5, <1>6, <1>7, PeersAssumption DEF OutboundBounded

-----------------------------------------------------------------------------
\* A handler and an opener never use a deleted node, although ConnectNode takes its
\* reference after it let go of the lock, unless that very AddRef was torn.
THEOREM NoUseAfterFree == Spec => []OnlyTornFrees
<1>1. Inv => OnlyTornFrees
    BY DEF Inv, UseInv, OnlyTornFrees
<1> QED
    BY <1>1, InvInit, InvStep, PTL DEF Spec

\* Type correctness of the nodes and of the threads that use them.
THEOREM TypeCorrect == Spec => []TypeOK
<1>1. Inv => TypeOK
    BY DEF Inv
<1> QED
    BY <1>1, InvInit, InvStep, PTL DEF Spec

\* No permit of semOutbound is lost or made, and the listed outbound nodes never outnumber
\* the permits, although ConnectNode lists a node before OpenNetworkConnection moves the
\* grant onto it and two openers may end up with one node; as long as no two threads
\* are in one CSemaphoreGrant at a time.
THEOREM LimitHolds == Spec => []OutboundLimited
<1>1. PermitInv => OutboundLimited
    BY PermittedBounds DEF PermitInv, Accounted, OutboundLimited
<1> QED
    BY <1>1, PermitInit, PermitStep, PTL DEF Spec
=============================================================================
