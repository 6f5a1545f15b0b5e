--------------------------- MODULE ChainStateProofs --------------------------
(***************************************************************************)
(* Safety of the best chain for every block tree, every verdict on the     *)
(* blocks, every order of arrival and any number of crashes and I/O        *)
(* failures.                                                               *)
(***************************************************************************)
EXTENDS ChainState, WellFoundedInduction, TLAPS

-----------------------------------------------------------------------------
(* The block tree                                                          *)

\* Work grows along pprev, so what holds of the genesis block and passes from a
\* block to its children holds of every block.
LEMMA BlockInd ==
    ASSUME NEW S, Genesis \in S,
           \A b \in Block \ {Genesis} : Prev[b] \in S => b \in S
    PROVE  Block \subseteq S
<1> SUFFICES ASSUME Block \ S # {} PROVE FALSE
    OBVIOUS
<1> DEFINE T == {ChainWork[b] : b \in Block \ S}
<1>1. T \subseteq Nat /\ T # {}
    BY WorkAssumption
<1>2. PICK w \in T : \A y \in T : ~(<<y, w>> \in OpToRel(<, Nat))
  <2> HIDE DEF T
  <2> QED
      BY <1>1, NatLessThanWellFounded, WFMin
<1>3. OpToRel(<, Nat) = {ss \in Nat \X Nat : ss[1] < ss[2]}
    BY Zenon DEF OpToRel
<1>4. \A y \in T : ~(y < w)
  <2> HIDE DEF T
  <2>1. \A y \in T : ~(<<y, w>> \in {ss \in Nat \X Nat : ss[1] < ss[2]})
      BY <1>2, <1>3, Zenon
  <2>2. w \in Nat /\ \A y \in T : y \in Nat
      BY <1>1, <1>2
  <2> QED
      BY <2>1, <2>2
<1>5. PICK b \in Block \ S : ChainWork[b] = w
    BY <1>2
<1>6. b \in Block \ {Genesis} /\ Prev[b] \in Block /\ Prev[b] \notin S
    BY <1>5, PrevAssumption
<1>7. ChainWork[Prev[b]] \in T /\ ChainWork[b] > ChainWork[Prev[b]]
    BY <1>6, WorkAssumption
<1>8. ChainWork[Prev[b]] \in Nat /\ ChainWork[b] \in Nat
    BY <1>6, WorkAssumption
<1> QED
    BY <1>4, <1>5, <1>7, <1>8

\* The path from the genesis block to b: ancestors of an ancestor are ancestors,
\* two ancestors lie on one path, an ancestor has no more work, and the path
\* continues from a proper ancestor to one of its children.
PathTo(b) ==
    /\ Genesis \in Ancestors[b]
    /\ \A a \in Ancestors[b] : /\ Ancestors[a] \subseteq Ancestors[b]
                               /\ ChainWork[a] <= ChainWork[b]
    /\ \A a, c \in Ancestors[b] : a \in Ancestors[c] \/ c \in Ancestors[a]
    /\ \A a \in Ancestors[b] \ {b} : \E c \in Ancestors[b] : Prev[c] = a

LEMMA PathInd == \A b \in Block : PathTo(b)
<1> DEFINE S == {b \in Block : b \in Ancestors[b] /\ PathTo(b)}
<1>1. Genesis \in S
    BY AncestorsAssumption, BlockAssumption, WorkAssumption DEF PathTo
<1>2. ASSUME NEW b \in Block \ {Genesis}, Prev[b] \in S PROVE b \in S
  <2>1. /\ Ancestors[b] = Ancestors[Prev[b]] \cup {b}
        /\ Prev[b] \in Block /\ Prev[b] \in Ancestors[Prev[b]] /\ PathTo(Prev[b])
        /\ ChainWork[b] > ChainWork[Prev[b]]
      BY <1>2, AncestorsAssumption, WorkAssumption
  <2>2. Ancestors[b] \subseteq Block /\ ChainWork \in [Block -> Nat]
      BY AncestorsAssumption, WorkAssumption
  <2>3. ASSUME NEW a \in Ancestors[b]
        PROVE  Ancestors[a] \subseteq Ancestors[b] /\ ChainWork[a] <= ChainWork[b]
    <3>1. CASE a = b
        BY <3>1, <2>2
    <3>2. CASE a \in Ancestors[Prev[b]]
      <4>1. Ancestors[a] \subseteq Ancestors[Prev[b]] /\ ChainWork[a] <= ChainWork[Prev[b]]
          BY <3>2, <2>1 DEF PathTo
      <4>2. ChainWork[a] \in Nat /\ ChainWork[b] \in Nat /\ ChainWork[Prev[b]] \in Nat
          BY <2>1, <2>2
      <4> QED
          BY <4>1, <4>2, <2>1
    <3> QED
        BY <3>1, <3>2, <2>1
  <2>4. \A a, c \in Ancestors[b] : a \in Ancestors[c] \/ c \in Ancestors[a]
      BY <2>1 DEF PathTo
  <2>5. ASSUME NEW a \in Ancestors[b] \ {b}
        PROVE  \E c \in Ancestors[b] : Prev[c] = a
    <3>1. CASE a = Prev[b]
        BY <3>1, <2>1
    <3>2. CASE a # Prev[b]
      <4>1. a \in Ancestors[Prev[b]] \ {Prev[b]}
          BY <3>2, <2>1
      <4>2. PICK c \in Ancestors[Prev[b]] : Prev[c] = a
          BY <4>1, <2>1 DEF PathTo
      <4> QED
          BY <4>2, <2>1
    <3> QED
        BY <3>1, <3>2
  <2>6. PathTo(b)
      BY <2>1, <2>3, <2>4, <2>5 DEF PathTo
  <2> QED
      BY <2>1, <2>6
<1>3. Block \subseteq S
  <2> HIDE DEF S
  <2> QED
      BY <1>1, <1>2, BlockInd
<1> QED
    BY <1>3

LEMMA PathFacts ==
    \A b \in Block :
        /\ Genesis \in Ancestors[b]
        /\ \A a \in Ancestors[b] : /\ Ancestors[a] \subseteq Ancestors[b]
                                   /\ ChainWork[a] <= ChainWork[b]
        /\ \A a, c \in Ancestors[b] : a \in Ancestors[c] \/ c \in Ancestors[a]
        /\ \A a \in Ancestors[b] \ {b} : \E c \in Ancestors[b] : Prev[c] = a
    BY PathInd DEF PathTo

\* Every block but the genesis block has a parent, which is a proper ancestor.
LEMMA ParentFacts ==
    ASSUME NEW b \in Block \ {Genesis}
    PROVE  /\ Prev[b] \in Block /\ Prev[b] # b
           /\ b \in Ancestors[b] /\ Prev[b] \in Ancestors[b]
           /\ Ancestors[b] = Ancestors[Prev[b]] \cup {b}
           /\ b \notin Ancestors[Prev[b]]
           /\ ChainWork[b] > ChainWork[Prev[b]]
<1>1. Prev[b] \in Block
    BY PrevAssumption
<1>2. Prev[b] \in Ancestors[Prev[b]]
    BY <1>1, AncestorsAssumption
<1>3. ChainWork[b] > ChainWork[Prev[b]] /\ ChainWork[b] \in Nat /\ ChainWork[Prev[b]] \in Nat
    BY <1>1, WorkAssumption
<1>4. b \notin Ancestors[Prev[b]]
    BY <1>1, <1>3, PathFacts
<1> QED
    BY <1>1, <1>2, <1>3, <1>4, AncestorsAssumption

\* A block is one of its own ancestors, as CBlockIndex pointers are walked.
LEMMA SelfAncestor ==
    ASSUME NEW b \in Block
    PROVE  b \in Ancestors[b] /\ Ancestors[b] \subseteq Block
    BY ParentFacts, AncestorsAssumption

\* Two blocks that are ancestors of each other are the same block.
LEMMA Antisymmetry ==
    ASSUME NEW a \in Block, NEW b \in Block,
           a \in Ancestors[b], b \in Ancestors[a]
    PROVE  a = b
<1> SUFFICES ASSUME a # b PROVE FALSE
    OBVIOUS
<1>1. b # Genesis
    BY AncestorsAssumption
<1>2. a \in Ancestors[Prev[b]] /\ Prev[b] \in Block
    BY <1>1, ParentFacts
<1>3. b \in Ancestors[Prev[b]]
    BY <1>2, PathFacts
<1> QED
    BY <1>1, <1>3, ParentFacts

\* The parent of an ancestor is an ancestor.
LEMMA ParentOfAncestor ==
    ASSUME NEW b \in Block, NEW a \in Ancestors[b], a # Genesis
    PROVE  a \in Block /\ Prev[a] \in Ancestors[b]
    BY SelfAncestor, ParentFacts, PathFacts

\* On the path to a block, a parent has one child.
LEMMA OnlyChild ==
    ASSUME NEW b \in Block, NEW a \in Branch(b), NEW c \in Branch(b),
           Prev[a] = Prev[c]
    PROVE  a = c
<1> SUFFICES ASSUME a # c PROVE FALSE
    OBVIOUS
<1>1. a \in Block \ {Genesis} /\ c \in Block \ {Genesis}
    BY SelfAncestor DEF Branch
<1>2. a \in Ancestors[c] \/ c \in Ancestors[a]
    BY PathFacts DEF Branch
<1> QED
    BY <1>1, <1>2, ParentFacts

\* The child of a proper ancestor on the path to the block is in its branch.
LEMMA ChildOnPath ==
    ASSUME NEW b \in Block, NEW a \in Ancestors[b], a # b
    PROVE  \E c \in Branch(b) : Prev[c] = a /\ c \notin Ancestors[a]
<1>1. PICK c \in Ancestors[b] : Prev[c] = a
    BY PathFacts
<1>2. c \in Block /\ a \in Block
    BY SelfAncestor
<1>3. c # Genesis
    BY <1>1, <1>2, PrevAssumption, BlockAssumption
<1> QED
    BY <1>1, <1>2, <1>3, ParentFacts DEF Branch

-----------------------------------------------------------------------------
(* The pnext pointers                                                      *)

\* link follows the path from the genesis block to tip, and nothing else
Linked(link, tip) ==
    /\ \A b \in Block : link[b] # NoBlock <=> b \in Ancestors[tip] \ {tip}
    /\ \A b \in Branch(tip) : link[Prev[b]] = b

\* The edits keep pnext a function into blocks and the null pointer.
LEMMA RelinkedType ==
    ASSUME NEW link \in Link, NEW D \in SUBSET Block, NEW C \in SUBSET Block
    PROVE  /\ Relinked(link, D, C) \in Link
           /\ Unlinked(link, D) \in Link /\ LinkedTo(link, C) \in Link
    BY DEF Relinked, Unlinked, LinkedTo, Link

\* The two loops over the entries in memory, one after the other, do what the
\* transaction did to the records; a loop over no block does nothing.
LEMMA LoopsFollowRecords ==
    ASSUME NEW link \in Link, NEW D \in SUBSET Block, NEW C \in SUBSET Block
    PROVE  /\ LinkedTo(Unlinked(link, D), C) = Relinked(link, D, C)
           /\ Unlinked(link, {}) = link /\ LinkedTo(link, {}) = link
<1>1. LinkedTo(Unlinked(link, D), C) = Relinked(link, D, C)
    BY DEF LinkedTo, Unlinked, Relinked
<1>2. Unlinked(link, {}) = link
    BY DEF Unlinked, Link
<1>3. LinkedTo(link, {}) = link
    BY DEF LinkedTo, Link
<1> QED
    BY <1>1, <1>2, <1>3

\* What Reorganize does to pnext moves the links from the path of one tip to
\* the path of another: the heart of IsInMainChain.
LEMMA RelinkedMovesPath ==
    ASSUME NEW p \in Block, NEW t \in Block, NEW link \in Link, Linked(link, p)
    PROVE  Linked(Relinked(link, Ancestors[p] \ Ancestors[t],
                                 Ancestors[t] \ Ancestors[p]), t)
<1> DEFINE D == Ancestors[p] \ Ancestors[t]
           C == Ancestors[t] \ Ancestors[p]
           R == Relinked(link, D, C)
<1>1. /\ D \subseteq Branch(p) /\ C \subseteq Branch(t)
      /\ Branch(p) \subseteq Block \ {Genesis} /\ Branch(t) \subseteq Block \ {Genesis}
    BY SelfAncestor, PathFacts DEF Branch
<1>2. ASSUME NEW c \in C PROVE R[Prev[c]] = c
  <2>1. Prev[c] \in Block
      BY <1>1, ParentFacts
  <2>2. \A x \in C : Prev[x] = Prev[c] => x = c
      BY <1>1, OnlyChild
  <2> QED
      BY <2>1, <2>2 DEF Relinked
<1>3. ASSUME NEW c \in Branch(t), c \notin C PROVE R[Prev[c]] = c
  <2>1. c \in Branch(p) /\ Prev[c] \in Block
      BY <1>1, <1>3, ParentFacts DEF Branch
  <2>2. \A x \in C : Prev[x] # Prev[c]
      BY <1>1, <1>3, OnlyChild
  <2>3. \A x \in D : Prev[x] # Prev[c]
      BY <1>1, <2>1, OnlyChild DEF Branch
  <2>4. link[Prev[c]] = c
      BY <2>1 DEF Linked
  <2> QED
      BY <2>1, <2>2, <2>3, <2>4 DEF Relinked
<1>4. \A b \in Branch(t) : R[Prev[b]] = b
    BY <1>2, <1>3
<1>5. ASSUME NEW b \in Ancestors[t], b # t PROVE R[b] # NoBlock
  <2>1. PICK c \in Branch(t) : Prev[c] = b
      BY <1>5, ChildOnPath
  <2> QED
      BY <2>1, <1>1, <1>4, BlockAssumption
<1>6. ASSUME NEW b \in Block, R[b] # NoBlock PROVE b \in Ancestors[t] \ {t}
  <2>1. CASE \E c \in C : Prev[c] = b
    <3>1. PICK c \in C : Prev[c] = b
        BY <2>1
    <3>2. c \in Block /\ b \in Ancestors[t] /\ c \notin Ancestors[b]
        BY <3>1, <1>1, ParentOfAncestor, ParentFacts DEF Branch
    <3> QED
        BY <3>2 DEF Branch
  <2>2. CASE ~ \E c \in C : Prev[c] = b
    <3>1. link[b] # NoBlock /\ ~ \E d \in D : Prev[d] = b
        BY <1>6, <2>2 DEF Relinked
    <3>2. b \in Ancestors[p] /\ b # p
        BY <3>1 DEF Linked
    <3>3. PICK c \in Branch(p) : Prev[c] = b /\ c \notin Ancestors[b]
        BY <3>2, ChildOnPath
    <3>4. c \in Ancestors[t]
        BY <3>1, <3>3 DEF Branch
    <3>5. b \in Ancestors[t]
        BY <3>3, <3>4, <1>1, ParentOfAncestor
    <3> QED
        BY <3>3, <3>4, <3>5
  <2> QED
      BY <2>1, <2>2
<1> QED
    BY <1>4, <1>5, <1>6, SelfAncestor DEF Linked

\* Connecting one block on top of the tip is the case of a one-block branch.
LEMMA ExtensionAsReorganisation ==
    ASSUME NEW c \in Block \ {Genesis}
    PROVE  /\ Ancestors[c] \ Ancestors[Prev[c]] = {c}
           /\ Ancestors[Prev[c]] \ Ancestors[c] = {}
    BY ParentFacts

-----------------------------------------------------------------------------
(* Type correctness                                                        *)

JobType == [stage : {"idle", "best", "secondary", "orphans", "lost"},
            block : Block \cup {NoBlock}, todo : SUBSET (Block \ {Genesis}),
            cut : SUBSET Block, add : SUBSET Block, queue : Seq(Block)]

\* A finished AcceptBlock leaves a well-formed job, on every path.
LEMMA JobTypes ==
    ASSUME TypeOK
    PROVE  /\ Idle \in JobType /\ Idle.stage = "idle"
           /\ Declined \in JobType /\ Declined.stage \in {"idle", "orphans"}
           /\ \A b \in Block : /\ Accepted(b) \in JobType
                               /\ Accepted(b).stage = "orphans"
                               /\ Accepted(b).cut = job.cut
                               /\ Accepted(b).add = job.add
           /\ Idle.cut = {} /\ Idle.add = {}
           /\ MemoryEdited => Declined.cut = {} /\ Declined.add = {}
           /\ [Idle EXCEPT !.stage = "lost"] \in JobType
<1>1. job \in JobType
    BY DEF TypeOK, JobType
<1>2. \A b \in Block : Append(job.queue, b) \in Seq(Block)
    BY <1>1 DEF JobType
<1>3. <<>> \in Seq(Block)
    OBVIOUS
<1>4. Idle \in JobType
    BY <1>3 DEF JobType, Idle
<1>5. [Idle EXCEPT !.stage = "lost"] \in JobType
    BY <1>4 DEF JobType
<1>6. Idle.cut = {} /\ Idle.add = {} /\ Idle.stage = "idle"
    BY DEF Idle
<1>7. ASSUME job.queue # <<>>
      PROVE  /\ Declined \in JobType /\ Declined.stage = "orphans"
             /\ Declined.cut = job.cut /\ Declined.add = job.add
    BY <1>1, <1>7 DEF JobType, Declined
<1>8. job.queue = <<>> => Declined = Idle
    BY DEF Declined
<1>9. \A b \in Block : /\ Accepted(b) \in JobType /\ Accepted(b).stage = "orphans"
                       /\ Accepted(b).cut = job.cut /\ Accepted(b).add = job.add
    BY <1>1, <1>2 DEF JobType, Accepted
<1> QED
    BY <1>4, <1>5, <1>6, <1>7, <1>8, <1>9 DEF MemoryEdited

DiskType == [index : SUBSET Block, next : Link, best : Block, applied : SUBSET Block]

\* The committed records stay well formed under the edit of a reorganisation.
LEMMA RewrittenType ==
    ASSUME TypeOK, NEW D \in SUBSET Block, NEW C \in SUBSET Block, NEW t \in Block,
           Genesis \notin D \cup C
    PROVE  /\ Rewritten(D, C, t) \in DiskType
           /\ Rewritten(D, C, t).index = Recorded(D, C)
           /\ Rewritten(D, C, t).next = Relinked(disk.next, D, C)
           /\ Rewritten(D, C, t).best = t
           /\ Rewritten(D, C, t).applied = (disk.applied \ D) \cup C
<1>1. disk \in DiskType
    BY DEF TypeOK, DiskType
<1>2. Relinked(disk.next, D, C) \in Link
    BY <1>1, RelinkedType DEF DiskType
<1>3. Recorded(D, C) \subseteq Block
    BY <1>1, PrevAssumption DEF Recorded, DiskType
<1> QED
    BY <1>1, <1>2, <1>3 DEF Rewritten, DiskType

\* The wallets only ever see more blocks.
LEMMA WalletTypes ==
    ASSUME TypeOK, NEW C \in SUBSET Block
    PROVE  /\ Synced(C) \in [synced : SUBSET Block, locator : Block]
           /\ Synced(C).synced = wallet.synced \cup C
           /\ Synced(C).locator = wallet.locator
    BY DEF TypeOK, Synced

\* A failed connection changes nothing but the wallets, the fault count and
\* bnBestInvalidWork.
LEMMA FailureTypes ==
    ASSUME TypeOK, NEW base, NEW C \in SUBSET Block, NEW b \in Block,
           ConnectFails(base, C), FailureRecorded(b)
    PROVE  /\ wallet' \in [synced : SUBSET Block, locator : Block]
           /\ wallet.synced \subseteq wallet'.synced
           /\ glitches' \in 0..MaxGlitches
           /\ invalidWork' \in Nat
<1>1. Prefixes(C) \subseteq SUBSET Block
    BY SelfAncestor DEF Prefixes
<1>2. PICK done \in Prefixes(C) : wallet' = Synced(done)
    BY DEF ConnectFails
<1>3. glitches' = glitches \/ Glitch
    BY DEF ConnectFails
<1>4. glitches' \in 0..MaxGlitches
    BY <1>3, BoundAssumption DEF TypeOK, Glitch
<1>5. RecordInvalid(b) \in Nat
    BY WorkAssumption DEF TypeOK, RecordInvalid
<1> QED
    BY <1>1, <1>2, <1>4, <1>5, WalletTypes DEF FailureRecorded, TypeOK

\* AcceptBlock keeps the index, the records and the job well formed.
LEMMA AcceptBlockType ==
    ASSUME TypeOK, NEW b \in Block \ {Genesis}, AcceptBlock(b)
    PROVE  /\ index' \subseteq Block /\ index \subseteq index'
           /\ job' \in JobType
           /\ job'.stage \in {"best", "secondary"} => job'.block \in index' \ {Genesis}
           /\ disk' \in DiskType
           /\ glitches' \in 0..MaxGlitches
<1>1. job \in JobType /\ disk \in DiskType
    BY DEF TypeOK, JobType, DiskType
<1>2. [job EXCEPT !.stage = "best", !.block = b, !.todo = {}] \in JobType
    BY <1>1 DEF JobType
<1>3. CASE /\ b \notin index /\ b \in Acceptable /\ Prev[b] \in index
           /\ index' = index \cup {b}
           /\ disk' = [disk EXCEPT !.index = @ \cup {b}, !.next[b] = NoBlock]
           /\ job' = IF HasMoreWork(b)
                     THEN [job EXCEPT !.stage = "best", !.block = b, !.todo = {}]
                     ELSE Accepted(b)
           /\ UNCHANGED glitches
  <2>1. disk' \in DiskType
      BY <1>1, <1>3 DEF DiskType, Link
  <2>2. job' \in JobType
      BY <1>2, <1>3, JobTypes
  <2>3. job'.stage \in {"best", "secondary"} => job'.block = b
      BY <1>1, <1>3, JobTypes DEF JobType
  <2> QED
      BY <1>3, <2>1, <2>2, <2>3 DEF TypeOK
<1>4. CASE job' = Declined /\ UNCHANGED <<index, disk>>
           /\ (UNCHANGED glitches \/ Glitch)
    BY <1>1, <1>4, JobTypes, BoundAssumption DEF TypeOK, Glitch
<1>5. CASE job' = Declined /\ index' = index \cup {b} /\ UNCHANGED disk /\ Glitch
    BY <1>1, <1>5, JobTypes, BoundAssumption DEF TypeOK, Glitch
<1> QED
    BY <1>3, <1>4, <1>5 DEF AcceptBlock

\* Every initial state is well formed.
LEMMA InitType == Init => TypeOK
<1> SUFFICES ASSUME Init PROVE TypeOK
    OBVIOUS
<1>1. [b \in Block |-> NoBlock] \in Link
    BY DEF Link
<1>2. disk \in DiskType
    BY <1>1, BlockAssumption DEF Init, DiskType
<1>3. job \in JobType /\ job.stage = "idle"
  <2>1. <<>> \in Seq(Block)
      OBVIOUS
  <2> QED
      BY <2>1 DEF Init, Idle, JobType
<1>4. wallet \in [synced : SUBSET Block, locator : Block]
    BY BlockAssumption DEF Init
<1>5. index \subseteq Block /\ next \in Link /\ best \in Block /\ orphans \subseteq Block
    BY <1>1, BlockAssumption DEF Init
<1>6. /\ invalidWork \in Nat /\ skewed \in BOOLEAN
      /\ crashes \in 0..MaxCrashes /\ glitches \in 0..MaxGlitches
  <2>1. invalidWork = 0 /\ crashes = 0 /\ glitches = 0
      BY DEF Init
  <2>2. skewed \in BOOLEAN
      BY DEF Init
  <2>3. 0 \in Nat /\ 0 \in 0..MaxCrashes /\ 0 \in 0..MaxGlitches
      BY BoundAssumption
  <2> QED
      BY <2>1, <2>2, <2>3
<1> QED
    BY <1>2, <1>3, <1>4, <1>5, <1>6 DEF TypeOK, DiskType, JobType

\* Every step of the node keeps the state well formed.
LEMMA NextType == TypeOK /\ [Next]_vars => TypeOK'
<1> SUFFICES ASSUME TypeOK, [Next]_vars PROVE TypeOK'
    OBVIOUS
<1>1. job \in JobType /\ disk \in DiskType
    BY DEF TypeOK, JobType, DiskType
<1>2. ASSUME NEW b \in Block, ProcessBlock(b) PROVE TypeOK'
  <2>1. CASE Prev[b] \in index
    <3>1. b # Genesis
        BY <2>1, PrevAssumption, BlockAssumption DEF TypeOK
    <3>2. AcceptBlock(b) /\ UNCHANGED orphans
        BY <1>2, <2>1 DEF ProcessBlock
    <3> QED
        BY <3>1, <3>2, <1>2, AcceptBlockType
        DEF ProcessBlock, TypeOK, JobType, DiskType
  <2>2. CASE Prev[b] \notin index
      BY <1>2, <2>2 DEF ProcessBlock, TypeOK
  <2> QED
      BY <2>1, <2>2
<1>3. ASSUME NEW b \in Block, ProcessOrphan(b) PROVE TypeOK'
  <2>1. b # Genesis
      BY <1>1, <1>3, PrevAssumption, BlockAssumption DEF ProcessOrphan, JobType
  <2> QED
      BY <2>1, <1>3, AcceptBlockType DEF ProcessOrphan, TypeOK, JobType, DiskType
<1>4. CASE NextInQueue
  <2>1. Tail(job.queue) \in Seq(Block)
      BY <1>1, <1>4 DEF NextInQueue, JobType
  <2>2. job' \in JobType /\ job'.stage \in {"idle", "orphans"}
      BY <1>1, <1>4, <2>1, JobTypes DEF NextInQueue, JobType
  <2> QED
      BY <1>4, <2>2 DEF NextInQueue, memory, faults, TypeOK, JobType
<1>5. ASSUME NEW t \in Block, Reorganize(t) PROVE TypeOK'
  <2>1. /\ job.block \in index \ {Genesis} /\ job.block \in Block /\ best \in Block
      BY <1>5 DEF Reorganize, TypeOK
  <2>2. /\ Disconnected(t) \subseteq Block /\ Connected(t) \subseteq Block
        /\ Ancestors[job.block] \ Ancestors[t] \subseteq Block \ {Genesis}
        /\ Genesis \notin Disconnected(t) \cup Connected(t)
      BY <2>1, SelfAncestor, PathFacts DEF Disconnected, Connected
  <2>3. disk' \in DiskType
      BY <1>5, <2>2, RewrittenType DEF Reorganize
  <2>5. wallet' \in [synced : SUBSET Block, locator : Block]
      BY <1>5, <2>2, WalletTypes DEF Reorganize
  <2>6. job' \in JobType /\ job'.block = job.block
      BY <1>1, <1>5, <2>2 DEF Reorganize, JobType
  <2> QED
      BY <1>5, <2>1, <2>3, <2>5, <2>6
      DEF Reorganize, memory, faults, TypeOK, JobType, DiskType
<1>12. CASE UnlinkMemory
  <2>1. job' \in JobType /\ job'.block = job.block /\ job'.stage = job.stage
      BY <1>1, <1>12 DEF UnlinkMemory, JobType
  <2>2. next' \in Link
      BY <1>1, <1>12, RelinkedType DEF UnlinkMemory, TypeOK, JobType
  <2> QED
      BY <1>12, <2>1, <2>2 DEF UnlinkMemory, faults, TypeOK, JobType
<1>13. CASE LinkMemory
  <2>1. job' \in JobType /\ job'.block = job.block /\ job'.stage = job.stage
      BY <1>1, <1>13 DEF LinkMemory, JobType
  <2>2. next' \in Link
      BY <1>1, <1>13, RelinkedType DEF LinkMemory, TypeOK, JobType
  <2> QED
      BY <1>13, <2>1, <2>2 DEF LinkMemory, faults, TypeOK, JobType
<1>6. ASSUME NEW t \in Block, ReorganizeFails(t) PROVE TypeOK'
  <2>1. job.block \in Block /\ Connected(t) \subseteq Block
      BY <1>6, SelfAncestor DEF ReorganizeFails, TypeOK, Connected
  <2> QED
      BY <1>6, <2>1, FailureTypes, JobTypes
      DEF ReorganizeFails, memory, TypeOK, JobType
<1>10. ASSUME NEW c \in Block, ConnectSecondary(c) PROVE TypeOK'
  <2>1. {c} \subseteq Block /\ {} \subseteq Block /\ Genesis \notin {} \cup {c}
      BY <1>1, <1>10 DEF ConnectSecondary, NextSecondary, JobType
  <2>2. disk' \in DiskType
      BY <1>10, <2>1, RewrittenType DEF ConnectSecondary
  <2>4. wallet' \in [synced : SUBSET Block, locator : Block]
      BY <1>10, <2>1, WalletTypes DEF ConnectSecondary
  <2>5. job' \in JobType /\ job'.block = job.block /\ job.stage = "secondary"
      BY <1>1, <1>10 DEF ConnectSecondary, NextSecondary, JobType
  <2> QED
      BY <1>10, <2>2, <2>4, <2>5
      DEF ConnectSecondary, memory, faults, TypeOK, JobType, DiskType
<1>11. ASSUME NEW c \in Block, SecondaryFails(c) PROVE TypeOK'
  <2>1. /\ wallet' \in [synced : SUBSET Block, locator : Block]
        /\ glitches' \in 0..MaxGlitches /\ invalidWork' \in Nat
    <3>1. {c} \subseteq Block
        OBVIOUS
    <3> QED
        BY <1>11, <3>1, FailureTypes DEF SecondaryFails
  <2>2. job' \in JobType /\ job'.block = job.block /\ job.stage = "secondary"
      BY <1>1, <1>11 DEF SecondaryFails, NextSecondary, JobType
  <2> QED
      BY <1>11, <2>1, <2>2 DEF SecondaryFails, memory, TypeOK, JobType
<1>7. CASE NewBestBlock
  <2>1. job.block \in Block
      BY <1>7 DEF NewBestBlock, TypeOK
  <2>2. wallet' \in [synced : SUBSET Block, locator : Block]
      BY <1>7, <2>1 DEF NewBestBlock, TypeOK
  <2>3. job' \in JobType /\ job'.stage = "orphans"
      BY <1>7, <2>1, JobTypes DEF NewBestBlock
  <2> QED
      BY <1>7, <2>1, <2>2, <2>3 DEF NewBestBlock, faults, TypeOK, JobType
<1>8. CASE CrashAndRestart
  <2>1. Rescanned \subseteq Block
      BY <1>1, SelfAncestor DEF Rescanned, DiskType
  <2>2. wallet' \in [synced : SUBSET Block, locator : Block]
      BY <1>8, <2>1, WalletTypes DEF CrashAndRestart, TypeOK
  <2>3. job' \in JobType /\ job'.stage \in {"idle", "lost"}
    <3>1. [Idle EXCEPT !.stage = "lost"].stage = "lost"
        BY DEF Idle
    <3> QED
        BY <1>8, <3>1, JobTypes DEF CrashAndRestart
  <2> QED
      BY <1>1, <1>8, <2>2, <2>3, BoundAssumption
      DEF CrashAndRestart, TypeOK, JobType, DiskType
<1>9. CASE UNCHANGED vars
    BY <1>9 DEF vars, TypeOK
<1> QED
    BY <1>2, <1>3, <1>4, <1>5, <1>6, <1>7, <1>8, <1>9, <1>10, <1>11,
       <1>12, <1>13 DEF Next, Step

\* Type correctness of the chain state.
THEOREM TypeCorrect == Spec => []TypeOK
    BY InitType, NextType, PTL DEF Spec

-----------------------------------------------------------------------------
(* The inductive invariant                                                 *)

\* Every record has its entry in memory, which is all there is unless an I/O
\* failure kept a record from being written; a block with a successor has a record.
RecordsInv ==
    /\ Genesis \in disk.index /\ disk.index \subseteq index
    /\ glitches = 0 => index = disk.index
    /\ \A b \in Block \ disk.index : disk.next[b] = NoBlock

\* What the two loops have still to do turns the links in memory into the
\* committed ones, and nothing is left to do outside SetBestChain.
LinksInv ==
    /\ LinkedTo(Unlinked(next, job.cut), job.add) = disk.next
    /\ job.stage # "secondary" => MemoryEdited

\* Unless a restart found a block without a record, the index is closed under
\* pprev and holds every block that the other variables name.
IndexInv ==
    /\ RecordsInv /\ LinksInv
    /\ job.stage = "lost" => glitches # 0
    /\ job.stage # "lost" =>
          /\ best \in index /\ disk.best \in index
          /\ \A b \in index : Ancestors[b] \subseteq index

\* How far the database is ahead of, or behind, the pointers in memory at each
\* stage of SetBestChain.
ProgressInv ==
    /\ job.stage # "secondary" => ChainWork[disk.best] <= ChainWork[best]
    /\ job.stage = "best" => ChainWork[job.block] > ChainWork[best]
    /\ job.stage = "secondary" =>
          /\ disk.best \in Ancestors[job.block]
          /\ \/ job.todo = Ancestors[job.block] \ Ancestors[disk.best]
             \/ skewed /\ job.todo = {}

\* What the database and the wallets hold as long as nothing was skipped.
LedgerInv ==
    ~skewed =>
        /\ job.stage # "secondary" => best = disk.best
        /\ disk.applied = Branch(disk.best)
        /\ ChainValid(disk.best)
        /\ Linked(disk.next, disk.best)
        /\ Branch(disk.best) \subseteq wallet.synced

IInv == TypeOK /\ IndexInv /\ ProgressInv /\ LedgerInv

\* What the intermediate block and the blocks it postpones are, in the tree.
LEMMA IntermediateFacts ==
    ASSUME TypeOK, IndexInv, ProgressInv, job.stage = "best",
           NEW t \in Block, Intermediate(job.block, t)
    PROVE  /\ t # Genesis /\ t \in Ancestors[job.block] /\ t \in index
           /\ ChainWork[t] > ChainWork[best]
           /\ Ancestors[t] \subseteq index
<1>1. job.block \in index /\ index \subseteq Block
    BY DEF TypeOK
<1> QED
    BY <1>1 DEF Intermediate, Branch, IndexInv, ProgressInv

\* The block that the loop over vpindexSecondary connects sits on the committed
\* tip.
LEMMA SecondaryFacts ==
    ASSUME TypeOK, IndexInv, ProgressInv, NEW c \in Block, NextSecondary(c)
    PROVE  /\ c # Genesis /\ c \in Ancestors[job.block] /\ c \in index
           /\ Prev[c] = disk.best
           /\ job.todo \ {c} = Ancestors[job.block] \ Ancestors[c]
<1>1. /\ job.block \in index /\ index \subseteq Block /\ job.block \in Block
      /\ disk.best \in Block
    BY DEF NextSecondary, TypeOK
<1>2. /\ disk.best \in Ancestors[job.block]
      /\ job.todo = Ancestors[job.block] \ Ancestors[disk.best]
    BY DEF NextSecondary, ProgressInv
<1>3. c \in Ancestors[job.block] /\ c \notin Ancestors[disk.best] /\ c \in index
    BY <1>1, <1>2 DEF NextSecondary, IndexInv
<1>4. c # Genesis
    BY <1>1, <1>3, PathFacts
<1>5. Prev[c] \in Ancestors[c] /\ Prev[c] \in Ancestors[job.block] /\ Prev[c] # c
      /\ Prev[c] \in Block
    BY <1>1, <1>3, <1>4, ParentFacts, ParentOfAncestor
<1>6. Prev[c] \in Ancestors[disk.best]
    BY <1>2, <1>5 DEF NextSecondary
<1>7. disk.best \in Ancestors[c] /\ disk.best # c
    BY <1>1, <1>2, <1>3, PathFacts, SelfAncestor
<1>8. disk.best \in Ancestors[Prev[c]]
    BY <1>4, <1>7, ParentFacts
<1>9. Prev[c] = disk.best
    BY <1>1, <1>5, <1>6, <1>8, Antisymmetry
<1>10. Ancestors[c] = Ancestors[disk.best] \cup {c}
    BY <1>4, <1>9, ParentFacts
<1> QED
    BY <1>2, <1>3, <1>4, <1>9, <1>10

\* Outside SetBestChain the links in memory are the committed ones.
LEMMA LinksSettled ==
    ASSUME TypeOK, IndexInv, MemoryEdited
    PROVE  next = disk.next
<1>1. next \in Link /\ job.cut = {} /\ job.add = {}
    BY DEF TypeOK, MemoryEdited
<1>2. Unlinked(next, {}) = next /\ LinkedTo(next, {}) = next
    BY <1>1, LoopsFollowRecords
<1> QED
    BY <1>1, <1>2 DEF IndexInv, LinksInv

\* The four ways AcceptBlock ends, as the invariant sees them.
LEMMA AcceptBlockFacts ==
    ASSUME TypeOK, IndexInv, NEW b \in Block \ {Genesis}, AcceptBlock(b),
           job.stage \in {"idle", "orphans"}
    PROVE  /\ job'.cut = {} /\ job'.add = {}
           /\ \/ /\ b \notin index /\ b \in Acceptable /\ Prev[b] \in index
                 /\ index' = index \cup {b} /\ glitches' = glitches
                 /\ disk'.index = disk.index \cup {b} /\ disk'.next = disk.next
                 /\ disk'.best = disk.best /\ disk'.applied = disk.applied
                 /\ \/ /\ job'.stage = "best" /\ job'.block = b
                       /\ ChainWork[b] > ChainWork[best]
                    \/ job'.stage = "orphans"
              \/ /\ b \notin index /\ b \in Acceptable /\ Prev[b] \in index
                 /\ index' = index \cup {b} /\ glitches' # 0 /\ UNCHANGED disk
                 /\ job'.stage \in {"idle", "orphans"}
              \/ /\ UNCHANGED <<index, disk>> /\ (glitches = 0 \/ glitches' # 0)
                 /\ job'.stage \in {"idle", "orphans"}
<1>1. disk \in DiskType /\ job \in JobType /\ glitches \in Nat
    BY BoundAssumption DEF TypeOK, DiskType, JobType
<1>0. MemoryEdited /\ job.cut = {} /\ job.add = {}
    BY DEF IndexInv, LinksInv, MemoryEdited
<1>9. Glitch => glitches' # 0
    BY <1>1 DEF Glitch
<1>2. CASE job' = Declined /\ UNCHANGED <<index, disk>> /\ (UNCHANGED glitches \/ Glitch)
    BY <1>0, <1>2, <1>9, JobTypes
<1>4. CASE /\ b \notin index /\ b \in Acceptable /\ Prev[b] \in index
           /\ job' = Declined /\ index' = index \cup {b} /\ UNCHANGED disk /\ Glitch
    BY <1>0, <1>4, <1>9, JobTypes
<1>3. CASE /\ b \notin index /\ b \in Acceptable /\ Prev[b] \in index
           /\ index' = index \cup {b}
           /\ disk' = [disk EXCEPT !.index = @ \cup {b}, !.next[b] = NoBlock]
           /\ job' = IF HasMoreWork(b)
                     THEN [job EXCEPT !.stage = "best", !.block = b, !.todo = {}]
                     ELSE Accepted(b)
           /\ UNCHANGED glitches
  <2>1. disk.next[b] = NoBlock
      BY <1>3 DEF IndexInv, RecordsInv
  <2>2. disk'.next = disk.next
      BY <1>1, <1>3, <2>1 DEF DiskType, Link
  <2>3. disk'.index = disk.index \cup {b} /\ disk'.best = disk.best
        /\ disk'.applied = disk.applied
      BY <1>1, <1>3 DEF DiskType
  <2>4. \/ job'.stage = "best" /\ job'.block = b /\ ChainWork[b] > ChainWork[best]
        \/ job'.stage = "orphans"
      BY <1>1, <1>3, JobTypes DEF JobType, HasMoreWork
  <2>5. job'.cut = {} /\ job'.add = {}
      BY <1>0, <1>1, <1>3, JobTypes DEF JobType
  <2> QED
      BY <1>3, <2>2, <2>3, <2>4, <2>5
<1> QED
    BY <1>2, <1>3, <1>4 DEF AcceptBlock

\* hashNext of a block without a record is never set: the transaction that sets it
\* writes the record.
LEMMA RelinkedOutside ==
    ASSUME TypeOK, RecordsInv, NEW D \in SUBSET Block, NEW C \in SUBSET Block
    PROVE  /\ disk.index \subseteq Recorded(D, C)
           /\ \A b \in Block \ Recorded(D, C) : Relinked(disk.next, D, C)[b] = NoBlock
<1>1. disk.next \in Link
    BY DEF TypeOK
<1>2. ASSUME NEW b \in Block \ Recorded(D, C)
      PROVE  Relinked(disk.next, D, C)[b] = NoBlock
  <2>1. b \notin disk.index /\ \A x \in D \cup C : Prev[x] # b
      BY <1>2 DEF Recorded
  <2>2. disk.next[b] = NoBlock
      BY <2>1 DEF RecordsInv
  <2> QED
      BY <2>1, <2>2 DEF Relinked
<1> QED
    BY <1>2 DEF Recorded

\* AcceptBlock, called for a new block or for an orphan, keeps the invariant.
LEMMA AcceptBlockInv ==
    ASSUME TypeOK, IndexInv, ProgressInv, LedgerInv,
           job.stage \in {"idle", "orphans"},
           NEW b \in Block \ {Genesis}, AcceptBlock(b),
           UNCHANGED <<next, best, wallet, skewed>>
    PROVE  IndexInv' /\ ProgressInv' /\ LedgerInv'
<1>0. MemoryEdited /\ MemoryEdited' /\ next = disk.next /\ next \in Link
      /\ job'.cut = {} /\ job'.add = {}
    BY AcceptBlockFacts, LinksSettled DEF IndexInv, LinksInv, MemoryEdited, TypeOK
<1>9. Unlinked(next, {}) = next /\ LinkedTo(next, {}) = next
    BY <1>0, LoopsFollowRecords
<1>8. disk'.next = disk.next => LinksInv'
    BY <1>0, <1>9 DEF LinksInv
<1>1. CASE /\ UNCHANGED <<index, disk>> /\ (glitches = 0 \/ glitches' # 0)
           /\ job'.stage \in {"idle", "orphans"}
    BY <1>1, <1>8 DEF IndexInv, RecordsInv, ProgressInv, LedgerInv
<1>2. CASE /\ b \notin index /\ b \in Acceptable /\ Prev[b] \in index
           /\ index' = index \cup {b} /\ glitches' = glitches
           /\ disk'.index = disk.index \cup {b} /\ disk'.next = disk.next
           /\ disk'.best = disk.best /\ disk'.applied = disk.applied
           /\ \/ /\ job'.stage = "best" /\ job'.block = b
                 /\ ChainWork[b] > ChainWork[best]
              \/ job'.stage = "orphans"
  <2>1. Ancestors[b] \subseteq index'
      BY <1>2, ParentFacts DEF IndexInv
  <2>0. RecordsInv'
      BY <1>2 DEF IndexInv, RecordsInv
  <2>2. IndexInv'
      BY <1>2, <1>8, <2>0, <2>1 DEF IndexInv
  <2>3. ProgressInv'
      BY <1>2 DEF ProgressInv
  <2>4. LedgerInv'
      BY <1>2 DEF LedgerInv
  <2> QED
      BY <2>2, <2>3, <2>4
<1>3. CASE /\ b \notin index /\ b \in Acceptable /\ Prev[b] \in index
           /\ index' = index \cup {b} /\ glitches' # 0 /\ UNCHANGED disk
           /\ job'.stage \in {"idle", "orphans"}
  <2>1. Ancestors[b] \subseteq index'
      BY <1>3, ParentFacts DEF IndexInv
  <2>0. RecordsInv'
      BY <1>3 DEF IndexInv, RecordsInv
  <2>2. IndexInv'
      BY <1>3, <1>8, <2>0, <2>1 DEF IndexInv
  <2> QED
      BY <1>3, <2>2 DEF ProgressInv, LedgerInv
<1> QED
    BY <1>1, <1>2, <1>3, AcceptBlockFacts

\* A commit leaves to the loops over memory exactly the edit it made on disk.
LEMMA CommitIndexInv ==
    ASSUME TypeOK, IndexInv, job.stage # "lost", MemoryEdited,
           NEW D \in SUBSET Block, NEW C \in SUBSET Block, NEW t \in index,
           \A x \in D \cup C : x \in index \ {Genesis},
           disk' = Rewritten(D, C, t), UNCHANGED <<index, next, best, glitches>>,
           job'.stage = "secondary", job'.cut = D, job'.add = C
    PROVE  IndexInv'
<1>0. index \subseteq Block /\ next \in Link /\ next = disk.next
    BY LinksSettled DEF TypeOK
<1>1. /\ disk'.index = Recorded(D, C) /\ disk'.best = t
      /\ disk'.next = Relinked(disk.next, D, C)
    BY <1>0, RewrittenType
<1>2. ASSUME NEW x \in D \cup C PROVE Prev[x] \in index
  <2>1. x \in index /\ x \in Block \ {Genesis}
      BY <1>0
  <2>2. Ancestors[x] \subseteq index /\ Prev[x] \in Ancestors[x]
      BY <2>1, ParentFacts DEF IndexInv
  <2> QED
      BY <2>2
<1>3. Recorded(D, C) \subseteq index
    BY <1>2 DEF Recorded, IndexInv, RecordsInv
<1>4. RecordsInv'
  <2>1. RecordsInv
      BY DEF IndexInv
  <2>2. /\ disk.index \subseteq Recorded(D, C)
        /\ \A b \in Block \ Recorded(D, C) : Relinked(disk.next, D, C)[b] = NoBlock
      BY <2>1, RelinkedOutside
  <2> QED
      BY <1>1, <1>3, <2>1, <2>2 DEF RecordsInv
<1>5. LinksInv'
    BY <1>0, <1>1, LoopsFollowRecords DEF LinksInv
<1> QED
    BY <1>1, <1>4, <1>5 DEF IndexInv

\* The commit of a reorganisation moves index, tip, links and ledger together.
LEMMA ReorganizeInv ==
    ASSUME TypeOK, IndexInv, ProgressInv, LedgerInv, NEW t \in Block, Reorganize(t)
    PROVE  IndexInv' /\ ProgressInv' /\ LedgerInv'
<1>1. /\ t # Genesis /\ t \in Ancestors[job.block] /\ t \in index
      /\ ChainWork[t] > ChainWork[best] /\ Ancestors[t] \subseteq index
    BY IntermediateFacts DEF Reorganize
<1>2. /\ Disconnected(t) \subseteq Block /\ Connected(t) \subseteq Block
      /\ best \in Block /\ next \in Link
      /\ Genesis \notin Disconnected(t) \cup Connected(t)
    BY SelfAncestor, PathFacts DEF TypeOK, Disconnected, Connected
<1>3. /\ disk'.next = Relinked(disk.next, Disconnected(t), Connected(t))
      /\ disk'.best = t /\ disk'.applied = (disk.applied \ Disconnected(t)) \cup Connected(t)
    BY <1>2, RewrittenType DEF Reorganize
<1>4. /\ job'.stage = "secondary" /\ job'.block = job.block
      /\ job'.todo = Ancestors[job.block] \ Ancestors[t]
      /\ job'.cut = Disconnected(t) /\ job'.add = Connected(t)
  <2>1. job \in JobType
      BY DEF TypeOK, JobType
  <2> QED
      BY <2>1 DEF Reorganize, JobType
<1>6. IndexInv'
  <2>1. MemoryEdited /\ job.stage # "lost" /\ Ancestors[best] \subseteq index
      BY DEF Reorganize, IndexInv, LinksInv
  <2>2. \A x \in Disconnected(t) \cup Connected(t) : x \in index \ {Genesis}
      BY <1>1, <1>2, <2>1 DEF Disconnected, Connected
  <2>3. disk' = Rewritten(Disconnected(t), Connected(t), t)
        /\ UNCHANGED <<index, next, best, glitches>>
      BY DEF Reorganize, memory, faults
  <2> QED
      BY <1>1, <1>2, <1>4, <2>1, <2>2, <2>3, CommitIndexInv
<1>7. ProgressInv'
    BY <1>1, <1>3, <1>4 DEF ProgressInv
<1>8. LedgerInv'
  <2> SUFFICES ASSUME ~skewed
               PROVE  /\ disk'.applied = Branch(t) /\ ChainValid(t)
                      /\ Linked(disk'.next, t) /\ Branch(t) \subseteq wallet'.synced
      BY <1>3, <1>4 DEF Reorganize, LedgerInv
  <2>1. /\ best = disk.best /\ disk.applied = Branch(best) /\ ChainValid(best)
        /\ Linked(disk.next, best) /\ Branch(best) \subseteq wallet.synced
      BY DEF Reorganize, LedgerInv
  <2>2. Genesis \in Ancestors[best] /\ Genesis \in Ancestors[t]
      BY <1>2, PathFacts
  <2>3. Connected(t) \subseteq Valid
      BY <2>1 DEF Reorganize, Connects, Sound
  <2>4. disk'.applied = Branch(t)
      BY <1>3, <2>1, <2>2 DEF Branch, Disconnected, Connected
  <2>5. ChainValid(t)
      BY <2>1, <2>3 DEF ChainValid, Branch, Connected
  <2>6. Linked(disk'.next, t)
      BY <1>2, <1>3, <2>1, RelinkedMovesPath
      DEF TypeOK, Disconnected, Connected
  <2>7. Branch(t) \subseteq wallet'.synced
      BY <1>2, <2>1, WalletTypes DEF Reorganize, Branch, Connected
  <2> QED
      BY <2>4, <2>5, <2>6, <2>7
<1> QED
    BY <1>6, <1>7, <1>8

\* So does the commit of a postponed reconnect.
LEMMA ConnectSecondaryInv ==
    ASSUME TypeOK, IndexInv, ProgressInv, LedgerInv, NEW c \in Block,
           ConnectSecondary(c)
    PROVE  IndexInv' /\ ProgressInv' /\ LedgerInv'
<1>1. /\ c # Genesis /\ c \in Ancestors[job.block] /\ c \in index
      /\ Prev[c] = disk.best
      /\ job.todo \ {c} = Ancestors[job.block] \ Ancestors[c]
    BY SecondaryFacts DEF ConnectSecondary
<1>2. /\ disk.best \in Block /\ disk.next \in Link /\ next \in Link
      /\ {c} \subseteq Block /\ {} \subseteq Block
    BY DEF TypeOK
<1>3. /\ disk'.next = Relinked(disk.next, {}, {c})
      /\ disk'.best = c /\ disk'.applied = (disk.applied \ {}) \cup {c}
  <2>1. disk' = Rewritten({}, {c}, c)
      BY DEF ConnectSecondary
  <2>2. /\ Rewritten({}, {c}, c).next = Relinked(disk.next, {}, {c})
        /\ Rewritten({}, {c}, c).best = c
        /\ Rewritten({}, {c}, c).applied = (disk.applied \ {}) \cup {c}
    <3>1. disk \in DiskType
        BY DEF TypeOK, DiskType
    <3> QED
        BY <3>1 DEF Rewritten, DiskType
  <2> QED
      BY <2>1, <2>2
<1>4. /\ job'.stage = "secondary" /\ job'.block = job.block
      /\ job'.todo = Ancestors[job.block] \ Ancestors[c]
      /\ job'.cut = {} /\ job'.add = {c}
  <2>1. job \in JobType
      BY DEF TypeOK, JobType
  <2> QED
      BY <1>1, <2>1 DEF ConnectSecondary, NextSecondary, MemoryEdited, JobType
<1>5. Ancestors[c] = Ancestors[disk.best] \cup {c}
    BY <1>1, ParentFacts
<1>6. IndexInv'
  <2>1. MemoryEdited /\ job.stage # "lost" /\ disk' = Rewritten({}, {c}, c)
        /\ UNCHANGED <<index, next, best, glitches>>
      BY DEF ConnectSecondary, NextSecondary, memory, faults
  <2>2. \A x \in {} \cup {c} : x \in index \ {Genesis}
      BY <1>1
  <2> QED
      BY <1>1, <1>2, <1>4, <2>1, <2>2, CommitIndexInv
<1>7. ProgressInv'
    BY <1>1, <1>3, <1>4 DEF ProgressInv
<1>8. LedgerInv'
  <2> SUFFICES ASSUME ~skewed
               PROVE  /\ disk'.applied = Branch(c) /\ ChainValid(c)
                      /\ Linked(disk'.next, c) /\ Branch(c) \subseteq wallet'.synced
      BY <1>3, <1>4 DEF ConnectSecondary, LedgerInv
  <2>1. /\ disk.applied = Branch(disk.best) /\ ChainValid(disk.best)
        /\ Linked(disk.next, disk.best) /\ Branch(disk.best) \subseteq wallet.synced
      BY DEF LedgerInv
  <2>2. c \in Valid
      BY <1>1, <2>1 DEF ConnectSecondary, Connects, Sound
  <2>3. Branch(c) = Branch(disk.best) \cup {c}
      BY <1>1, <1>5 DEF Branch
  <2>4. Linked(disk'.next, c)
      BY <1>1, <1>2, <1>3, <2>1, RelinkedMovesPath, ExtensionAsReorganisation
  <2> QED
      BY <1>2, <1>3, <2>1, <2>2, <2>3, <2>4, WalletTypes
      DEF ConnectSecondary, ChainValid
<1> QED
    BY <1>6, <1>7, <1>8

\* The loops after a commit touch nothing but the links in memory.
LEMMA LoopsInv ==
    ASSUME TypeOK, IndexInv, ProgressInv, LedgerInv, UnlinkMemory \/ LinkMemory
    PROVE  IndexInv' /\ ProgressInv' /\ LedgerInv'
<1>1. /\ UNCHANGED <<index, best, disk, wallet, glitches, skewed>>
      /\ job'.stage = job.stage /\ job'.block = job.block /\ job'.todo = job.todo
  <2>1. job \in JobType
      BY DEF TypeOK, JobType
  <2> QED
      BY <2>1 DEF UnlinkMemory, LinkMemory, faults, JobType
<1>2. LinksInv'
  <2>1. job \in JobType /\ next \in Link /\ job.cut \subseteq Block /\ job.add \subseteq Block
      BY DEF TypeOK, JobType
  <2>2. job.stage = "secondary"
      BY DEF IndexInv, LinksInv, UnlinkMemory, LinkMemory, MemoryEdited
  <2>3. CASE UnlinkMemory
    <3>1. next' = Unlinked(next, job.cut) /\ job'.cut = {} /\ job'.add = job.add
        BY <2>1, <2>3 DEF UnlinkMemory, JobType
    <3>2. next' \in Link
        BY <2>1, <3>1, RelinkedType
    <3>3. Unlinked(next', {}) = next'
        BY <2>1, <3>2, LoopsFollowRecords
    <3> QED
        BY <1>1, <2>2, <3>1, <3>3 DEF IndexInv, LinksInv
  <2>4. CASE LinkMemory
    <3>1. /\ next' = LinkedTo(next, job.add) /\ job.cut = {}
          /\ job'.cut = {} /\ job'.add = {}
        BY <2>1, <2>4 DEF LinkMemory, JobType
    <3>2. next' \in Link
        BY <2>1, <3>1, RelinkedType
    <3>3. /\ Unlinked(next', {}) = next' /\ LinkedTo(next', {}) = next'
          /\ Unlinked(next, {}) = next
        BY <2>1, <3>2, LoopsFollowRecords
    <3> QED
        BY <1>1, <2>2, <3>1, <3>3 DEF IndexInv, LinksInv
  <2> QED
      BY <2>3, <2>4
<1>3. IndexInv'
    BY <1>1, <1>2 DEF IndexInv, RecordsInv
<1> QED
    BY <1>1, <1>3 DEF ProgressInv, LedgerInv

\* A connection that fails commits nothing, and the wallets only gain.
LEMMA FailureInv ==
    ASSUME TypeOK, IndexInv, ProgressInv, LedgerInv, NEW c \in Block,
           ReorganizeFails(c) \/ SecondaryFails(c)
    PROVE  IndexInv' /\ ProgressInv' /\ LedgerInv'
<1>1. UNCHANGED <<index, next, best, disk>>
    BY DEF ReorganizeFails, SecondaryFails, memory
<1>0. glitches \in Nat /\ (glitches' = glitches \/ glitches' = glitches + 1)
    BY BoundAssumption
    DEF TypeOK, ReorganizeFails, SecondaryFails, ConnectFails, Glitch
<1>2. job'.cut = job.cut /\ job'.add = job.add /\ (job'.stage # "secondary" => MemoryEdited')
          /\ job.stage # "lost" /\ job'.stage # "lost" => IndexInv'
    BY <1>0, <1>1 DEF IndexInv, RecordsInv, LinksInv, MemoryEdited
<1>3. CASE ReorganizeFails(c)
  <2>1. job.block \in Block /\ Connected(c) \subseteq Block
      BY <1>3, SelfAncestor DEF ReorganizeFails, TypeOK, Connected
  <2>2. wallet.synced \subseteq wallet'.synced
      BY <1>3, <2>1, FailureTypes DEF ReorganizeFails
  <2>3. job'.stage \in {"idle", "orphans"} /\ job.stage = "best"
      BY <1>3, JobTypes DEF ReorganizeFails
  <2>6. job'.cut = {} /\ job'.add = {} /\ job.cut = {} /\ job.add = {}
      BY <1>3, <2>3, JobTypes DEF ReorganizeFails, IndexInv, LinksInv, MemoryEdited
  <2>7. IndexInv'
      BY <1>2, <2>3, <2>6 DEF MemoryEdited
  <2>4. ProgressInv'
      BY <1>1, <2>3 DEF ProgressInv
  <2>5. LedgerInv'
      BY <1>1, <1>3, <2>2, <2>3 DEF LedgerInv, ReorganizeFails
  <2> QED
      BY <2>7, <2>4, <2>5
<1>4. CASE SecondaryFails(c)
  <2>1. /\ job'.stage = "secondary" /\ job'.block = job.block /\ job'.todo = {}
        /\ job'.cut = job.cut /\ job'.add = job.add /\ job.stage = "secondary"
    <3>1. job \in JobType
        BY DEF TypeOK, JobType
    <3> QED
        BY <1>4, <3>1 DEF SecondaryFails, NextSecondary, JobType
  <2>2. ProgressInv'
      BY <1>1, <1>4, <2>1 DEF ProgressInv, SecondaryFails, NextSecondary
  <2>3. LedgerInv'
      BY <1>4 DEF LedgerInv, SecondaryFails
  <2>4. IndexInv'
      BY <1>2, <2>1
  <2> QED
      BY <2>2, <2>3, <2>4
<1> QED
    BY <1>3, <1>4

\* The invariant holds of an empty data directory.
LEMMA InitInv == Init => IInv
<1> SUFFICES ASSUME Init PROVE IInv
    OBVIOUS
<1>1. /\ index = {Genesis} /\ best = Genesis /\ job.stage = "idle"
      /\ job.cut = {} /\ job.add = {}
      /\ next = [b \in Block |-> NoBlock]
      /\ disk.index = {Genesis} /\ disk.best = Genesis /\ disk.applied = {}
      /\ disk.next = [b \in Block |-> NoBlock]
    BY DEF Init, Idle
<1>2. Ancestors[Genesis] = {Genesis} /\ Branch(Genesis) = {} /\ Genesis \in Block
    BY AncestorsAssumption, BlockAssumption DEF Branch
<1>3. IndexInv
  <2>1. RecordsInv
      BY <1>1, <1>2 DEF RecordsInv
  <2>2. next \in Link
      BY <1>1 DEF Link
  <2>3. LinksInv
      BY <1>1, <2>2, LoopsFollowRecords DEF LinksInv, MemoryEdited
  <2> QED
      BY <1>1, <1>2, <2>1, <2>3 DEF IndexInv
<1>4. ProgressInv
    BY <1>1, <1>2, WorkAssumption DEF ProgressInv
<1>5. LedgerInv
    BY <1>1, <1>2 DEF LedgerInv, ChainValid, Linked
<1> QED
    BY <1>3, <1>4, <1>5, InitType DEF IInv

\* Records that name no block without one rebuild a closed index.
LEMMA LoadableIsClosed ==
    ASSUME TypeOK, Genesis \in disk.index, Loadable
    PROVE  \A b \in disk.index : Ancestors[b] \subseteq disk.index
<1> DEFINE S == {b \in Block : b \in disk.index => Ancestors[b] \subseteq disk.index}
<1>1. Genesis \in S
    BY BlockAssumption, AncestorsAssumption
<1>2. ASSUME NEW b \in Block \ {Genesis}, Prev[b] \in S PROVE b \in S
    BY <1>2, ParentFacts DEF Loadable
<1>3. Block \subseteq S
  <2> HIDE DEF S
  <2> QED
      BY <1>1, <1>2, BlockInd
<1> QED
    BY <1>3 DEF TypeOK

\* A closed index with the committed tip can be loaded.
LEMMA ClosedIsLoadable ==
    ASSUME TypeOK, IndexInv, glitches = 0
    PROVE  Loadable /\ index = disk.index
<1>1. index = disk.index /\ job.stage # "lost" /\ disk.index \subseteq Block
    BY DEF IndexInv, RecordsInv, TypeOK
<1>2. ASSUME NEW b \in disk.index \ {Genesis} PROVE Prev[b] \in disk.index
    BY <1>1, <1>2, ParentFacts DEF IndexInv
<1> QED
    BY <1>1, <1>2 DEF IndexInv, Loadable

\* A restart rebuilds memory from the records, or finds that it cannot.
LEMMA CrashInv ==
    ASSUME TypeOK, IndexInv, ProgressInv, LedgerInv, CrashAndRestart
    PROVE  IndexInv' /\ ProgressInv' /\ LedgerInv'
<1>1. /\ index' = disk.index /\ next' = disk.next /\ best' = disk.best
      /\ UNCHANGED <<disk, skewed, glitches>>
      /\ job'.cut = {} /\ job'.add = {}
      /\ \/ Loadable /\ job'.stage = "idle"
         \/ ~Loadable /\ job'.stage = "lost"
    BY DEF CrashAndRestart, Idle
<1>2. Rescanned \subseteq Block
    BY SelfAncestor DEF Rescanned, TypeOK
<1>3. wallet.synced \subseteq wallet'.synced
    BY <1>2, WalletTypes DEF CrashAndRestart
<1>4. ChainWork[disk.best] \in Nat /\ disk.next \in Link /\ disk.index \subseteq Block
    BY WorkAssumption DEF TypeOK
<1>5. RecordsInv'
    BY <1>1 DEF IndexInv, RecordsInv
<1>6. LinksInv'
    BY <1>1, <1>4, LoopsFollowRecords DEF LinksInv, MemoryEdited
<1>7. job'.stage = "lost" => glitches # 0
    BY <1>1, ClosedIsLoadable
<1>8. ASSUME Loadable PROVE \A b \in disk.index : Ancestors[b] \subseteq disk.index
    BY <1>8, LoadableIsClosed DEF IndexInv, RecordsInv
<1>9. IndexInv'
    BY <1>1, <1>5, <1>6, <1>7, <1>8 DEF IndexInv, Loadable
<1>10. ProgressInv'
    BY <1>1, <1>4 DEF ProgressInv
<1>11. LedgerInv'
    BY <1>1, <1>3 DEF LedgerInv
<1> QED
    BY <1>9, <1>10, <1>11

\* Every step of the node keeps the invariant.
LEMMA NextInv == IInv /\ [Next]_vars => IInv'
<1> SUFFICES ASSUME IInv, [Next]_vars PROVE IndexInv' /\ ProgressInv' /\ LedgerInv'
    BY NextType DEF IInv
<1> USE DEF IInv
<1>1. ASSUME NEW b \in Block, ProcessBlock(b)
      PROVE  IndexInv' /\ ProgressInv' /\ LedgerInv'
  <2>1. CASE Prev[b] \in index
    <3>1. b # Genesis
        BY <2>1, PrevAssumption, BlockAssumption DEF TypeOK
    <3> QED
        BY <1>1, <2>1, <3>1, AcceptBlockInv DEF ProcessBlock
  <2>2. CASE Prev[b] \notin index
      BY <1>1, <2>2
      DEF ProcessBlock, IndexInv, RecordsInv, LinksInv, MemoryEdited, ProgressInv, LedgerInv
  <2> QED
      BY <2>1, <2>2
<1>2. ASSUME NEW b \in Block, ProcessOrphan(b)
      PROVE  IndexInv' /\ ProgressInv' /\ LedgerInv'
  <2>1. Head(job.queue) \in Block
      BY <1>2 DEF ProcessOrphan, TypeOK
  <2>2. b # Genesis
      BY <1>2, <2>1, PrevAssumption, BlockAssumption DEF ProcessOrphan
  <2> QED
      BY <1>2, <2>2, AcceptBlockInv DEF ProcessOrphan
<1>3. CASE NextInQueue
  <2>1. /\ job'.stage \in {"idle", "orphans"} /\ job.stage = "orphans"
        /\ job'.cut = {} /\ job'.add = {} /\ job.cut = {} /\ job.add = {}
    <3>1. job \in JobType
        BY DEF TypeOK, JobType
    <3> QED
        BY <1>3, <3>1
        DEF NextInQueue, Idle, JobType, IndexInv, LinksInv, MemoryEdited
  <2>2. UNCHANGED <<index, next, best, disk, wallet, glitches, skewed>>
      BY <1>3 DEF NextInQueue, memory, faults
  <2> QED
      BY <2>1, <2>2
      DEF IndexInv, RecordsInv, LinksInv, MemoryEdited, ProgressInv, LedgerInv
<1>4. CASE NewBestBlock
  <2>1. /\ job.stage = "secondary" /\ job.todo = {} /\ best' = job.block
        /\ job'.stage = "orphans" /\ job.block \in index /\ job.block \in Block
        /\ disk.best \in Block
        /\ job'.cut = {} /\ job'.add = {} /\ job.cut = {} /\ job.add = {}
      BY <1>4, JobTypes DEF NewBestBlock, TypeOK, MemoryEdited
  <2>2. UNCHANGED <<index, next, disk, glitches, skewed>> /\ wallet'.synced = wallet.synced
      BY <1>4 DEF NewBestBlock, TypeOK, faults
  <2>3. ChainWork[disk.best] <= ChainWork[job.block]
      BY <2>1, PathFacts DEF ProgressInv
  <2>4. ~skewed => job.block = disk.best
      BY <2>1, SelfAncestor, Antisymmetry DEF ProgressInv
  <2>5. IndexInv'
      BY <2>1, <2>2 DEF IndexInv, RecordsInv, LinksInv, MemoryEdited
  <2>6. ProgressInv'
      BY <2>1, <2>2, <2>3 DEF ProgressInv
  <2>7. LedgerInv'
      BY <2>1, <2>2, <2>4 DEF LedgerInv
  <2> QED
      BY <2>5, <2>6, <2>7
<1>6. CASE UNCHANGED vars
    BY <1>6
    DEF vars, IndexInv, RecordsInv, LinksInv, MemoryEdited, ProgressInv, LedgerInv
<1> QED
    BY <1>1, <1>2, <1>3, <1>4, <1>6, ReorganizeInv, ConnectSecondaryInv, LoopsInv,
       FailureInv, CrashInv DEF Next, Step

\* The inductive invariant holds throughout.
THEOREM Inductive == Spec => []IInv
    BY InitInv, NextInv, PTL DEF Spec

-----------------------------------------------------------------------------
(* The properties                                                          *)

\* The transaction index and the best-chain pointer never disagree at a commit.
THEOREM LedgerCorrect == Spec => []LedgerMatchesTip
<1>1. IInv => LedgerMatchesTip
    BY DEF IInv, LedgerInv, LedgerMatchesTip
<1> QED
    BY <1>1, Inductive, PTL

\* Once the two loops over memory are through, the pointers there are the ones the
\* transaction committed; every record has its entry, and without an I/O failure
\* every entry its record.
THEOREM MemoryCorrect == Spec => []MemoryMatchesDisk
<1>1. IInv => MemoryMatchesDisk
    BY LinksSettled DEF IInv, IndexInv, RecordsInv, LedgerInv, MemoryMatchesDisk
<1> QED
    BY <1>1, Inductive, PTL

\* IsInMainChain answers by the path to the committed tip.
THEOREM MainChainCorrect == Spec => []MainChainIsLinked
<1>1. IInv => MainChainIsLinked
  <2> SUFFICES ASSUME IInv, ~skewed
               PROVE  /\ \A b \in Block : InMainChain(b) <=> b \in Ancestors[disk.best]
                      /\ \A b \in Branch(disk.best) : disk.next[Prev[b]] = b
      BY DEF MainChainIsLinked
  <2>1. Linked(disk.next, disk.best) /\ disk.best \in Block
      BY DEF IInv, LedgerInv, TypeOK
  <2>2. disk.best \in Ancestors[disk.best]
      BY <2>1, SelfAncestor
  <2> QED
      BY <2>1, <2>2 DEF Linked, InMainChain
<1> QED
    BY <1>1, Inductive, PTL

\* No block below the committed tip failed ConnectBlock.
THEOREM ValidityCorrect == Spec => []ActiveChainValid
<1>1. IInv => ActiveChainValid
    BY DEF IInv, LedgerInv, ActiveChainValid
<1> QED
    BY <1>1, Inductive, PTL

\* The wallets have been offered every block of the committed chain.
THEOREM WalletCorrect == Spec => []WalletSawChain
<1>1. IInv => WalletSawChain
    BY DEF IInv, LedgerInv, WalletSawChain
<1> QED
    BY <1>1, Inductive, PTL

\* What is committed is one valid chain, in the index, the links and the wallets,
\* and can be loaded unless an I/O failure kept a record from being written.
THEOREM CommittedCorrect == Spec => []CommittedIsOneChain
<1>1. LedgerMatchesTip /\ MainChainIsLinked /\ ActiveChainValid /\ WalletSawChain
          /\ Restartable => CommittedIsOneChain
    BY DEF CommittedIsOneChain
<1>2. IInv => Restartable
    BY ClosedIsLoadable DEF IInv, Restartable
<1> QED
    BY <1>1, <1>2, LedgerCorrect, MainChainCorrect, ValidityCorrect, WalletCorrect,
       Inductive, PTL

-----------------------------------------------------------------------------
(* Steps                                                                   *)

\* The only steps that touch the committed tip or ledger are the two commits of
\* SetBestChain; the only other ones that touch the index are AcceptBlock's and a
\* restart.
LEMMA CommittedSteps ==
    ASSUME IInv, [Next]_vars
    PROVE  \/ UNCHANGED <<index, disk.best, disk.applied>>
           \/ \E b \in Block :
                 /\ b \in Acceptable /\ Prev[b] \in index /\ index' = index \cup {b}
                 /\ UNCHANGED <<disk.best, disk.applied>>
           \/ \E t \in Block : Reorganize(t) \/ ConnectSecondary(t)
           \/ CrashAndRestart
<1> USE DEF IInv
<1>1. ASSUME NEW b \in Block, ProcessBlock(b) \/ ProcessOrphan(b)
      PROVE  \/ UNCHANGED <<index, disk.best, disk.applied>>
             \/ /\ b \in Acceptable /\ Prev[b] \in index /\ index' = index \cup {b}
                /\ UNCHANGED <<disk.best, disk.applied>>
  <2>1. CASE AcceptBlock(b) /\ job.stage \in {"idle", "orphans"}
    <3>1. b # Genesis \/ UNCHANGED <<index, disk>>
      <4>1. CASE b = Genesis
          BY <2>1, <4>1, PrevAssumption, BlockAssumption DEF AcceptBlock, TypeOK
      <4> QED
          BY <4>1
    <3> QED
        BY <2>1, <3>1, AcceptBlockFacts
  <2>2. CASE UNCHANGED <<index, disk>>
      BY <2>2
  <2> QED
      BY <1>1, <2>1, <2>2 DEF ProcessBlock, ProcessOrphan
<1>2. ASSUME NEW b \in Block, ReorganizeFails(b) \/ SecondaryFails(b)
      PROVE  UNCHANGED <<index, disk>>
    BY <1>2 DEF ReorganizeFails, SecondaryFails, memory
<1>3. CASE NextInQueue \/ NewBestBlock \/ UnlinkMemory \/ LinkMemory
    BY <1>3 DEF NextInQueue, NewBestBlock, UnlinkMemory, LinkMemory, memory
<1>4. CASE CrashAndRestart
    BY <1>4
<1>5. CASE UNCHANGED vars
    BY <1>5 DEF vars
<1> QED
    BY <1>1, <1>2, <1>3, <1>4, <1>5 DEF Next, Step

\* The committed tip only moves to a chain with more work, skewed or not.
THEOREM TipOnlyGains == Spec => TipGainsWork
<1>1. ASSUME IInv, [Next]_vars, disk.best' # disk.best
      PROVE  ChainWork[disk.best'] > ChainWork[disk.best]
  <2> USE DEF IInv
  <2>0. disk.best \in Block /\ best \in Block /\ ChainWork \in [Block -> Nat]
      BY <1>1, WorkAssumption DEF TypeOK
  <2>1. ASSUME NEW t \in Block, Reorganize(t)
        PROVE  ChainWork[disk.best'] > ChainWork[disk.best]
    <3>1. disk'.best = t
      <4>1. disk \in DiskType
          BY <1>1 DEF TypeOK, DiskType
      <4> QED
          BY <2>1, <4>1 DEF Reorganize, Rewritten, DiskType
    <3>2. ChainWork[t] > ChainWork[best] /\ ChainWork[disk.best] <= ChainWork[best]
        BY <1>1, <2>1, IntermediateFacts DEF Reorganize, ProgressInv
    <3> QED
        BY <2>0, <3>1, <3>2
  <2>2. ASSUME NEW c \in Block, ConnectSecondary(c)
        PROVE  ChainWork[disk.best'] > ChainWork[disk.best]
    <3>1. disk'.best = c
      <4>1. disk \in DiskType
          BY <1>1 DEF TypeOK, DiskType
      <4> QED
          BY <2>2, <4>1 DEF ConnectSecondary, Rewritten, DiskType
    <3>2. c # Genesis /\ Prev[c] = disk.best
        BY <1>1, <2>2, SecondaryFacts DEF ConnectSecondary
    <3> QED
        BY <3>1, <3>2, ParentFacts
  <2>3. CrashAndRestart => UNCHANGED disk
      BY DEF CrashAndRestart
  <2> QED
      BY <1>1, <2>1, <2>2, <2>3, CommittedSteps
<1>2. IInv /\ [Next]_vars =>
        [disk.best' # disk.best => ChainWork[disk.best'] > ChainWork[disk.best]]_vars
    BY <1>1
<1> QED
    BY <1>2, Inductive, PTL DEF Spec, TipGainsWork

\* Every step implements the abstract best chain until a postponed reconnect
\* fails: blocks are learnt with their parents, tip and ledger change in one step
\* to those of a valid chain with more work, and a restart only forgets blocks that
\* the chain in effect does not need.
THEOREM ImplementsBestChain == Spec => Abstract!Init /\ StepRefinement
<1>1. Init => Abstract!Init
    BY DEF Init, Abstract!Init
<1>2. ASSUME IInv, [Next]_vars, ~skewed, job'.stage # "lost"
      PROVE  \/ Abstract!Next \/ UNCHANGED <<index, disk.best, disk.applied>>
             \/ crashes' # crashes /\ Abstract!Forget
  <2> USE DEF IInv
  <2>0. disk \in DiskType
      BY <1>2 DEF TypeOK, DiskType
  <2>1. ASSUME NEW b \in Block,
               b \in Acceptable /\ Prev[b] \in index /\ index' = index \cup {b},
               UNCHANGED <<disk.best, disk.applied>>
        PROVE  Abstract!Next
      BY <2>1 DEF Abstract!Next, Abstract!Learn
  <2>2. ASSUME NEW t \in Block, Reorganize(t) PROVE Abstract!Next
    <3>1. /\ disk'.best = t /\ index' = index
        BY <2>0, <2>2 DEF Reorganize, memory, Rewritten, DiskType
    <3>2. t \in index /\ ChainWork[t] > ChainWork[best] /\ best = disk.best
        BY <1>2, <2>2, IntermediateFacts DEF Reorganize, LedgerInv
    <3>3. ~skewed'
        BY <1>2, <2>2 DEF Reorganize
    <3>4. disk'.applied = Branch(t) /\ ChainValid(t)
        BY <1>2, <2>2, <3>1, <3>3, ReorganizeInv DEF LedgerInv
    <3> QED
        BY <3>1, <3>2, <3>4
        DEF Abstract!Next, Abstract!Activate, Abstract!ChainValid, Abstract!Branch,
            ChainValid, Branch
  <2>3. ASSUME NEW c \in Block, ConnectSecondary(c) PROVE Abstract!Next
    <3>1. /\ disk'.best = c /\ index' = index
        BY <2>0, <2>3 DEF ConnectSecondary, memory, Rewritten, DiskType
    <3>2. c \in index /\ ChainWork[c] > ChainWork[disk.best]
        BY <1>2, <2>3, SecondaryFacts, ParentFacts DEF ConnectSecondary
    <3>3. ~skewed'
        BY <1>2, <2>3 DEF ConnectSecondary
    <3>4. disk'.applied = Branch(c) /\ ChainValid(c)
        BY <1>2, <2>3, <3>1, <3>3, ConnectSecondaryInv DEF LedgerInv
    <3> QED
        BY <3>1, <3>2, <3>4
        DEF Abstract!Next, Abstract!Activate, Abstract!ChainValid, Abstract!Branch,
            ChainValid, Branch
  <2>4. CASE CrashAndRestart
    <3>1. /\ index' = disk.index /\ UNCHANGED disk /\ crashes' = crashes + 1 /\ crashes \in Nat
          /\ Loadable
        BY <1>2, <2>4, BoundAssumption DEF CrashAndRestart, Idle, TypeOK
    <3>2. disk.index \subseteq index
        BY <1>2 DEF IndexInv, RecordsInv
    <3> QED
        BY <3>1, <3>2 DEF Loadable, Abstract!Forget
  <2> QED
      BY <1>2, <2>1, <2>2, <2>3, <2>4, CommittedSteps
<1>3. IInv /\ [Next]_vars =>
        [~skewed /\ job'.stage # "lost" =>
            Abstract!Next \/ (crashes' # crashes /\ Abstract!Forget)
        ]_<<index, disk.best, disk.applied>>
    BY <1>2
<1> QED
    BY <1>1, <1>3, Inductive, PTL DEF Spec, StepRefinement

-----------------------------------------------------------------------------
(* Blocks alone                                                            *)

\* the hash is waiting in vWorkQueue
Queued(b) == \E i \in 1..Len(job.queue) : job.queue[i] = b

\* SetBestChain is at work on b
Trying(b) == job.stage \in {"best", "secondary"} /\ b = job.block

\* Without faults only the block that SetBestChain is working on can be better
\* than the best one, nothing is ever postponed, and an orphan waits for a
\* parent that is on its way or cannot connect.
OrderlyInv ==
    /\ job.stage = "idle" => job.queue = <<>>
    /\ FaultFree =>
        /\ ~skewed
        /\ \A b \in index : ChainWork[b] > ChainWork[best] /\ ChainValid(b) => Trying(b)
        /\ job.stage = "secondary" =>
              job.todo = {} /\ ChainWork[job.block] > ChainWork[best]
        /\ \A o \in orphans :
              Prev[o] \in index => ~ChainValid(Prev[o]) \/ Queued(Prev[o]) \/ Trying(Prev[o])

\* What a finished AcceptBlock leaves of the queue.
LEMMA QueueFacts ==
    ASSUME TypeOK
    PROVE  /\ Idle.stage = "idle" /\ Idle.queue = <<>>
           /\ Declined.queue = job.queue
           /\ Declined.stage = "idle" => job.queue = <<>>
           /\ \A b \in Block : Accepted(b).queue = Append(job.queue, b)
<1>1. job \in JobType
    BY DEF TypeOK, JobType
<1>2. Idle.stage = "idle" /\ Idle.queue = <<>>
    BY DEF Idle
<1>3. ASSUME job.queue # <<>>
      PROVE  Declined.queue = job.queue /\ Declined.stage = "orphans"
    BY <1>1, <1>3 DEF Declined, JobType
<1>4. job.queue = <<>> => Declined = Idle
    BY DEF Declined
<1>5. \A b \in Block : Accepted(b).queue = Append(job.queue, b)
    BY <1>1 DEF Accepted, JobType
<1> QED
    BY <1>2, <1>3, <1>4, <1>5

\* A hash stays in the queue when another one joins it.
LEMMA QueueGrows ==
    ASSUME NEW q \in Seq(Block), NEW b \in Block
    PROVE  /\ \A i \in 1..Len(q) : i \in 1..Len(Append(q, b)) /\ Append(q, b)[i] = q[i]
           /\ \E i \in 1..Len(Append(q, b)) : Append(q, b)[i] = b
    OBVIOUS

\* A step without a fault comes from a state without one.
LEMMA FaultsAreCounted ==
    ASSUME TypeOK, [Next]_vars
    PROVE  /\ crashes' = crashes \/ crashes' = crashes + 1
           /\ glitches' = glitches \/ glitches' = glitches + 1
           /\ FaultFree' => FaultFree /\ ~CrashAndRestart
<1>1. crashes \in Nat /\ glitches \in Nat
    BY BoundAssumption DEF TypeOK
<1>2. ASSUME NEW b \in Block, AcceptBlock(b)
      PROVE  glitches' = glitches \/ glitches' = glitches + 1
    BY <1>2 DEF AcceptBlock, Glitch
<1>3. ASSUME NEW b \in Block, ProcessBlock(b) \/ ProcessOrphan(b)
      PROVE  crashes' = crashes /\ (glitches' = glitches \/ glitches' = glitches + 1)
    BY <1>2, <1>3 DEF ProcessBlock, ProcessOrphan
<1>4. ASSUME NEW base, NEW C, ConnectFails(base, C)
      PROVE  glitches' = glitches \/ glitches' = glitches + 1
    BY <1>4 DEF ConnectFails, Glitch
<1>5. ASSUME NEW b \in Block, ReorganizeFails(b) \/ SecondaryFails(b)
      PROVE  crashes' = crashes /\ (glitches' = glitches \/ glitches' = glitches + 1)
    BY <1>4, <1>5 DEF ReorganizeFails, SecondaryFails
<1>6. ASSUME NEW b \in Block, Reorganize(b) \/ ConnectSecondary(b)
      PROVE  UNCHANGED <<crashes, glitches>>
    BY <1>6 DEF Reorganize, ConnectSecondary, faults
<1>7. ASSUME NextInQueue \/ NewBestBlock \/ UnlinkMemory \/ LinkMemory \/ UNCHANGED vars
      PROVE  UNCHANGED <<crashes, glitches>>
    BY <1>7 DEF NextInQueue, NewBestBlock, UnlinkMemory, LinkMemory, faults, vars
<1>8. CrashAndRestart => crashes' = crashes + 1 /\ glitches' = glitches
    BY DEF CrashAndRestart
<1>9. /\ crashes' = crashes \/ crashes' = crashes + 1
      /\ glitches' = glitches \/ glitches' = glitches + 1
    BY <1>3, <1>5, <1>6, <1>7, <1>8 DEF Next, Step
<1> QED
    BY <1>1, <1>8, <1>9 DEF FaultFree

\* On a sound index, what connects on top of the best chain makes a valid one.
LEMMA SoundBest ==
    ASSUME TypeOK, LedgerInv, ~skewed, job.stage = "best", NEW t \in Block
    PROVE  /\ Sound(best)
           /\ ChainValid(t) <=> Connected(t) \subseteq Valid
<1>1. best = disk.best /\ disk.applied = Branch(best) /\ ChainValid(best) /\ best \in Block
    BY DEF LedgerInv, TypeOK
<1>2. Sound(best)
    BY <1>1 DEF Sound
<1>3. Genesis \in Ancestors[best]
    BY <1>1, PathFacts
<1> QED
    BY <1>1, <1>2, <1>3 DEF ChainValid, Connected, Branch

\* AcceptBlock lets no block that is better than the best one slip past
\* SetBestChain, and queues or tries every block it accepts.
LEMMA AcceptBlockOrderly ==
    ASSUME IInv, OrderlyInv, job.stage \in {"idle", "orphans"},
           NEW b \in Block, AcceptBlock(b), orphans' \subseteq orphans,
           UNCHANGED <<best, skewed, crashes>>, FaultFree' => FaultFree
    PROVE  OrderlyInv'
<1> USE DEF IInv
<1>1. job \in JobType /\ job.queue \in Seq(Block)
    BY DEF TypeOK, JobType
<1>2. CASE UNCHANGED index /\ job' = Declined
  <2>1. /\ job'.queue = job.queue /\ job'.stage \in {"idle", "orphans"}
        /\ job'.stage = "idle" => job'.queue = <<>>
      BY <1>2, QueueFacts, JobTypes
  <2>2. \A x \in Block : Queued(x) => Queued(x)'
      BY <2>1 DEF Queued
  <2>3. \A x \in Block : ~Trying(x)
      BY DEF Trying
  <2>4. \A o \in orphans' : o \in orphans /\ o \in Block
      BY DEF TypeOK
  <2>5. ASSUME FaultFree', NEW o \in orphans', Prev[o] \in index'
        PROVE  ~ChainValid(Prev[o]) \/ Queued(Prev[o])'
      BY <1>2, <2>2, <2>3, <2>4, <2>5 DEF OrderlyInv, TypeOK
  <2>6. FaultFree' => \A x \in index' :
            ~(ChainWork[x] > ChainWork[best'] /\ ChainValid(x))
    <3>1. index \subseteq Block
        BY DEF TypeOK
    <3> QED
        BY <1>2, <2>3, <3>1 DEF OrderlyInv
  <2> QED
      BY <2>1, <2>5, <2>6 DEF OrderlyInv
<1>3. CASE /\ index' = index \cup {b}
           /\ job' = IF HasMoreWork(b)
                     THEN [job EXCEPT !.stage = "best", !.block = b, !.todo = {}]
                     ELSE Accepted(b)
  <2>1. \/ /\ job'.stage = "best" /\ job'.block = b /\ job'.queue = job.queue
           /\ ChainWork[b] > ChainWork[best]
        \/ /\ job'.stage = "orphans" /\ job'.queue = Append(job.queue, b)
           /\ ~(ChainWork[b] > ChainWork[best])
      BY <1>1, <1>3, QueueFacts, JobTypes DEF JobType, HasMoreWork
  <2>2. ASSUME NEW x \in Block, Queued(x) PROVE Queued(x)'
    <3>1. PICK i \in 1..Len(job.queue) : job.queue[i] = x
        BY <2>2 DEF Queued
    <3>2. i \in 1..Len(job'.queue) /\ job'.queue[i] = x
      <4>1. CASE job'.queue = job.queue
          BY <3>1, <4>1
      <4>2. CASE job'.queue = Append(job.queue, b)
        <5>1. /\ i \in 1..Len(Append(job.queue, b))
              /\ Append(job.queue, b)[i] = job.queue[i]
            BY <1>1, <3>1, QueueGrows
        <5> QED
            BY <3>1, <4>2, <5>1
      <4> QED
          BY <2>1, <4>1, <4>2
    <3> QED
        BY <3>2 DEF Queued
  <2>3. Queued(b)' \/ Trying(b)'
      BY <1>1, <2>1, QueueGrows DEF Queued, Trying
  <2>4. \A x \in Block : ~Trying(x)
      BY DEF Trying
  <2>5. \A o \in orphans' : o \in orphans /\ o \in Block
      BY DEF TypeOK
  <2>6. ASSUME FaultFree', NEW o \in orphans', Prev[o] \in index'
        PROVE  ~ChainValid(Prev[o]) \/ Queued(Prev[o])' \/ Trying(Prev[o])'
    <3>1. CASE Prev[o] = b
        BY <2>3, <3>1
    <3>2. CASE Prev[o] \in index
        BY <3>2, <2>2, <2>4, <2>5, <2>6 DEF OrderlyInv, TypeOK
    <3> QED
        BY <1>3, <2>6, <3>1, <3>2
  <2>7. ASSUME FaultFree', NEW x \in index', ChainWork[x] > ChainWork[best'], ChainValid(x)
        PROVE  Trying(x)'
    <3>1. x = b
        BY <1>3, <2>4, <2>7 DEF OrderlyInv, TypeOK
    <3> QED
        BY <2>1, <2>7, <3>1 DEF Trying
  <2> QED
      BY <2>1, <2>6, <2>7 DEF OrderlyInv
<1>4. CASE Glitch /\ job' = Declined
  <2>1. job'.stage \in {"idle", "orphans"} /\ (job'.stage = "idle" => job'.queue = <<>>)
      BY <1>4, QueueFacts, JobTypes
  <2>2. ~FaultFree'
      BY <1>4, BoundAssumption DEF Glitch, FaultFree, TypeOK
  <2> QED
      BY <2>1, <2>2 DEF OrderlyInv
<1> QED
    BY <1>2, <1>3, <1>4 DEF AcceptBlock

\* A new best block is reached in one transaction: whatever lies on its way and is
\* heavier than the best chain is there because it does not connect.
LEMMA ReorganizeOrderly ==
    ASSUME IInv, OrderlyInv, NEW t \in Block, Reorganize(t), FaultFree' => FaultFree
    PROVE  OrderlyInv'
<1> USE DEF IInv
<1>1. /\ job \in JobType /\ job.block \in Block /\ job.block \in index
      /\ job.stage = "best" /\ index \subseteq Block
    BY DEF TypeOK, JobType, Reorganize
<1>2. /\ job'.stage = "secondary" /\ job'.block = job.block /\ job'.queue = job.queue
      /\ job'.todo = Ancestors[job.block] \ Ancestors[t]
      /\ UNCHANGED <<index, best, orphans, skewed>>
    BY <1>1 DEF Reorganize, memory, JobType
<1>3. ASSUME FaultFree PROVE t = job.block
  <2>1. ~skewed
      BY <1>3 DEF OrderlyInv
  <2>2. Connected(t) \subseteq Valid
      BY <1>1, <2>1, SoundBest DEF Reorganize, Connects
  <2>3. ChainValid(t)
      BY <1>1, <2>1, <2>2, SoundBest
  <2>4. t \in index /\ ChainWork[t] > ChainWork[best]
      BY <1>1, IntermediateFacts DEF Reorganize
  <2> QED
      BY <1>3, <2>3, <2>4 DEF OrderlyInv, Trying
<1>4. FaultFree => job'.todo = {} /\ ChainWork[job.block] > ChainWork[best]
    BY <1>1, <1>2, <1>3 DEF ProgressInv
<1>5. \A x \in Block : (Queued(x) => Queued(x)') /\ (Trying(x) => Trying(x)')
    BY <1>1, <1>2 DEF Queued, Trying
<1>6. FaultFree' => /\ ~skewed'
                    /\ \A x \in index' :
                          ChainWork[x] > ChainWork[best'] /\ ChainValid(x) => Trying(x)'
    BY <1>1, <1>2, <1>5 DEF OrderlyInv
<1>7. FaultFree' => \A o \in orphans' : Prev[o] \in index' =>
          ~ChainValid(Prev[o]) \/ Queued(Prev[o])' \/ Trying(Prev[o])'
    BY <1>1, <1>2, <1>5 DEF OrderlyInv
<1> QED
    BY <1>2, <1>4, <1>6, <1>7 DEF OrderlyInv

\* Without a fault only an invalid block makes a connection fail.
LEMMA FailureIsReal ==
    ASSUME IInv, ~skewed, NEW t \in Block, ReorganizeFails(t), glitches' = glitches
    PROVE  ~ChainValid(job.block)
<1> USE DEF IInv
<1>1. job.block \in Block /\ job.stage = "best"
    BY DEF TypeOK, ReorganizeFails
<1>2. Sound(best)
    BY <1>1, SoundBest
<1>3. glitches \in Nat
    BY BoundAssumption DEF TypeOK
<1>4. ~(Connected(t) \subseteq Valid)
    BY <1>2, <1>3 DEF ReorganizeFails, ConnectFails, Glitch
<1>5. ~ChainValid(t)
    BY <1>1, <1>4, SoundBest
<1>6. t \in Ancestors[job.block]
    BY DEF ReorganizeFails, Intermediate, Branch
<1> QED
    BY <1>1, <1>5, <1>6, PathFacts DEF ChainValid, Branch

\* A failed connection is that of an invalid block, so nothing is left behind.
LEMMA FailureOrderly ==
    ASSUME IInv, OrderlyInv, NEW t \in Block, ReorganizeFails(t),
           FaultFree' => FaultFree
    PROVE  OrderlyInv'
<1> USE DEF IInv
<1>1. /\ job \in JobType /\ job.block \in Block /\ index \subseteq Block
      /\ job.stage = "best"
    BY DEF TypeOK, JobType, ReorganizeFails
<1>2. /\ job' = Declined /\ UNCHANGED <<index, best, orphans, skewed>>
    BY DEF ReorganizeFails, memory
<1>3. /\ job'.queue = job.queue /\ job'.stage \in {"idle", "orphans"}
      /\ job'.stage = "idle" => job'.queue = <<>>
    BY <1>2, QueueFacts, JobTypes
<1>4. FaultFree' => ~skewed /\ ~ChainValid(job.block)
  <2>1. FaultFree' /\ FaultFree => glitches' = glitches
      BY DEF FaultFree
  <2> QED
      BY <2>1, FailureIsReal DEF OrderlyInv
<1>5. \A x \in Block : (Queued(x) => Queued(x)') /\ (Trying(x) => x = job.block)
    BY <1>3 DEF Queued, Trying
<1>6. FaultFree' => /\ ~skewed'
                    /\ \A x \in index' :
                          ~(ChainWork[x] > ChainWork[best'] /\ ChainValid(x))
    BY <1>1, <1>2, <1>4, <1>5 DEF OrderlyInv
<1>7. FaultFree' => \A o \in orphans' : Prev[o] \in index' =>
          ~ChainValid(Prev[o]) \/ Queued(Prev[o])'
    BY <1>1, <1>2, <1>4, <1>5 DEF OrderlyInv
<1> QED
    BY <1>3, <1>6, <1>7 DEF OrderlyInv

\* The end of SetBestChain: the block is the best one, and its orphans come next.
LEMMA NewBestOrderly ==
    ASSUME IInv, OrderlyInv, NewBestBlock, FaultFree' => FaultFree
    PROVE  OrderlyInv'
<1> USE DEF IInv
<1>1. /\ job \in JobType /\ job.queue \in Seq(Block) /\ job.stage = "secondary"
      /\ job.block \in Block /\ index \subseteq Block /\ best \in Block
      /\ ChainWork \in [Block -> Nat]
    BY WorkAssumption DEF TypeOK, JobType, NewBestBlock
<1>2. /\ best' = job.block /\ UNCHANGED <<index, orphans, skewed>>
      /\ job'.stage = "orphans" /\ job'.queue = Append(job.queue, job.block)
    BY <1>1, QueueFacts, JobTypes DEF NewBestBlock
<1>3. ASSUME NEW x \in Block, Queued(x) \/ Trying(x) PROVE Queued(x)'
  <2>1. CASE Queued(x)
    <3>1. PICK i \in 1..Len(job.queue) : job.queue[i] = x
        BY <2>1 DEF Queued
    <3>2. /\ i \in 1..Len(Append(job.queue, job.block))
          /\ Append(job.queue, job.block)[i] = job.queue[i]
        BY <1>1, <3>1, QueueGrows
    <3> QED
        BY <1>2, <3>1, <3>2 DEF Queued
  <2>2. CASE Trying(x)
    <3>1. \E i \in 1..Len(Append(job.queue, job.block)) :
              Append(job.queue, job.block)[i] = job.block
        BY <1>1, QueueGrows
    <3> QED
        BY <1>2, <2>2, <3>1 DEF Queued, Trying
  <2> QED
      BY <1>3, <2>1, <2>2
<1>4. ASSUME FaultFree', NEW x \in index', ChainWork[x] > ChainWork[best'], ChainValid(x)
      PROVE  FALSE
  <2>1. ChainWork[job.block] > ChainWork[best]
      BY <1>1, <1>4 DEF OrderlyInv
  <2>2. x \in Block /\ x # job.block
      BY <1>1, <1>2, <1>4
  <2>3. ChainWork[x] > ChainWork[best]
      BY <1>1, <1>2, <1>4, <2>1, <2>2
  <2> QED
      BY <1>2, <1>4, <2>2, <2>3 DEF OrderlyInv, Trying
<1>5. FaultFree' => ~skewed'
    BY <1>2 DEF OrderlyInv
<1>6. FaultFree' => \A o \in orphans' : Prev[o] \in index' =>
          ~ChainValid(Prev[o]) \/ Queued(Prev[o])'
    BY <1>1, <1>2, <1>3 DEF OrderlyInv
<1> QED
    BY <1>2, <1>4, <1>5, <1>6 DEF OrderlyInv

\* A hash leaves the queue when no orphan waits for it.
LEMMA QueueOrderly ==
    ASSUME IInv, OrderlyInv, NextInQueue, FaultFree' => FaultFree
    PROVE  OrderlyInv'
<1> USE DEF IInv
<1>1. /\ job \in JobType /\ job.queue \in Seq(Block) /\ job.queue # <<>>
      /\ job.stage = "orphans" /\ index \subseteq Block
    BY DEF TypeOK, JobType, NextInQueue
<1>2. /\ UNCHANGED <<index, best, orphans, skewed>>
      /\ \A o \in orphans : Prev[o] # Head(job.queue)
    BY DEF NextInQueue, memory
<1>3. \/ job'.stage = "idle" /\ job'.queue = <<>> /\ Len(job.queue) <= 1
      \/ job'.stage = "orphans" /\ job'.queue = Tail(job.queue)
    BY <1>1, QueueFacts DEF NextInQueue, JobType
<1>4. ASSUME NEW x \in Block, Queued(x), x # Head(job.queue) PROVE Queued(x)'
  <2>1. PICK i \in 1..Len(job.queue) : job.queue[i] = x
      BY <1>4 DEF Queued
  <2>2. i # 1 /\ Len(job.queue) > 1
      BY <1>1, <1>4, <2>1
  <2>3. i - 1 \in 1..Len(Tail(job.queue)) /\ Tail(job.queue)[i - 1] = x
      BY <1>1, <2>1, <2>2
  <2>4. job'.queue = Tail(job.queue)
      BY <1>1, <1>3, <2>2
  <2> QED
      BY <2>3, <2>4 DEF Queued
<1>5. \A x \in Block : ~Trying(x)
    BY <1>1 DEF Trying
<1>6. FaultFree' => /\ ~skewed'
                    /\ \A x \in index' :
                          ~(ChainWork[x] > ChainWork[best'] /\ ChainValid(x))
    BY <1>1, <1>2, <1>5 DEF OrderlyInv
<1>7. FaultFree' => \A o \in orphans' : Prev[o] \in index' =>
          ~ChainValid(Prev[o]) \/ Queued(Prev[o])'
    BY <1>1, <1>2, <1>4, <1>5 DEF OrderlyInv
<1> QED
    BY <1>3, <1>6, <1>7 DEF OrderlyInv

\* The loops over memory change neither the queue nor what SetBestChain is about.
LEMMA LoopsOrderly ==
    ASSUME IInv, OrderlyInv, UnlinkMemory \/ LinkMemory
    PROVE  OrderlyInv'
<1>1. index \subseteq Block /\ job \in JobType
    BY DEF IInv, TypeOK, JobType
<1>2. /\ UNCHANGED <<index, best, orphans, crashes, glitches, skewed>>
      /\ job'.stage = job.stage /\ job'.block = job.block /\ job'.todo = job.todo
      /\ job'.queue = job.queue
    BY <1>1 DEF UnlinkMemory, LinkMemory, faults, JobType
<1>3. \A x \in Block : (Queued(x) <=> Queued(x)') /\ (Trying(x) <=> Trying(x)')
    BY <1>2 DEF Queued, Trying
<1>4. FaultFree' => FaultFree
    BY <1>2 DEF FaultFree
<1>5. FaultFree' =>
        /\ ~skewed'
        /\ \A x \in index' : ChainWork[x] > ChainWork[best'] /\ ChainValid(x) => Trying(x)'
        /\ job'.stage = "secondary" =>
              job'.todo = {} /\ ChainWork[job'.block] > ChainWork[best']
    BY <1>1, <1>2, <1>3, <1>4 DEF OrderlyInv
<1>6. FaultFree' => \A o \in orphans' : Prev[o] \in index' =>
          ~ChainValid(Prev[o]) \/ Queued(Prev[o])' \/ Trying(Prev[o])'
    BY <1>1, <1>2, <1>3, <1>4 DEF OrderlyInv
<1> QED
    BY <1>2, <1>5, <1>6 DEF OrderlyInv

LEMMA InitOrderly == Init => OrderlyInv
<1> SUFFICES ASSUME Init PROVE OrderlyInv
    OBVIOUS
<1>1. /\ job.stage = "idle" /\ job.queue = <<>> /\ ~skewed /\ orphans = {}
      /\ index = {Genesis} /\ best = Genesis
    BY DEF Init, Idle
<1>2. ChainWork[Genesis] \in Nat
    BY WorkAssumption, BlockAssumption
<1> QED
    BY <1>1, <1>2 DEF OrderlyInv

LEMMA NextOrderly == IInv /\ OrderlyInv /\ [Next]_vars => OrderlyInv'
<1> SUFFICES ASSUME IInv, OrderlyInv, [Next]_vars PROVE OrderlyInv'
    OBVIOUS
<1>0. TypeOK /\ (FaultFree' => FaultFree /\ ~CrashAndRestart)
    BY FaultsAreCounted DEF IInv
<1>1. ASSUME NEW b \in Block, ProcessBlock(b) PROVE OrderlyInv'
  <2>1. CASE Prev[b] \in index
      BY <1>0, <1>1, <2>1, AcceptBlockOrderly DEF ProcessBlock
  <2>2. CASE Prev[b] \notin index
    <3>1. orphans' = orphans \cup {b} /\ UNCHANGED <<index, job, best, skewed>>
        BY <1>1, <2>2 DEF ProcessBlock
    <3>2. \A x \in Block : (Queued(x) <=> Queued(x)') /\ (Trying(x) <=> Trying(x)')
        BY <3>1 DEF Queued, Trying
    <3>3. index \subseteq Block
        BY <1>0 DEF TypeOK
    <3>4. FaultFree' => \A o \in orphans' : Prev[o] \in index' =>
              ~ChainValid(Prev[o]) \/ Queued(Prev[o])' \/ Trying(Prev[o])'
        BY <1>0, <2>2, <3>1, <3>2, <3>3 DEF OrderlyInv
    <3>5. FaultFree' => /\ ~skewed'
                        /\ \A x \in index' :
                              ChainWork[x] > ChainWork[best'] /\ ChainValid(x) => Trying(x)'
        BY <1>0, <3>1, <3>2, <3>3 DEF OrderlyInv
    <3> QED
        BY <1>0, <3>1, <3>4, <3>5 DEF OrderlyInv
  <2> QED
      BY <2>1, <2>2
<1>2. ASSUME NEW b \in Block, ProcessOrphan(b) PROVE OrderlyInv'
    BY <1>0, <1>2, AcceptBlockOrderly DEF ProcessOrphan
<1>3. CASE NextInQueue
    BY <1>0, <1>3, QueueOrderly
<1>4. CASE NewBestBlock
    BY <1>0, <1>4, NewBestOrderly
<1>5. ASSUME NEW b \in Block, Reorganize(b) PROVE OrderlyInv'
    BY <1>0, <1>5, ReorganizeOrderly
<1>6. ASSUME NEW b \in Block, ReorganizeFails(b) PROVE OrderlyInv'
    BY <1>0, <1>6, FailureOrderly
<1>7. ASSUME NEW c \in Block, ConnectSecondary(c) \/ SecondaryFails(c) PROVE OrderlyInv'
  <2>1. job.stage = "secondary" /\ job.todo # {}
      BY <1>7 DEF ConnectSecondary, SecondaryFails, NextSecondary
  <2>2. ~FaultFree'
      BY <1>0, <2>1 DEF OrderlyInv
  <2>3. job'.stage = "secondary"
    <3>1. job \in JobType
        BY <1>0 DEF TypeOK, JobType
    <3> QED
        BY <1>7, <2>1, <3>1 DEF ConnectSecondary, SecondaryFails, JobType
  <2> QED
      BY <2>2, <2>3 DEF OrderlyInv
<1>8. CASE CrashAndRestart
  <2>1. job'.queue = <<>>
      BY <1>8 DEF CrashAndRestart, Idle
  <2> QED
      BY <1>0, <1>8, <2>1 DEF OrderlyInv
<1>10. CASE UnlinkMemory \/ LinkMemory
    BY <1>10, LoopsOrderly
<1>9. CASE UNCHANGED vars
  <2>1. \A x \in Block : (Queued(x) <=> Queued(x)') /\ (Trying(x) <=> Trying(x)')
      BY <1>9 DEF vars, Queued, Trying
  <2>2. index \subseteq Block
      BY <1>0 DEF TypeOK
  <2> QED
      BY <1>9, <2>1, <2>2 DEF vars, OrderlyInv, FaultFree
<1> QED
    BY <1>1, <1>2, <1>3, <1>4, <1>5, <1>6, <1>7, <1>8, <1>9, <1>10 DEF Next, Step

\* Without faults ProcessBlock never leaves a better valid chain behind, except the one
\* that SetBestChain is working on, at any moment of a call.
THEOREM Orderly == Spec => []OrderlyInv
    BY InitOrderly, NextOrderly, Inductive, PTL DEF Spec

\* Without crashes and I/O failures, whatever the order of arrival: nothing is
\* skewed, and between two calls of ProcessBlock no valid chain in the index beats
\* the best one and no orphan is left behind a parent that could be connected.
THEOREM SettlesOnBest == Spec => []SettledOnBest
<1>1. IInv /\ OrderlyInv => SettledOnBest
  <2> SUFFICES ASSUME IInv, OrderlyInv PROVE SettledOnBest
      OBVIOUS
  <2>1. /\ index \subseteq Block /\ best \in Block /\ ChainWork \in [Block -> Nat]
      BY WorkAssumption DEF IInv, TypeOK
  <2>2. job.stage = "idle" => \A x \in Block : ~Queued(x) /\ ~Trying(x)
      BY DEF OrderlyInv, Queued, Trying
  <2>3. SkewNeedsFault
      BY DEF OrderlyInv, SkewNeedsFault
  <2>4. BestIsMaximal
      BY <2>1, <2>2 DEF OrderlyInv, BestIsMaximal
  <2>5. NoStrandedOrphans
      BY <2>1, <2>2 DEF OrderlyInv, NoStrandedOrphans
  <2> QED
      BY <2>3, <2>4, <2>5 DEF SettledOnBest
<1> QED
    BY <1>1, Inductive, Orderly, PTL

\* Crashes included, the work recorded for the "longer invalid chain" warning is
\* that of an indexed chain with an invalid block, unless an I/O failure or a skew
\* made the connection fail.
THEOREM InvalidWorkHolds == Spec => []InvalidWorkIsReal
<1>1. Init => InvalidWorkIsReal
    BY DEF Init, InvalidWorkIsReal
<1>2. ASSUME IInv, InvalidWorkIsReal, [Next]_vars PROVE InvalidWorkIsReal'
  <2>0. /\ TypeOK /\ glitches \in Nat /\ (glitches' = glitches \/ glitches' = glitches + 1)
        /\ glitches = 0 => index = disk.index
      BY <1>2, FaultsAreCounted, BoundAssumption DEF IInv, TypeOK, IndexInv, RecordsInv
  <2>1. CASE invalidWork' = invalidWork /\ index \subseteq index' /\ skewed' = skewed
      BY <1>2, <2>0, <2>1 DEF InvalidWorkIsReal
  <2>2. ASSUME NEW b \in Block, ProcessBlock(b) \/ ProcessOrphan(b)
        PROVE  InvalidWorkIsReal'
    <3>1. AcceptBlock(b) => index \subseteq index'
        BY DEF AcceptBlock
    <3> QED
        BY <2>1, <2>2, <3>1 DEF ProcessBlock, ProcessOrphan
  <2>3. ASSUME NEW t \in Block, ReorganizeFails(t) PROVE InvalidWorkIsReal'
    <3> SUFFICES ASSUME glitches' = 0, ~skewed', invalidWork' > 0
                 PROVE  \E b \in index' : ~ChainValid(b) /\ ChainWork[b] = invalidWork'
        BY DEF InvalidWorkIsReal
    <3>1. glitches' = glitches /\ ~skewed /\ UNCHANGED index
        BY <2>0, <2>3 DEF ReorganizeFails, memory
    <3>2. ~ChainValid(job.block) /\ job.block \in index
        BY <1>2, <2>0, <2>3, <3>1, FailureIsReal DEF ReorganizeFails, TypeOK
    <3>3. invalidWork' \in {ChainWork[job.block], invalidWork}
        BY <2>3, <3>1 DEF ReorganizeFails, FailureRecorded, RecordInvalid
    <3> QED
        BY <1>2, <3>1, <3>2, <3>3 DEF InvalidWorkIsReal
  <2>4. ASSUME NEW c \in Block, SecondaryFails(c) PROVE InvalidWorkIsReal'
      BY <2>4 DEF SecondaryFails, InvalidWorkIsReal
  <2>5. ASSUME NEW c \in Block, Reorganize(c) \/ ConnectSecondary(c)
        PROVE  InvalidWorkIsReal'
      BY <2>1, <2>5 DEF Reorganize, ConnectSecondary, memory
  <2>6. CASE NextInQueue \/ NewBestBlock \/ UnlinkMemory \/ LinkMemory \/ UNCHANGED vars
      BY <2>1, <2>6 DEF NextInQueue, NewBestBlock, UnlinkMemory, LinkMemory, vars, memory
  <2>7. CASE CrashAndRestart
    <3>1. CASE glitches = 0
        BY <2>0, <2>1, <2>7, <3>1 DEF CrashAndRestart
    <3>2. CASE glitches # 0
        BY <2>7, <3>2 DEF CrashAndRestart, InvalidWorkIsReal
    <3> QED
        BY <3>1, <3>2
  <2> QED
      BY <1>2, <2>2, <2>3, <2>4, <2>5, <2>6, <2>7 DEF Next, Step
<1> QED
    BY <1>1, <1>2, Inductive, PTL DEF Spec

\* A node that never crashes and never meets an I/O failure implements BestChain
\* outright: as a temporal formula, initial state and every step.
THEOREM FaultlessRefinement ==
    ASSUME MaxCrashes = 0, MaxGlitches = 0
    PROVE  Spec => Refinement
<1>1. IInv /\ OrderlyInv => ~skewed
    BY DEF IInv, OrderlyInv, TypeOK, FaultFree
<1>2. ASSUME IInv, IInv', [~skewed /\ job'.stage # "lost" =>
                  Abstract!Next \/ (crashes' # crashes /\ Abstract!Forget)
              ]_<<index, disk.best, disk.applied>>, ~skewed
      PROVE  [Abstract!Next]_<<index, disk.best, disk.applied>>
  <2>1. crashes = 0 /\ crashes' = 0 /\ glitches' = 0
      BY <1>2 DEF IInv, TypeOK
  <2>2. job'.stage # "lost"
      BY <1>2, <2>1 DEF IInv, IndexInv
  <2> QED
      BY <1>2, <2>1, <2>2
<1> QED
    BY <1>1, <1>2, Inductive, Orderly, ImplementsBestChain, PTL
    DEF StepRefinement, Refinement, Abstract!Spec
=============================================================================
