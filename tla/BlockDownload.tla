---------------------------- MODULE BlockDownload -----------------------------
(***************************************************************************)
(* How a node fetches a chain from its peers: getblocks answered by        *)
(* inventory in batches, getdata answered by blocks, the extra inv after   *)
(* the last block of a batch that makes the node ask for the next one, and *)
(* orphan blocks that make it ask for what lies in between.  Requests that *)
(* were made of one peer are put off for the others by mapAlreadyAskedFor. *)
(*                                                                         *)
(* The chain is a line of valid blocks 1, 2, ... above the genesis block   *)
(* 0; a peer runs the same code and has a prefix of it.  A connection      *)
(* keeps its messages in order and loses all of them when it ends.         *)
(***************************************************************************)
EXTENDS Integers, Sequences, FiniteSets, SequencesExt

CONSTANTS
    Peer,
    nLimit,        \* inventory in the answer to a getblocks
    InitHeight,    \* bound: blocks that the peers have at the beginning
    MaxHeight,     \* bound: blocks that there are at the end
    Finder,        \* bound: peers that get new blocks
    MaxDrops       \* bound: connections that are lost

ASSUME BlockDownloadAssumption ==
    /\ nLimit \in Nat \ {0} /\ MaxDrops \in Nat
    /\ InitHeight \in Nat /\ MaxHeight \in Nat /\ InitHeight <= MaxHeight

Block == 1..MaxHeight
NoBlock == MaxHeight + 1   \* the hash 0

VARIABLES
    \* this node
    best,              \* height of pindexBest; mapBlockIndex holds 0..best
    mapOrphanBlocks,
    asked,             \* blocks that have an entry in mapAlreadyAskedFor
    nAskedForBlocks,   \* whether it is positive
    \* its CNode of each peer
    vNodes,
    mapAskFor,         \* [now, later]: what is due, and what was put off
    lastGetBlocks,     \* pindexLastGetBlocksBegin and hashLastGetBlocksEnd
    \* the peers
    height,
    vInventoryToSend,
    setInventoryKnown,
    hashContinue,
    \* messages on their way
    toPeer,
    toNode,
    drops,
    \* history
    disturbed,         \* a second peer was connected, or a connection lost
    woken              \* best when an unknown block appeared while all was quiet, or -1

nodeVars == <<best, mapOrphanBlocks, asked, nAskedForBlocks>>
cnodeVars == <<vNodes, mapAskFor, lastGetBlocks>>
peerVars == <<height, vInventoryToSend, setInventoryKnown, hashContinue>>
wireVars == <<toPeer, toNode>>
historyVars == <<disturbed, woken>>
vars == <<nodeVars, cnodeVars, peerVars, wireVars, drops, historyVars>>

GetBlocks(begin, stop) == [type |-> "getblocks", begin |-> begin, stop |-> stop]
GetData(blocks) == [type |-> "getdata", blocks |-> blocks]
Inv(blocks) == [type |-> "inv", blocks |-> blocks]
BlockMsg(b) == [type |-> "block", block |-> b]

TypeOK ==
    /\ best \in 0..MaxHeight /\ mapOrphanBlocks \subseteq Block /\ asked \subseteq Block
    /\ nAskedForBlocks \in BOOLEAN
    /\ vNodes \subseteq Peer
    /\ mapAskFor \in [Peer -> [now : Seq(Block), later : Seq(Block)]]
    /\ lastGetBlocks \in [Peer -> (0..NoBlock) \X (1..NoBlock)]
    /\ height \in [Peer -> 0..MaxHeight]
    /\ vInventoryToSend \in [Peer -> Seq(Block)]
    /\ setInventoryKnown \in [Peer -> SUBSET Block]
    /\ hashContinue \in [Peer -> 1..NoBlock]
    /\ drops \in 0..MaxDrops /\ disturbed \in BOOLEAN /\ woken \in -1..MaxHeight

\* nothing is on its way, to be sent or to be asked for
Quiet(p) ==
    /\ toPeer[p] = <<>> /\ toNode[p] = <<>>
    /\ mapAskFor[p].now = <<>> /\ mapAskFor[p].later = <<>> /\ vInventoryToSend[p] = <<>>
AllQuiet == \A p \in vNodes : Quiet(p)

Unconnected == [now |-> <<>>, later |-> <<>>]

Init ==
    /\ best = 0 /\ mapOrphanBlocks = {} /\ asked = {} /\ nAskedForBlocks = FALSE
    /\ vNodes = {}
    /\ mapAskFor = [p \in Peer |-> Unconnected]
    /\ lastGetBlocks = [p \in Peer |-> <<NoBlock, NoBlock>>]
    /\ height = [p \in Peer |-> InitHeight]
    /\ vInventoryToSend = [p \in Peer |-> <<>>]
    /\ setInventoryKnown = [p \in Peer |-> {}]
    /\ hashContinue = [p \in Peer |-> NoBlock]
    /\ toPeer = [p \in Peer |-> <<>>] /\ toNode = [p \in Peer |-> <<>>]
    /\ drops = 0 /\ disturbed = FALSE /\ woken = -1

-----------------------------------------------------------------------------
(* This node                                                               *)

\* Slips that the run must notice are named <operator>_<slip>
AlreadyHave(b) == b <= best \/ b \in mapOrphanBlocks

\* the first block of the orphan chain below b
GetOrphanRoot(b, orphans) ==
    CHOOSE r \in orphans : r <= b /\ r..b \subseteq orphans /\ r - 1 \notin orphans

\* c is a connection: the last request and the messages to send
PushGetBlocks(c, begin, stop) ==
    IF c.last = <<begin, stop>> THEN c
    ELSE [last |-> <<begin, stop>>, out |-> Append(c.out, GetBlocks(begin, stop))]

Conn(p) == [last |-> lastGetBlocks[p], out |-> toPeer[p]]
SetConn(p, c) ==
    /\ lastGetBlocks' = [lastGetBlocks EXCEPT ![p] = c.last]
    /\ toPeer' = [toPeer EXCEPT ![p] = c.out]

\* The version message of a peer: the first one is asked for blocks, and one that is alone.
Connect(p) ==
    /\ p \notin vNodes
    /\ vNodes' = vNodes \cup {p}
    /\ IF ~nAskedForBlocks \/ vNodes = {}
       THEN nAskedForBlocks' = TRUE /\ SetConn(p, PushGetBlocks(Conn(p), best, NoBlock))
       ELSE UNCHANGED <<nAskedForBlocks, lastGetBlocks, toPeer>>
    /\ disturbed' = (disturbed \/ vNodes # {})
    /\ UNCHANGED <<best, mapOrphanBlocks, asked, mapAskFor, peerVars, toNode, drops, woken>>

\* what one entry of an inv message makes the node push
Pushed(c, b, isLast) ==
    IF b \in mapOrphanBlocks THEN PushGetBlocks(c, best, GetOrphanRoot(b, mapOrphanBlocks))
    ELSE IF b <= best /\ isLast THEN PushGetBlocks(c, b, NoBlock)
    ELSE c

\* AskFor: at once, or two minutes after the last request for this block
AskFor(a, b) ==
    IF b \in asked THEN [a EXCEPT !.later = Append(@, b)] ELSE [a EXCEPT !.now = Append(@, b)]

HandleInv(p) ==
    /\ toNode[p] # <<>> /\ Head(toNode[p]).type = "inv"
    /\ LET inv == Head(toNode[p]).blocks
           missing == SelectSeq(inv, LAMBDA b : ~AlreadyHave(b))
       IN /\ mapAskFor' = [mapAskFor EXCEPT ![p] = FoldLeft(AskFor, @, missing)]
          /\ asked' = asked \cup ToSet(missing)
          /\ SetConn(p, FoldLeft(LAMBDA c, i : Pushed(c, inv[i], i = Len(inv)), Conn(p),
                                 [i \in DOMAIN inv |-> i]))
    /\ toNode' = [toNode EXCEPT ![p] = Tail(@)]
    /\ UNCHANGED <<best, mapOrphanBlocks, nAskedForBlocks, vNodes, peerVars, drops, historyVars>>

\* ProcessBlock without the previous block: keep it, and ask for what is in between
StoreOrphan_KeepsAsked(p, b) ==
    /\ ~AlreadyHave(b) /\ b > best + 1
    /\ mapOrphanBlocks' = mapOrphanBlocks \cup {b}
    /\ SetConn(p, PushGetBlocks(Conn(p), best, GetOrphanRoot(b, mapOrphanBlocks')))
    /\ UNCHANGED <<best, asked>>
StoreOrphan_OnlyStores(p, b) ==
    /\ ~AlreadyHave(b) /\ b > best + 1
    /\ mapOrphanBlocks' = mapOrphanBlocks \cup {b}
    /\ asked' = asked \ {b}
    /\ UNCHANGED <<best, lastGetBlocks, toPeer>>
StoreOrphan(p, b) ==
    /\ ~AlreadyHave(b) /\ b > best + 1
    /\ mapOrphanBlocks' = mapOrphanBlocks \cup {b}
    /\ SetConn(p, PushGetBlocks(Conn(p), best, GetOrphanRoot(b, mapOrphanBlocks')))
    /\ asked' = asked \ {b}
    /\ UNCHANGED best

\* ... and with it: the block connects, and the orphans above it after it
ConnectBlock(b) ==
    /\ b = best + 1
    /\ best' = CHOOSE t \in b..MaxHeight :
                  b + 1..t \subseteq mapOrphanBlocks /\ t + 1 \notin mapOrphanBlocks
    /\ mapOrphanBlocks' = {o \in mapOrphanBlocks : o > best'}
    /\ asked' = asked \ {b}
    /\ UNCHANGED <<lastGetBlocks, toPeer>>

\* a block that came before
IgnoreBlock(b) ==
    /\ AlreadyHave(b)
    /\ UNCHANGED <<best, mapOrphanBlocks, asked, lastGetBlocks, toPeer>>

HandleBlock(p) ==
    /\ toNode[p] # <<>> /\ Head(toNode[p]).type = "block"
    /\ LET b == Head(toNode[p]).block IN StoreOrphan(p, b) \/ ConnectBlock(b) \/ IgnoreBlock(b)
    /\ toNode' = [toNode EXCEPT ![p] = Tail(@)]
    /\ UNCHANGED <<nAskedForBlocks, vNodes, mapAskFor, peerVars, drops, historyVars>>

\* what stays in mapAskFor when the entries of due were served
Served_SkipsErase(a, due) ==
    [now |-> SelectSeq(due, AlreadyHave), later |-> IF due = a.now THEN a.later ELSE <<>>]
Served(a, due) == [now |-> <<>>, later |-> IF due = a.now THEN a.later ELSE <<>>]

\* SendMessages: getdata for what is due and still missing.  What was put off becomes
\* due at some time after what was not.
SendGetData(p) ==
    /\ p \in vNodes
    /\ \E due \in {mapAskFor[p].now, mapAskFor[p].now \o mapAskFor[p].later} :
          LET wanted == SelectSeq(due, LAMBDA b : ~AlreadyHave(b))
          IN /\ due # <<>>
             /\ mapAskFor' = [mapAskFor EXCEPT ![p] = Served(@, due)]
             /\ toPeer' = [toPeer EXCEPT ![p] = IF wanted = <<>> THEN @
                                                ELSE Append(@, GetData(wanted))]
             /\ asked' = asked \cup ToSet(wanted)
    /\ UNCHANGED <<best, mapOrphanBlocks, nAskedForBlocks, vNodes, lastGetBlocks, peerVars,
                   toNode, drops, historyVars>>

-----------------------------------------------------------------------------
(* A peer                                                                  *)

PushInventory(p, blocks) ==
    vInventoryToSend' = [vInventoryToSend EXCEPT ![p] =
                            @ \o SelectSeq(blocks, LAMBDA b : b \notin setInventoryKnown[p])]

Successor_Itself(b, p) == IF b < height[p] THEN b ELSE height[p] + 1
\* the first block to announce: pnext of the last one that both have
Successor(b, p) == IF b < height[p] THEN b + 1 ELSE height[p] + 1

HandleGetBlocks(p) ==
    /\ toPeer[p] # <<>> /\ Head(toPeer[p]).type = "getblocks"
    /\ LET req == Head(toPeer[p])
           from == Successor(req.begin, p)
           last == IF req.stop >= from /\ req.stop <= height[p] THEN req.stop - 1 ELSE height[p]
           full == last - from + 1 >= nLimit
           to == IF full THEN from + nLimit - 1 ELSE last
       IN /\ PushInventory(p, [i \in 1..to - from + 1 |-> from + i - 1])
          /\ hashContinue' = IF full THEN [hashContinue EXCEPT ![p] = to] ELSE hashContinue
    /\ toPeer' = [toPeer EXCEPT ![p] = Tail(@)]
    /\ UNCHANGED <<nodeVars, cnodeVars, height, setInventoryKnown, toNode, drops, historyVars>>

\* The answer to one entry of a getdata; r is what the peer sends and its hashContinue.
\* After the last block of a batch comes its best block, which makes the node go on.
Reply_NoInv(r, b, p) ==
    IF b > height[p] THEN r ELSE [r EXCEPT !.out = Append(@, BlockMsg(b))]
Reply(r, b, p) ==
    IF b > height[p] THEN r
    ELSE IF b # r.cont THEN [r EXCEPT !.out = Append(@, BlockMsg(b))]
    ELSE [out |-> r.out \o <<BlockMsg(b), Inv(<<height[p]>>)>>, cont |-> NoBlock]

HandleGetData(p) ==
    /\ toPeer[p] # <<>> /\ Head(toPeer[p]).type = "getdata"
    /\ LET r == FoldLeft(LAMBDA t, b : Reply(t, b, p),
                         [out |-> toNode[p], cont |-> hashContinue[p]], Head(toPeer[p]).blocks)
       IN /\ toNode' = [toNode EXCEPT ![p] = r.out]
          /\ hashContinue' = [hashContinue EXCEPT ![p] = r.cont]
    /\ toPeer' = [toPeer EXCEPT ![p] = Tail(@)]
    /\ UNCHANGED <<nodeVars, cnodeVars, height, vInventoryToSend, setInventoryKnown, drops,
                   historyVars>>

\* SendMessages: each block is announced once on a connection
SendInv(p) ==
    /\ vInventoryToSend[p] # <<>>
    /\ LET inv == SelectSeq(vInventoryToSend[p], LAMBDA b : b \notin setInventoryKnown[p])
       IN /\ toNode' = [toNode EXCEPT ![p] = IF inv = <<>> THEN @ ELSE Append(@, Inv(inv))]
          /\ setInventoryKnown' = [setInventoryKnown EXCEPT ![p] = @ \cup ToSet(inv)]
    /\ vInventoryToSend' = [vInventoryToSend EXCEPT ![p] = <<>>]
    /\ UNCHANGED <<nodeVars, cnodeVars, height, hashContinue, toPeer, drops, historyVars>>

\* AcceptBlock of a peer: the new block is announced
NewBlock(p) ==
    /\ p \in Finder /\ height[p] < MaxHeight
    /\ height' = [height EXCEPT ![p] = @ + 1]
    /\ IF p \in vNodes THEN PushInventory(p, <<height[p] + 1>>) ELSE UNCHANGED vInventoryToSend
    /\ woken' = IF p \in vNodes /\ AllQuiet /\ ~AlreadyHave(height[p] + 1) THEN best ELSE woken
    /\ UNCHANGED <<nodeVars, cnodeVars, setInventoryKnown, hashContinue, wireVars, drops,
                   disturbed>>

-----------------------------------------------------------------------------
\* The connection ends: both sides forget their CNode.
Drop(p) ==
    /\ p \in vNodes /\ drops < MaxDrops
    /\ drops' = drops + 1 /\ disturbed' = TRUE /\ woken' = -1
    /\ vNodes' = vNodes \ {p}
    /\ mapAskFor' = [mapAskFor EXCEPT ![p] = Unconnected]
    /\ lastGetBlocks' = [lastGetBlocks EXCEPT ![p] = <<NoBlock, NoBlock>>]
    /\ vInventoryToSend' = [vInventoryToSend EXCEPT ![p] = <<>>]
    /\ setInventoryKnown' = [setInventoryKnown EXCEPT ![p] = {}]
    /\ hashContinue' = [hashContinue EXCEPT ![p] = NoBlock]
    /\ toPeer' = [toPeer EXCEPT ![p] = <<>>] /\ toNode' = [toNode EXCEPT ![p] = <<>>]
    /\ UNCHANGED <<nodeVars, height>>

Steps(p) ==
    \/ HandleInv(p) \/ HandleBlock(p) \/ SendGetData(p)
    \/ HandleGetBlocks(p) \/ HandleGetData(p) \/ SendInv(p)

Next == \E p \in Peer : Steps(p) \/ Connect(p) \/ NewBlock(p) \/ Drop(p)

Spec == Init /\ [][Next]_vars

\* the message handler threads of both sides serve every node again and again, and
\* what was put off becomes due
FairSpec == Spec /\ \A p \in Peer : WF_vars(Steps(p))

-----------------------------------------------------------------------------
(* Properties                                                              *)

\* A download from one peer does not end before the node has the peer's chain,
\* whatever blocks the peer finds meanwhile and however many batches it takes.
QuietIsSynced == vNodes # {} /\ AllQuiet /\ ~disturbed => \A p \in vNodes : best = height[p]

\* With several peers, or after a lost connection, a download can come to rest too
\* early; the next new block sets it going again and gains at least one block.
NewBlockWakes == woken >= 0 /\ AllQuiet => best > woken

\* mapAlreadyAskedFor names only blocks that are missing: what arrived from any peer
\* was erased, also when it arrived as an orphan.
AskedIsMissing == TypeOK /\ \A b \in asked : ~AlreadyHave(b)

\* The exchange of inv, getblocks and getdata ends when no block is found any more
\* and no connection is made or lost.
ComesToRest == <>[]AllQuiet
=============================================================================
