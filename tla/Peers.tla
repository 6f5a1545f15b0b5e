-------------------------------- MODULE Peers ---------------------------------
(***************************************************************************)
(* The CNode objects of net.cpp: made when a connection is accepted or     *)
(* opened, listed in vNodes, used by handler threads through copies of the *)
(* list, taken out when the connection ends, and deleted when no reference *)
(* is left and 15 minutes have passed.  Each outbound connection takes a   *)
(* permit of semOutbound with it.                                          *)
(*                                                                         *)
(* What happens under cs_vNodes is one step, with two exceptions where a   *)
(* thread without the lock can interfere: ConnectNode looks a node up      *)
(* under the lock and takes its reference after it, and CSemaphoreGrant    *)
(* reads its flag, posts and stores the flag without any lock of its own.  *)
(***************************************************************************)
EXTENDS Integers, FiniteSets

CONSTANTS
    Handler,       \* the threads that copy vNodes
    Socket,        \* ... one of them ThreadSocketHandler
    Opener,        \* ThreadOpenConnections and ThreadOpenAddedConnections
    Addr,          \* services that can be connected to
    Inbound,       \* in place of the address of an accepted connection
    MaxOutbound,   \* MAX_OUTBOUND_CONNECTIONS
    MaxInbound,    \* -maxconnections less MAX_OUTBOUND_CONNECTIONS
    MaxNodes       \* bound: nodes that are ever made

Node == 1..MaxNodes  \* numbered as they are made

ASSUME PeersAssumption ==
    /\ IsFiniteSet(Handler) /\ Socket \in Handler /\ IsFiniteSet(Opener)
    /\ MaxOutbound \in Nat /\ MaxInbound \in Nat /\ MaxNodes \in Nat
    /\ Inbound \notin Addr /\ Addr # {}

VARIABLES
    made,         \* number of nodes made so far
    allocated,    \* nodes that are not deleted
    vNodes,       \* ... the others of them are in vNodesDisconnected
    addr,         \* where a node was connected to
    fNetworkNode, \* nodes whose flag is set
    fDisconnect,  \* nodes whose flag is set
    nRefCount,
    recent,       \* nodes whose nReleaseTime has not come
    held,         \* vNodesCopy of each handler
    serving,      \* handlers that hold a copy
    opener,       \* where each opener is, its address, its node and the count it read
    semOutbound,  \* permits left
    grant,        \* nodes whose grantOutbound.fHaveGrant is set
    closing,      \* the node that the socket handler is taking out of vNodes
    kept,         \* history: references of ConnectNode on a node it found; never released
    torn,         \* history: an AddRef outside the lock overwrote another change
    clashed       \* history: a grant was read between another's read and its last store

vars == <<made, allocated, vNodes, addr, fNetworkNode, fDisconnect, nRefCount, recent,
          held, serving, opener, semOutbound, grant, closing, kept, torn, clashed>>
listVars == <<made, allocated, vNodes, addr>>
flagVars == <<fNetworkNode, fDisconnect, recent>>
copyVars == <<held, serving>>
permitVars == <<semOutbound, grant, closing>>
historyVars == <<kept, torn, clashed>>

fInbound == {n \in 1..made : addr[n] = Inbound}
vNodesDisconnected == allocated \ vNodes
At(o, stage) == opener[o].stage = stage
Idle == [stage |-> "idle", addr |-> Inbound, node |-> 0, count |-> 0]
Open == [node |-> 0, posted |-> FALSE]

\* cs_vNodes can be taken
Unlocked == closing = Open

OpenerState == [stage : {"idle", "granted", "looked", "found", "read", "made", "reused",
                         "posted", "cleared", "moved"},
                addr : Addr \cup {Inbound}, node : 0..MaxNodes, count : Int]

TypeOK ==
    /\ made \in 0..MaxNodes
    /\ vNodes \subseteq allocated /\ allocated \subseteq 1..made
    /\ addr \in [Node -> Addr \cup {Inbound}]
    /\ fNetworkNode \subseteq 1..made /\ fDisconnect \subseteq 1..made
    /\ recent \subseteq vNodesDisconnected
    /\ nRefCount \in [Node -> Int]
    /\ held \in [Handler -> SUBSET Node] /\ serving \subseteq Handler
    /\ opener \in [Opener -> OpenerState]
    /\ semOutbound \in Nat /\ grant \subseteq 1..made
    /\ closing \in [node : 0..MaxNodes, posted : BOOLEAN]
    /\ kept \in [Node -> Nat] /\ torn \in BOOLEAN /\ clashed \in BOOLEAN

Init ==
    /\ made = 0 /\ allocated = {} /\ vNodes = {}
    /\ addr = [n \in Node |-> Inbound]
    /\ fNetworkNode = {} /\ fDisconnect = {} /\ recent = {}
    /\ nRefCount = [n \in Node |-> 0]
    /\ held = [h \in Handler |-> {}] /\ serving = {}
    /\ opener = [o \in Opener |-> Idle]
    /\ semOutbound = MaxOutbound /\ grant = {} /\ closing = Open
    /\ kept = [n \in Node |-> 0] /\ torn = FALSE /\ clashed = FALSE

-----------------------------------------------------------------------------
(* ThreadSocketHandler2 and ThreadMessageHandler2                          *)

\* max(nRefCount, 0) + (GetTime() < nReleaseTime ? 1 : 0)
Unreferenced(n) == nRefCount[n] <= 0 /\ n \notin recent

\* nodes that go: told to, or without references and with empty buffers
Leaving == {n \in vNodes : n \in fDisconnect \/ Unreferenced(n)}

\* Slips that the run must notice are named <operator>_<slip>
Deletable_NoWait == {n \in vNodesDisconnected : nRefCount[n] <= 0}
\* of the disconnected nodes, those that no thread uses any more
Deletable == {n \in vNodesDisconnected : Unreferenced(n)}

\* an opener is between the read of the flag of n's grant and the last store to it
InsideMove(n) == \E o \in Opener : (At(o, "posted") \/ At(o, "cleared")) /\ opener[o].node = n

\* CSemaphoreGrant::Release on the grant of n, up to the post
Posted(n) == IF n \in grant THEN semOutbound + 1 ELSE semOutbound

\* The head of the socket handler's loop, for one node: out of vNodes, and the
\* permit, if the node has one, is given back.  A node with filled buffers stays.
\* Between two nodes the model lets other threads take the lock.
Disconnect(n) ==
    /\ Unlocked /\ Socket \notin serving /\ n \in Leaving
    /\ vNodes' = vNodes \ {n}
    /\ semOutbound' = Posted(n)
    /\ closing' = [node |-> n, posted |-> n \in grant]
    /\ clashed' = (clashed \/ (n \in grant /\ InsideMove(n)))
    /\ UNCHANGED <<made, allocated, addr, flagVars, nRefCount, copyVars, opener, grant,
                   kept, torn>>

PutAway_NoRelease(n) ==
    /\ grant' = grant
    /\ fDisconnect' = fDisconnect \cup {n}
    /\ recent' = recent \cup {n}
    /\ nRefCount' = IF n \in fNetworkNode \cup fInbound
                    THEN [nRefCount EXCEPT ![n] = @ - 1] ELSE nRefCount
\* ... the flag of the grant is cleared, the socket is closed, and the node waits
\* without the reference that the connection had
PutAway(n) ==
    /\ grant' = IF closing.posted THEN grant \ {n} ELSE grant
    /\ fDisconnect' = fDisconnect \cup {n}
    /\ recent' = recent \cup {n}
    /\ nRefCount' = IF n \in fNetworkNode \cup fInbound
                    THEN [nRefCount EXCEPT ![n] = @ - 1] ELSE nRefCount

FinishDisconnect ==
    /\ ~Unlocked
    /\ PutAway(closing.node)
    /\ closing' = Open
    /\ UNCHANGED <<listVars, fNetworkNode, copyVars, opener, semOutbound, historyVars>>

\* A disconnected node is deleted, unless another thread holds one of its locks; the
\* destructor of the grant gives a permit back too.
Delete(n) ==
    /\ Unlocked /\ Socket \notin serving /\ n \in Deletable
    /\ allocated' = allocated \ {n}
    /\ semOutbound' = Posted(n) /\ grant' = grant \ {n}
    /\ clashed' = (clashed \/ (n \in grant /\ InsideMove(n)))
    /\ UNCHANGED <<made, vNodes, addr, flagVars, nRefCount, copyVars, opener, closing,
                   kept, torn>>

\* a new CNode with its first reference, listed in vNodes
AddNode(a) ==
    /\ made < MaxNodes
    /\ made' = made + 1
    /\ allocated' = allocated \cup {made + 1} /\ vNodes' = vNodes \cup {made + 1}
    /\ addr' = [addr EXCEPT ![made + 1] = a]
    /\ nRefCount' = [nRefCount EXCEPT ![made + 1] = 1]

Accept ==
    /\ Unlocked /\ Socket \notin serving
    /\ Cardinality(fInbound \cap vNodes) < MaxInbound
    /\ AddNode(Inbound)
    /\ UNCHANGED <<flagVars, copyVars, opener, permitVars, historyVars>>

CopyNodes(h) ==
    /\ Unlocked /\ h \notin serving
    /\ held' = [held EXCEPT ![h] = vNodes]
    /\ serving' = serving \cup {h}
    /\ nRefCount' = [n \in Node |-> IF n \in vNodes THEN nRefCount[n] + 1 ELSE nRefCount[n]]
    /\ UNCHANGED <<listVars, flagVars, opener, permitVars, historyVars>>

\* a closed or silent connection, a send error, misbehaviour
Drop(h, n) ==
    /\ n \in held[h] \ fDisconnect
    /\ fDisconnect' = fDisconnect \cup {n}
    /\ UNCHANGED <<listVars, fNetworkNode, nRefCount, recent, copyVars, opener, permitVars,
                   historyVars>>

ReleaseNodes(h) ==
    /\ Unlocked /\ h \in serving
    /\ nRefCount' = [n \in Node |-> IF n \in held[h] THEN nRefCount[n] - 1 ELSE nRefCount[n]]
    /\ held' = [held EXCEPT ![h] = {}]
    /\ serving' = serving \ {h}
    /\ UNCHANGED <<listVars, flagVars, opener, permitVars, historyVars>>

-----------------------------------------------------------------------------
(* OpenNetworkConnection and ConnectNode                                   *)

Goto(o, r) == opener' = [opener EXCEPT ![o] = r]

\* CSemaphoreGrant grant(*semOutbound)
Acquire(o) ==
    /\ At(o, "idle") /\ semOutbound > 0
    /\ semOutbound' = semOutbound - 1
    /\ Goto(o, [Idle EXCEPT !.stage = "granted"])
    /\ UNCHANGED <<listVars, flagVars, nRefCount, copyVars, grant, closing, historyVars>>

\* no node of this address is listed
LookUp(o, a) ==
    /\ Unlocked /\ At(o, "granted")
    /\ \A n \in vNodes : addr[n] # a
    /\ Goto(o, [opener[o] EXCEPT !.stage = "looked", !.addr = a])
    /\ UNCHANGED <<listVars, flagVars, nRefCount, copyVars, permitVars, historyVars>>

\* there is one, or the address is banned, or the connection fails
GiveUp(o) ==
    /\ At(o, "granted") \/ At(o, "looked")
    /\ semOutbound' = semOutbound + 1
    /\ Goto(o, Idle)
    /\ UNCHANGED <<listVars, flagVars, nRefCount, copyVars, grant, closing, historyVars>>

\* ConnectNode: FindNode, then AddRef outside cs_vNodes
Find(o, n) ==
    /\ Unlocked /\ At(o, "looked") /\ n \in vNodes /\ addr[n] = opener[o].addr
    /\ Goto(o, [opener[o] EXCEPT !.stage = "found", !.node = n])
    /\ UNCHANGED <<listVars, flagVars, nRefCount, copyVars, permitVars, historyVars>>

ReadRef(o) ==
    /\ At(o, "found")
    /\ Goto(o, [opener[o] EXCEPT !.stage = "read", !.count = nRefCount[opener[o].node]])
    /\ UNCHANGED <<listVars, flagVars, nRefCount, copyVars, permitVars, historyVars>>

StoreRef(o) ==
    /\ At(o, "read")
    /\ nRefCount' = [nRefCount EXCEPT ![opener[o].node] = opener[o].count + 1]
    /\ torn' = (torn \/ nRefCount[opener[o].node] # opener[o].count)
    /\ kept' = [kept EXCEPT ![opener[o].node] = @ + 1]
    /\ Goto(o, [opener[o] EXCEPT !.stage = "reused", !.count = 0])
    /\ UNCHANGED <<listVars, flagVars, copyVars, permitVars, clashed>>

\* no node was found, and the connection comes about some time later
Connect(o) ==
    /\ Unlocked /\ At(o, "looked")
    /\ AddNode(opener[o].addr)
    /\ Goto(o, [opener[o] EXCEPT !.stage = "made", !.node = made + 1])
    /\ UNCHANGED <<flagVars, copyVars, permitVars, historyVars>>

\* MoveTo: the permit that the node has, if any, is given back, ...
GiveBack(o) ==
    /\ At(o, "made") \/ At(o, "reused")
    /\ semOutbound' = Posted(opener[o].node)
    /\ clashed' = (clashed \/ closing = [node |-> opener[o].node, posted |-> TRUE]
                          \/ InsideMove(opener[o].node))
    /\ Goto(o, [opener[o] EXCEPT !.stage = IF opener[o].node \in grant
                                           THEN "posted" ELSE "cleared"])
    /\ UNCHANGED <<listVars, flagVars, nRefCount, copyVars, grant, closing, kept, torn>>

\* ... its flag is cleared, ...
Clear(o) ==
    /\ At(o, "posted")
    /\ grant' = grant \ {opener[o].node}
    /\ Goto(o, [opener[o] EXCEPT !.stage = "cleared"])
    /\ UNCHANGED <<listVars, flagVars, nRefCount, copyVars, semOutbound, closing,
                   historyVars>>

Take_Copies(o) ==
    /\ At(o, "cleared")
    /\ grant' = grant \cup {opener[o].node}
    /\ semOutbound' = semOutbound + 1
    /\ Goto(o, [opener[o] EXCEPT !.stage = "moved"])
    /\ UNCHANGED <<listVars, flagVars, nRefCount, copyVars, closing, historyVars>>
\* ... and the node takes over the permit of the opener.
Take(o) ==
    /\ At(o, "cleared")
    /\ grant' = grant \cup {opener[o].node}
    /\ Goto(o, [opener[o] EXCEPT !.stage = "moved"])
    /\ UNCHANGED <<listVars, flagVars, nRefCount, copyVars, semOutbound, closing,
                   historyVars>>

\* pnode->fNetworkNode = true
MarkNetworkNode(o) ==
    /\ At(o, "moved")
    /\ fNetworkNode' = fNetworkNode \cup {opener[o].node}
    /\ Goto(o, Idle)
    /\ UNCHANGED <<listVars, fDisconnect, recent, nRefCount, copyVars, permitVars,
                   historyVars>>

-----------------------------------------------------------------------------
\* Fifteen minutes; the few instructions between FindNode and the end of AddRef take
\* less, what a handler does with its nodes may take longer.
TimePasses ==
    /\ recent # {} /\ recent' = {}
    /\ \A o \in Opener : ~At(o, "found") /\ ~At(o, "read")
    /\ UNCHANGED <<listVars, fNetworkNode, fDisconnect, nRefCount, copyVars, opener,
                   permitVars, historyVars>>

Next ==
    \/ Accept \/ FinishDisconnect \/ TimePasses
    \/ \E n \in Node : Disconnect(n) \/ Delete(n)
    \/ \E h \in Handler : CopyNodes(h) \/ ReleaseNodes(h)
    \/ \E h \in Handler, n \in Node : Drop(h, n)
    \/ \E o \in Opener :
          \/ Acquire(o) \/ GiveUp(o) \/ ReadRef(o) \/ StoreRef(o) \/ Connect(o)
          \/ GiveBack(o) \/ Clear(o) \/ Take(o) \/ MarkNetworkNode(o)
    \/ \E o \in Opener, a \in Addr : LookUp(o, a)
    \/ \E o \in Opener, n \in Node : Find(o, n)

Spec == Init /\ [][Next]_vars

-----------------------------------------------------------------------------
(* Properties                                                              *)

\* the nodes an opener has a pointer to
Pointed(o) ==
    IF At(o, "idle") \/ At(o, "granted") \/ At(o, "looked") THEN {} ELSE {opener[o].node}

\* "wait until threads are done using it": no node is deleted while a handler has it
\* in its copy or an opener has a pointer to it, with or without a reference.
UsedIsAllocated ==
    /\ \A h \in Handler : held[h] \subseteq allocated
    /\ \A o \in Opener : Pointed(o) \subseteq allocated

\* ... unless the reference count was damaged by the AddRef outside the lock
OnlyTornFrees == ~torn => UsedIsAllocated

\* openers that have a permit of their own
Carrying == {o \in Opener : ~At(o, "idle") /\ ~At(o, "moved")}

\* a permit that was posted while the flag that stands for it is still set
HalfReleased ==
    Cardinality({o \in Opener : At(o, "posted")}) + (IF closing.posted THEN 1 ELSE 0)

\* No permit is lost or made: those left, those of openers on their way and those of
\* the nodes add up, however grants are moved onto nodes that have one.
PermitsConserved ==
    semOutbound + Cardinality(Carrying) + Cardinality(grant) = MaxOutbound + HalfReleased

\* The listed outbound nodes are at most as many as there are permits, also while two
\* openers share a node and while a node is listed whose opener has the permit.
OutboundBounded == Cardinality(vNodes \ fInbound) <= MaxOutbound

\* The semaphore does its work, no permit leaks and the limit holds, until two threads
\* are inside the same grant (CSemaphoreGrant has no lock, and MoveTo is called without
\* one while the socket handler or another opener may release or move the same grant)
\* or a torn AddRef has put a grant at risk of being used after its node is deleted.
OutboundLimited == ~clashed /\ ~torn => PermitsConserved /\ OutboundBounded
=============================================================================
