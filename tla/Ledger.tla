------------------------------- MODULE Ledger --------------------------------
(***************************************************************************)
(* The index of one node while its chain grows and shrinks.  Any block may *)
(* be offered on any tip and the tip may be taken off again, which is all  *)
(* that the reorganisations of ChainState do.  Each of the two is one      *)
(* database transaction or part of one: when it fails, nothing of it is    *)
(* kept.                                                                   *)
(***************************************************************************)
EXTENDS TxIndex

CONSTANTS
    Candidates,  \* bound: the blocks that are offered
    MaxHeight    \* bound: blocks on top of the genesis block

Height == 1..MaxHeight

ASSUME LedgerAssumption == Candidates \subseteq Seq(Tx) /\ MaxHeight \in Nat

VARIABLES
    chain,      \* the connected blocks, the genesis block left out
    txindex,    \* the committed "tx" records
    replaced    \* history: a block has replaced the record of a spent transaction

vars == <<chain, txindex, replaced>>

Record(t) ==
    {Absent} \cup [pos : Height,
                   spent : [1..Len(Out[t]) -> {Unspent} \cup (Height \X Tx)]]

TypeOK ==
    /\ chain \in Seq(Candidates) /\ Len(chain) <= MaxHeight
    /\ DOMAIN txindex = Tx /\ \A t \in Tx : txindex[t] \in Record(t)
    /\ replaced \in BOOLEAN

Init == chain = <<>> /\ txindex = NoRecords /\ replaced = FALSE

ConnectBlock(b) ==
    /\ Len(chain) < MaxHeight
    /\ Connects(txindex, b, Len(chain) + 1)
    /\ txindex' = Updated(txindex, b, Len(chain) + 1)
    /\ chain' = Append(chain, b)
    /\ replaced' = (replaced \/ \E t \in ToSet(b) : txindex[t] # Absent)

DisconnectBlock ==
    /\ chain # <<>>
    /\ Undo(txindex, Last(chain)).ok
    /\ txindex' = Undo(txindex, Last(chain)).index
    /\ chain' = Front(chain)
    /\ UNCHANGED replaced

Next == DisconnectBlock \/ \E b \in Candidates : ConnectBlock(b)

Spec == Init /\ [][Next]_vars

-----------------------------------------------------------------------------
(* The reference: what a chain of blocks means, without spent pointers     *)

\* the coins that exist after h blocks
ChainCoins(blocks) ==
    LET coins[h \in 0..Len(blocks)] ==
            IF h = 0 THEN {} ELSE Coins(coins[h - 1], blocks[h])[Len(blocks[h])]
    IN coins
TipCoins == ChainCoins(chain)[Len(chain)]

\* the last block that holds t: a later instance replaces an earlier one
HeightOf(t) ==
    CHOOSE h \in DOMAIN chain : /\ t \in ToSet(chain[h])
                                /\ \A i \in h+1..Len(chain) : t \notin ToSet(chain[i])

\* a block is valid on the chain when each transaction spends existing, mature
\* coins worth at least its outputs, replaces no coin of the chain, and the
\* coinbase takes no more than what is left over
ValidBlock(b) ==
    LET base == TipCoins
        before(i) == Coins(base, b)[i - 1]
        spent == UNION {In[t] : t \in ToSet(b)}
    IN /\ CheckBlock(b)
       /\ \A i \in DOMAIN b :
             /\ In[b[i]] \subseteq before(i)
             /\ \A o \in base : o[1] # b[i]
             /\ \A o \in In[b[i]] :
                   o[1] \in Coinbase =>
                       o[1] \notin ToSet(b) /\ Len(chain) + 1 - HeightOf(o[1]) >= Maturity
             /\ i > 1 => ValueOf(In[b[i]]) >= ValueOut(b[i])
       /\ MapThenSumSet(ValueOut, ToSet(b)) <= Subsidy + ValueOf(spent)

-----------------------------------------------------------------------------
(* Properties                                                              *)

CoinsInIndex ==
    {o \in Outpoint : txindex[o[1]] # Absent /\ txindex[o[1]].spent[o[2]] = Unspent}

\* After any sequence of connects and disconnects the unspent outputs of the
\* index are the coins of the chain: no path leaves a spent mark or a record
\* behind, and every record has a flag for each output of its transaction, so
\* ChainState may take the index for a function of the tip.
IndexIsTheChain == TypeOK /\ CoinsInIndex = TipCoins

\* ConnectBlock accepts exactly the valid blocks: spent marks, queued records of
\* the same block, maturity by block position and BIP30 together.
AcceptsValidBlocks ==
    Len(chain) < MaxHeight =>
        \A b \in Candidates : Connects(txindex, b, Len(chain) + 1) <=> ValidBlock(b)

\* Disconnecting a block right after connecting it restores the index, except
\* for the records of fully spent transactions that the block replaced.
ConnectIsUndone ==
    Len(chain) < MaxHeight =>
        \A b \in Candidates : Connects(txindex, b, Len(chain) + 1) =>
            LET undone == Undo(Updated(txindex, b, Len(chain) + 1), b)
            IN /\ undone.ok
               /\ \A t \in Tx \ ToSet(b) : undone.index[t] = txindex[t]

\* The comment in DisconnectInputs: erasing the record of a replaced duplicate is
\* as good as keeping it, so a connected block can always be disconnected.
TipCanBeDisconnected == chain # <<>> => Undo(txindex, Last(chain)).ok

\* DisconnectBlock fails only where a duplicate has replaced a record: without one
\* a reorganisation finds every record that it needs.
OnlyDuplicatesBlock == ~replaced => TipCanBeDisconnected
=============================================================================
