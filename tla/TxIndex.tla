------------------------------ MODULE TxIndex -------------------------------
(***************************************************************************)
(* The transaction index (CTxIndex in blkindex.dat) as a value, and what   *)
(* connecting and disconnecting a block computes from it: CheckBlock,      *)
(* ConnectBlock, FetchInputs, ConnectInputs, DisconnectBlock and           *)
(* DisconnectInputs.  A transaction is identified with its hash, a block   *)
(* with the sequence of its transactions, a position on disk with the      *)
(* height of the block that is stored there.                               *)
(***************************************************************************)
EXTENDS Naturals, FiniteSets, SequencesExt

CONSTANTS
    Tx,          \* transactions
    Coinbase,    \* those that are coinbases
    In,          \* vin: the outpoints <<tx, n>> that a transaction spends
    Out,         \* vout: the values of its outputs
    Subsidy,     \* GetBlockValue without fees
    Maturity     \* COINBASE_MATURITY

Outpoint == UNION {{t} \X (1..Len(Out[t])) : t \in Tx}

ASSUME TxAssumption ==
    /\ Coinbase \subseteq Tx
    /\ Out \in [Tx -> Seq(Nat)]
    /\ In \in [Tx -> SUBSET (Tx \X Nat)]
    /\ \A t \in Coinbase : In[t] = {}
    /\ \A t \in Tx : IsFiniteSet(In[t])          \* vin is a vector
    /\ Subsidy \in Nat /\ Maturity \in Nat \ {0}

\* A record: pos is the block that holds the transaction (nFile, nBlockPos),
\* spent[n] the block and transaction that spend output n.
Absent == [pos |-> 0, spent |-> <<>>]      \* there is no record
Unspent == <<0, 0>>                        \* a null CDiskTxPos
NoRecords == [t \in Tx |-> Absent]

-----------------------------------------------------------------------------
(* ConnectBlock                                                            *)

ValueOut(t) == MapThenSumSet(LAMBDA n : Out[t][n], 1..Len(Out[t]))
ValueOf(outpoints) == MapThenSumSet(LAMBDA o : Out[o[1]][o[2]], outpoints)

\* the part of CheckBlock and CheckTransaction that concerns the ledger
CheckBlock(b) ==
    /\ Len(b) > 0 /\ b[1] \in Coinbase
    /\ \A i \in 2..Len(b) : b[i] \notin Coinbase
    /\ IsInjective(b)

\* BIP30: no record with an unspent output may be overwritten
Overwrites(index, t) ==
    /\ index[t] # Absent
    /\ \E n \in DOMAIN index[t].spent : index[t].spent[n] = Unspent

Fetched_Committed(index, queue, t) ==
    IF index[t] # Absent THEN index[t] ELSE queue[t]
\* FetchInputs for a block: the queued changes hide the committed record
Fetched(index, queue, t) == IF queue[t] # Absent THEN queue[t] ELSE index[t]

Found(index, queue, o) ==
    Fetched(index, queue, o[1]) # Absent /\ o[2] \in DOMAIN Fetched(index, queue, o[1]).spent

Immature_OffByOne(index, queue, o, h) ==
    /\ o[1] \in Coinbase
    /\ Fetched(index, queue, o[1]).pos + Maturity >= h + 2
\* The loop over the last Maturity blocks, the one being connected included
Immature(index, queue, o, h) ==
    /\ o[1] \in Coinbase
    /\ Fetched(index, queue, o[1]).pos + Maturity > h

\* ConnectInputs: what an input must satisfy
Spendable(index, queue, o, h) ==
    /\ Found(index, queue, o)
    /\ ~Immature(index, queue, o, h)
    /\ Fetched(index, queue, o[1]).spent[o[2]] = Unspent

Queued_SizedByInputs(index, queue, t, h) ==
    [queue EXCEPT ![t] = [pos |-> h, spent |-> [n \in 1..Cardinality(In[t]) |-> Unspent]]]
\* ConnectInputs marks the outputs spent in the queued records, ConnectBlock
\* queues the record of the transaction itself.
Queued(index, queue, t, h) ==
    [p \in Tx |->
        IF p = t THEN [pos |-> h, spent |-> [n \in 1..Len(Out[t]) |-> Unspent]]
        ELSE IF \E o \in In[t] : o[1] = p
             THEN [Fetched(index, queue, p) EXCEPT !.spent =
                      [n \in DOMAIN @ |-> IF <<p, n>> \in In[t] THEN <<h, t>> ELSE @[n]]]
             ELSE queue[p]]

\* one round of the loop over vtx
ConnectTx(index, r, t, h) ==
    IF /\ r.ok /\ ~Overwrites(index, t)
       /\ \A o \in In[t] : Spendable(index, r.queue, o, h)
       /\ t \notin Coinbase => ValueOf(In[t]) >= ValueOut(t)
    THEN [ok |-> TRUE, queue |-> Queued(index, r.queue, t, h),
          fees |-> r.fees + IF t \in Coinbase THEN 0 ELSE ValueOf(In[t]) - ValueOut(t)]
    ELSE [r EXCEPT !.ok = FALSE]

\* the whole loop
Scan(index, b, h) ==
    LET r[i \in 0..Len(b)] == IF i = 0 THEN [ok |-> TRUE, queue |-> NoRecords, fees |-> 0]
                              ELSE ConnectTx(index, r[i - 1], b[i], h)
    IN r[Len(b)]

Claims_FeesTwice(b, fees) == ValueOut(b[1]) <= Subsidy + 2 * fees
\* the coinbase may claim the subsidy and the fees
Claims(b, fees) == ValueOut(b[1]) <= Subsidy + fees

Connects(index, b, h) ==
    /\ CheckBlock(b)
    /\ LET r == Scan(index, b, h) IN r.ok /\ Claims(b, r.fees)

\* UpdateTxIndex for every queued change
Updated(index, b, h) ==
    LET queue == Scan(index, b, h).queue IN [t \in Tx |-> Fetched(index, queue, t)]

-----------------------------------------------------------------------------
(* DisconnectBlock                                                         *)

\* the records after the outputs that t spends have been marked unspent
Released(index, t) ==
    [p \in Tx |->
        [index[p] EXCEPT !.spent =
            [n \in DOMAIN @ |-> IF <<p, n>> \in In[t] THEN Unspent ELSE @[n]]]]

\* DisconnectInputs: release what the transaction spent, erase its record
DisconnectTx(r, t) ==
    IF r.ok /\ \A o \in In[t] : o[2] \in DOMAIN r.index[o[1]].spent
    THEN [ok |-> TRUE, index |-> [Released(r.index, t) EXCEPT ![t] = Absent]]
    ELSE [r EXCEPT !.ok = FALSE]

Undo_InOrder(index, b) ==
    LET r[i \in 0..Len(b)] == IF i = 0 THEN [ok |-> TRUE, index |-> index]
                              ELSE DisconnectTx(r[i - 1], b[i])
    IN r[Len(b)]
\* the transactions of the block in reverse order
Undo(index, b) ==
    LET r[i \in 0..Len(b)] == IF i = 0 THEN [ok |-> TRUE, index |-> index]
                              ELSE DisconnectTx(r[i - 1], b[Len(b) + 1 - i])
    IN r[Len(b)]

-----------------------------------------------------------------------------
\* what a transaction does to the coins that exist
Outputs(t) == {t} \X (1..Len(Out[t]))
Spend(coins, t) == (coins \ In[t]) \cup Outputs(t)

\* the coins that exist after i transactions of a block, from those before it
Coins(base, b) ==
    LET coins[i \in 0..Len(b)] == IF i = 0 THEN base ELSE Spend(coins[i - 1], b[i])
    IN coins
=============================================================================
