----------------------------- MODULE BlockTree ------------------------------
(***************************************************************************)
(* The immutable facts about blocks that the chain code computes from the  *)
(* headers alone.  A block is identified with its hash; the hash pointers  *)
(* form a tree rooted at the genesis block, so parent, cumulative work and *)
(* ancestor set are constants.                                             *)
(***************************************************************************)
EXTENDS Integers

CONSTANTS
    Block,       \* every block that may ever be presented to the node
    Genesis,     \* hashGenesisBlock
    NoBlock,     \* the null hash / a NULL CBlockIndex pointer
    Prev,        \* hashPrevBlock of each block
    ChainWork,   \* bnChainWork: work of the chain that ends in the block
    Ancestors,   \* the block and everything reached from it through pprev
    Acceptable,  \* blocks that pass the contextual tests of AcceptBlock
    Valid,       \* blocks whose transactions connect on top of their parent
    Suspicious   \* blocks older or easier than the last checkpoint allows

ASSUME BlockAssumption ==
    /\ Genesis \in Block
    /\ NoBlock \notin Block
    /\ Acceptable \subseteq Block
    /\ Valid \subseteq Block
    /\ Suspicious \subseteq Block

ASSUME PrevAssumption ==
    /\ Prev \in [Block -> Block \cup {NoBlock}]
    /\ \A b \in Block : Prev[b] = NoBlock <=> b = Genesis

\* GetBlockWork is positive for every target CheckProofOfWork lets through
ASSUME WorkAssumption ==
    /\ ChainWork \in [Block -> Nat]
    /\ \A b \in Block \ {Genesis} : ChainWork[b] > ChainWork[Prev[b]]

ASSUME AncestorsAssumption ==
    /\ Ancestors \in [Block -> SUBSET Block]
    /\ Ancestors[Genesis] = {Genesis}
    /\ \A b \in Block \ {Genesis} : Ancestors[b] = Ancestors[Prev[b]] \cup {b}

\* the chain that ends in b, without the genesis block, which is never
\* connected: SetBestChain only records it
Branch(b) == Ancestors[b] \ {Genesis}

\* every block of the chain that ends in b is valid
ChainValid(b) == Branch(b) \subseteq Valid
=============================================================================
