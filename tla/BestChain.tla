----------------------------- MODULE BestChain ------------------------------
(***************************************************************************)
(* What the chain code of a node promises: it learns blocks whose parent   *)
(* it knows, and at any moment it may replace its chain, in one step and   *)
(* ledger included, by a valid known chain with more work.                 *)
(***************************************************************************)
EXTENDS BlockTree

VARIABLES
    known,    \* blocks with a place in the tree
    tip,      \* the last block of the active chain
    ledger    \* the blocks whose transactions are in effect

Init == known = {Genesis} /\ tip = Genesis /\ ledger = {}

Learn(b) ==
    /\ Prev[b] \in known /\ b \in Acceptable
    /\ known' = known \cup {b}
    /\ UNCHANGED <<tip, ledger>>

Activate(b) ==
    /\ b \in known /\ ChainValid(b)
    /\ ChainWork[b] > ChainWork[tip]
    /\ tip' = b /\ ledger' = Branch(b)
    /\ UNCHANGED known

Next == \E b \in Block : Learn(b) \/ Activate(b)

\* What a restart may do, and a node that never fails does not: blocks are
\* forgotten with all their descendants, the active chain never.
Forget ==
    /\ known' \subseteq known /\ tip \in known'
    /\ \A b \in known' \ {Genesis} : Prev[b] \in known'
    /\ UNCHANGED <<tip, ledger>>

Spec == Init /\ [][Next]_<<known, tip, ledger>>
=============================================================================
