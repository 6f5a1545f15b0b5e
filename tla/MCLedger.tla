------------------------------ MODULE MCLedger -------------------------------
(***************************************************************************)
(* Transactions and blocks for TLC.  A and t1 can be fully spent, and then *)
(* be replaced (BIP30); the other coinbases have outputs nobody spends.    *)
(***************************************************************************)
EXTENDS Ledger

CONSTANTS A, B, C, F, G, D, E, t1, t2, t3, t4

MCCoinbase == {A, B, C, F, G, D, E}

\* t3 conflicts with t1 and pays a fee of 1, which D needs and E exceeds; t4
\* creates value
MCIn ==
    [t \in Tx |->
        CASE t = t1 -> {<<A, 1>>}             [] t = t2 -> {<<t1, 1>>}
          [] t = t3 -> {<<A, 1>>, <<B, 1>>}   [] t = t4 -> {<<B, 1>>}
          [] OTHER  -> {}]

MCOut ==
    [t \in Tx |->
        CASE t = A -> <<3>>     [] t \in {B, C, F, G} -> <<2, 1>>
          [] t = D -> <<3, 1>>  [] t = E -> <<4, 1>>
          [] t = t1 -> <<3>>    [] t = t2 -> <<3>>
          [] t = t3 -> <<4>>    [] t = t4 -> <<3>>]

\* any coinbase in front of transactions in several orders, and two malformed
MCCandidates ==
    {<<c>> \o rest : c \in MCCoinbase,
                     rest \in {<<>>, <<t1>>, <<t1, t2>>, <<t2>>, <<t2, t1>>,
                               <<t3>>, <<t1, t3>>, <<t4>>}}
    \cup {<<t1>>, <<C, A>>}
=============================================================================
