----------------------------- MODULE MCMemPool -------------------------------
(***************************************************************************)
(* t1 and t3 both spend A.1; t2 needs t1; t4 needs t1 and t2, so that it   *)
(* can wait for both as an orphan, and pays a fee.                         *)
(***************************************************************************)
EXTENDS MemPool

CONSTANTS A, B, C, D, M, N, t1, t2, t3, t4

MCIn ==
    [t \in Tx |->
        CASE t = t1 -> {<<A, 1>>}   [] t = t2 -> {<<t1, 1>>}
          [] t = t3 -> {<<A, 1>>}   [] t = t4 -> {<<t1, 2>>, <<t2, 1>>}
          [] OTHER  -> {}]

\* every output but the coinbases' second ones can be spent; M and N are the
\* coinbases of this node, without and with a fee of 1
MCOut ==
    [t \in Tx |->
        CASE t \in {A, B, C, D} -> <<2, 1>>   [] t = M -> <<3>>   [] t = N -> <<4>>
          [] t = t1 -> <<1, 1>>   [] t = t2 -> <<1>>
          [] t = t3 -> <<2>>      [] t = t4 -> <<1>>]

MCCandidates == {<<A>>, <<B>>, <<C>>, <<C, t1>>, <<D>>}
MCRivals == {<<A>>, <<B>>, <<C, t3>>}
=============================================================================
