------------------------------ MODULE MCWallet ------------------------------
(***************************************************************************)
(* An instance of Wallet: two confirmed coins g and h; p spends both and   *)
(* has change, q spends that change, o would spend g a second time; c      *)
(* spends the change of p too, signed by another copy of the wallet.       *)
(***************************************************************************)
EXTENDS Wallet

CONSTANTS g, h, p, q, o, c

MCTx == {g, h, p, q, o, c}
MCIn == [t \in MCTx |-> CASE t = p -> {g, h}
                          [] t \in {q, c} -> {p}
                          [] t = o -> {g}
                          [] OTHER -> {}]
MCMine == MCTx \ {q}
MCOwn == {p, q, o}
MCHash == [t \in MCTx |-> CASE t = c -> 1 [] t = q -> 2 [] t = g -> 3
                            [] t = o -> 4 [] t = p -> 5 [] t = h -> 6]
MCGenesis == <<g, h>>
=============================================================================
