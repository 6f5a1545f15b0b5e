------------------------------ MODULE MCKeyPool ------------------------------
(***************************************************************************)
(* One miner, two senders and one call that only looks, on a pool of two   *)
(* keys.                                                                   *)
(***************************************************************************)
EXTENDS KeyPool

CONSTANTS m, s1, s2, p
=============================================================================
