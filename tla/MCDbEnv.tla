------------------------------- MODULE MCDbEnv --------------------------------
(***************************************************************************)
(* A handler, which StopNode waits for, and a miner, which it does not     *)
(* wait for, on the wallet and the block index.                            *)
(***************************************************************************)
EXTENDS DbEnv

CONSTANTS rpc, miner, wallet, chain
=============================================================================
