---------------------------- MODULE MCChainState ----------------------------
(***************************************************************************)
(* A small block tree for TLC.  Three branches leave the genesis block or  *)
(* its neighbourhood, so that extensions, reorganisations in both          *)
(* directions, orphans and blocks behind an invalid one all occur:         *)
(*                                                                         *)
(*        g -- a1 -- a2                                                    *)
(*         \                                                               *)
(*          b1 -- b2 -- b3 -- b4                                           *)
(*            \                                                            *)
(*             c2 -- c3                                                    *)
(***************************************************************************)
EXTENDS ChainState

CONSTANTS g, a1, a2, b1, b2, b3, b4, c2, c3

MCPrev ==
    [b \in Block |->
        CASE b = g -> NoBlock  [] b = a1 -> g   [] b = a2 -> a1
          [] b = b1 -> g       [] b = b2 -> b1  [] b = b3 -> b2
          [] b = b4 -> b3      [] b = c2 -> b1  [] b = c3 -> c2]

\* every block has the same work, except that c2 was found at a higher
\* difficulty: three blocks of one branch can then weigh as much as two of
\* another
MCWork(b) == IF b = c2 THEN 2 ELSE 1

MCAncestors ==
    LET up[b \in Block] == IF b = Genesis THEN {b} ELSE {b} \cup up[MCPrev[b]]
    IN up

MCChainWork ==
    LET sum[b \in Block] ==
            IF b = Genesis THEN 0 ELSE MCWork(b) + sum[MCPrev[b]]
    IN sum
=============================================================================
