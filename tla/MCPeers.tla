------------------------------- MODULE MCPeers --------------------------------
(***************************************************************************)
(* The two handler threads, and two openers that may want the same of two  *)
(* addresses.                                                              *)
(***************************************************************************)
EXTENDS Peers, TLC

CONSTANTS sock, msg, o1, o2, a1, a2

\* What the damage done by two threads at once leads to is not followed.
Undamaged == ~torn /\ ~clashed

\* bound: of the nodes only the first may be an accepted connection
InboundFirst == fInbound \subseteq {1}

Symmetry == Permutations({o1, o2}) \cup Permutations({a1, a2})
=============================================================================
