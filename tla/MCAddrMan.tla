----------------------------- MODULE MCAddrMan ------------------------------
(***************************************************************************)
(* An instance of AddrMan: four addresses, two new buckets of two entries  *)
(* and two tried buckets of one entry, so that every bucket fills up, and  *)
(* more ids than addresses, so that an address comes back under another.   *)
(***************************************************************************)
EXTENDS AddrMan, TLC

CONSTANTS a1, a2, a3, a4, k1, k2

MCGetTriedBucket == [a \in Addr |-> IF a = a4 THEN k2 ELSE k1]

SameBucket == Permutations({a1, a2, a3})
=============================================================================
