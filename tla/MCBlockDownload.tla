--------------------------- MODULE MCBlockDownload ----------------------------
(***************************************************************************)
(* Two peers on a chain of four blocks that one of them makes longer; a    *)
(* getblocks reply names two blocks, so a download takes several rounds.   *)
(***************************************************************************)
EXTENDS BlockDownload

CONSTANTS p, q
=============================================================================
