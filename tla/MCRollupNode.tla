----------------------------- MODULE MCRollupNode -----------------------------
(***************************************************************************)
(* RollupNode with three transactions in blocks of at most two.  The first *)
(* two write one slot of contract 6.  The second opens its neighbour in    *)
(* the base tree, 7, which can be made only together with 6, and the third *)
(* writes a slot of 7 that is beside contract 6's number.                  *)
(***************************************************************************)
EXTENDS RollupNode

TheModified == <<{<<6, 8>>}, {<<6, 8>>, <<7, 4>>}, {<<7, 7>>}>>
=============================================================================
