------------------------- MODULE MCSparseMerkleTree -------------------------
(***************************************************************************)
(* The instance of SparseMerkleTree that TLC checks: four leaves, each     *)
(* empty (0) or not (1).                                                   *)
(***************************************************************************)
EXTENDS SparseMerkleTree

Leaves(a, b, c, d) == (0 :> a) @@ (1 :> b) @@ (2 :> c) @@ (3 :> d)

\* One content of each shape: the code treats the two children of a node
\* alike, so the others differ from these by exchanges of children.
UpToSymmetry ==
    {Leaves(0, 0, 0, 0), Leaves(0, 1, 0, 0), Leaves(1, 1, 0, 0),
     Leaves(1, 0, 0, 1), Leaves(1, 1, 1, 0), Leaves(1, 1, 1, 1)}
=============================================================================
