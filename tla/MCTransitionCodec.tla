-------------------------- MODULE MCTransitionCodec --------------------------
(***************************************************************************)
(* TransitionCodec with numbers that could be the offset or the length of  *)
(* something, and one that is no uint32.                                   *)
(***************************************************************************)
EXTENDS TransitionCodec

CONSTANTS sigR, sigS, sigV

TheSignatureWords == <<sigR, sigS, sigV>>

TheBalances == {[t \in Tokens |-> 7 * t], [t \in Tokens |-> 512 * t]}

=============================================================================
