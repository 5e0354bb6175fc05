-------------------------- MODULE MCBlockSubmitter --------------------------
(***************************************************************************)
(* The instances of BlockSubmitter that TLC checks: where the node may     *)
(* crash.                                                                  *)
(***************************************************************************)
EXTENDS BlockSubmitter

\* At any await.
Anywhere == PCs

\* Not between the Ethereum node's acceptance of a block and the write of
\* last_submitted, nor while the event that confirms a block is being
\* handled: the event processor does not send it again.
NotWhileHandling == PCs \ {"accepted", "putSubmitted", "putConfirmed"}
=============================================================================
