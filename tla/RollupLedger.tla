---------------------------- MODULE RollupLedger ----------------------------
(***************************************************************************)
(* What a rollup block submitter promises: blocks are numbered 1, 2, ...   *)
(* as they are queued, the contract gets them in that order, each exactly  *)
(* once, and none before its predecessor is confirmed.                     *)
(***************************************************************************)
EXTENDS Naturals, Sequences

CONSTANT MaxBlock

VARIABLES
    queued,     \* number of blocks queued
    posted,     \* the numbers of the blocks in the contract, in its order
    confirmed   \* number of blocks known to be in the contract

vars == <<queued, posted, confirmed>>

Init == queued = 0 /\ posted = <<>> /\ confirmed = 0

Queue ==
    /\ queued < MaxBlock
    /\ queued' = queued + 1
    /\ UNCHANGED <<posted, confirmed>>

Post ==
    /\ Len(posted) = confirmed
    /\ confirmed < queued
    /\ posted' = Append(posted, confirmed + 1)
    /\ UNCHANGED <<queued, confirmed>>

Confirm ==
    /\ confirmed < Len(posted)
    /\ confirmed' = confirmed + 1
    /\ UNCHANGED <<queued, posted>>

Next == Queue \/ Post \/ Confirm

Spec == Init /\ [][Next]_vars

\* Every queued block is eventually posted and confirmed.
FairSpec == Spec /\ WF_vars(Post) /\ WF_vars(Confirm)
=============================================================================
