------------------------- MODULE MCRollupAggregator -------------------------
(***************************************************************************)
(* The instances of RollupAggregator that TLC checks: where the node may   *)
(* crash.                                                                  *)
(***************************************************************************)
EXTENDS RollupAggregator

\* At any await.
Anywhere == Awaits

\* After the submitter has queued a block, before the aggregator has begun
\* the next.
AfterQueueing == {"trying"}
=============================================================================
