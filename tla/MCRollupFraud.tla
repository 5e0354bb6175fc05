---------------------------- MODULE MCRollupFraud ----------------------------
(***************************************************************************)
(* RollupFraud with a pool, an aggregator and two more accounts, one of    *)
(* which does not exist at first; a swap of two loses half to the fee.     *)
(***************************************************************************)
EXTENDS RollupFraud

CONSTANTS a, b

Balances(uni, pigi) == (0 :> uni) @@ (1 :> pigi)

TheGenesis ==
    <<State(Uniswap, Balances(3, 4)), State(Aggregator, Balances(2, 0)),
      State(a, Balances(3, 2))>>

TheTransactions ==
    {Signed(Transfer(a, b, 0, 1), a), Signed(Transfer(b, a, 0, 1), b),
     Signed(Transfer(a, b, 0, 0), a), Signed(Transfer(a, Uniswap, 1, 1), a),
     Signed(Transfer(a, b, 1, 1), b),
     Signed(Swap(a, 0, 2, 1), a), Signed(Swap(a, 0, 2, 2), a)}

=============================================================================
