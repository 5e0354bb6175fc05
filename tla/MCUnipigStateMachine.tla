------------------------- MODULE MCUnipigStateMachine -------------------------
(***************************************************************************)
(* UnipigStateMachine with the pool, one account and two more that do not  *)
(* exist at first.                                                         *)
(***************************************************************************)
EXTENDS UnipigStateMachine

CONSTANTS a, b, c

Balances(uni, pigi) == (0 :> uni) @@ (1 :> pigi)

TheGenesis == <<State(Uniswap, Balances(3, 4)), State(a, Balances(3, 2))>>

\* The last two swaps are by accounts that cannot pay for them.
TheTransactions ==
    {Signed(Transfer(a, b, 0, 1), a), Signed(Transfer(a, c, 1, 2), a),
     Signed(Transfer(b, a, 0, 1), b), Signed(Transfer(a, a, 0, 1), a),
     Signed(Transfer(a, b, 1, 1), Aggregator),
     Signed(Swap(a, 0, 2, 1), a), Signed(Swap(a, 1, 1, 1), a),
     Signed(Swap(a, 0, 1, 1), b), Signed(Swap(b, 1, 2, 0), b),
     Signed(Swap(c, 0, 3, 0), c)}
=============================================================================
