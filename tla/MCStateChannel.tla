---------------------------- MODULE MCStateChannel ----------------------------
(***************************************************************************)
(* StateChannel with two clients that exchange a few messages, each with   *)
(* two calls at a time; one of them knows one preimage.                    *)
(***************************************************************************)
EXTENDS StateChannel

CONSTANTS A, B

Two == {A, B}
\* The third message may have the balances of the second, others, bad ones, or
\* such as are misread.
ThreeMessages == <<{1}, {2}, {2, 3, 4, 16}>>
OneKnowsOne == [c \in Two |-> IF c = A THEN {1} ELSE {}]
=============================================================================
