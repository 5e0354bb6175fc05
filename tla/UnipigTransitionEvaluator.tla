---------------------- MODULE UnipigTransitionEvaluator ----------------------
(***************************************************************************)
(* What the contracts make of a transition:                                *)
(* unipig/src/contracts/UnipigTransitionEvaluator.sol, which evaluates it  *)
(* on two storage slots, and RollupMerkleUtils.sol, which checks the slots *)
(* against a root and computes the root once they have changed.            *)
(*                                                                         *)
(* Hashes are ideal: the root of a tree is its content, and a list of      *)
(* siblings gives, level by level, the content of the subtrees beside the  *)
(* way from a leaf to the root.                                            *)
(***************************************************************************)
EXTENDS UnipigTransactions

-----------------------------------------------------------------------------
(***************************************************************************)
(* Merkle proofs.                                                          *)
(***************************************************************************)
\* Only as many bits of a slot are read as there are levels above a leaf.
Path(slot) == slot % 2^(TreeHeight - 1)

\* The subtree beside the way from a leaf, at a level counted from 1 below.
SiblingOf(slot, level) ==
    LET own == slot \div 2^(level - 1)
    IN  IF own % 2 = 0 THEN own + 1 ELSE own - 1

Siblings(leaves, slot, levels) ==
    [level \in 1..levels |->
        [k \in 0..(2^(level - 1) - 1) |->
            leaves[SiblingOf(slot, level) * 2^(level - 1) + k]]]

\* The root computed from a leaf and siblings.
RootFrom(leaf, slot, siblings) ==
    [s \in 0..(2^Len(siblings) - 1) |->
        IF s = slot THEN leaf
        ELSE LET level == CHOOSE l \in DOMAIN siblings :
                              s \div 2^(l - 1) = SiblingOf(slot, l)
             IN  siblings[level][s % 2^(level - 1)]]

Verify(root, leaf, slot, siblings) ==
    RootFrom(leaf, Path(slot), siblings) = root

-----------------------------------------------------------------------------
(***************************************************************************)
(* Transitions, as the aggregator posts them: a transaction with slots for *)
(* addresses, its signature, and the root it leads to.                     *)
(***************************************************************************)
Garbled == [kind |-> "garbled"]

TransferTransition(root, from, to, tx) ==
    [kind |-> "transfer", root |-> root, from |-> from, to |-> to,
     token |-> tx.token, amount |-> tx.amount, signature |-> tx]

CreateAndTransferTransition(root, from, to, tx) ==
    [kind |-> "create", root |-> root, from |-> from, to |-> to,
     created |-> tx.recipient, token |-> tx.token, amount |-> tx.amount,
     signature |-> tx]

SwapTransition(root, from, tx) ==
    [kind |-> "swap", root |-> root, from |-> from,
     to |-> UNISWAP_STORAGE_SLOT, token |-> tx.token, amount |-> tx.amount,
     minOutput |-> tx.minOutput, signature |-> tx]

\* getTransitionStateRootAndAccessList reverts on anything else.
Decodes(transition) == transition.kind \in {"create", "transfer", "swap"}

-----------------------------------------------------------------------------
(***************************************************************************)
(* Evaluation: on the contents of the slots of the sender and of the       *)
(* recipient, either a revert or their new contents.                       *)
(***************************************************************************)
Revert == [ok |-> FALSE]

Output(sender, recipient) ==
    [ok |-> TRUE, leaves |-> <<sender, recipient>>]

\* uint32 arithmetic.
Credited(leaf, token, amount) ==
    [leaf EXCEPT !.balances[token] = (@ + amount) % Width]

Debited(leaf, token, amount) == Credited(leaf, token, -amount)

\* The account may not spend all it has.
EvaluateTransfer(t, sender, recipient) ==
    IF /\ t.signature = Signed(Transfer(sender.pubkey, recipient.pubkey,
                                        t.token, t.amount), sender.pubkey)
       /\ t.to # UNISWAP_STORAGE_SLOT
       /\ sender.balances[t.token] > t.amount
    THEN Output(Debited(sender, t.token, t.amount),
                Credited(recipient, t.token, t.amount))
    ELSE Revert

EvaluateCreateAndTransfer(t, sender, recipient) ==
    IF recipient = Empty
    THEN EvaluateTransfer(t, sender, [recipient EXCEPT !.pubkey = t.created])
    ELSE Revert

\* Mutant: no fee is taken.
SwapInput_NoFee(amount) == amount

SwapInput(amount) == (amount * (10000 - FeeBips)) \div 10000

\* Both the fee and the pool's new balance are rounded down; the product of
\* two uint32 is one.
EvaluateSwap(t, sender, pool) ==
    LET total     == SwapInput(t.amount) + pool.balances[t.token]
        invariant == (pool.balances[0] * pool.balances[1]) % Width
        output    == pool.balances[Other(t.token)] - invariant \div total
    IN  IF /\ t.signature = Signed(Swap(sender.pubkey, t.token, t.amount,
                                        t.minOutput), sender.pubkey)
           /\ t.to = UNISWAP_STORAGE_SLOT
           /\ pool.pubkey = Uniswap
           /\ sender.balances[t.token] > t.amount
           /\ total # 0
           /\ output % Width >= t.minOutput
        THEN Output(Credited(Debited(sender, t.token, t.amount),
                             Other(t.token), output),
                    Debited(Credited(pool, t.token, t.amount),
                            Other(t.token), output))
        ELSE Revert

EvaluateTransition(t, sender, recipient) ==
    CASE t.kind = "create"   -> EvaluateCreateAndTransfer(t, sender, recipient)
      [] t.kind = "transfer" -> EvaluateTransfer(t, sender, recipient)
      [] t.kind = "swap"     -> EvaluateSwap(t, sender, recipient)
=============================================================================
