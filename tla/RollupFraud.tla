----------------------------- MODULE RollupFraud -----------------------------
(***************************************************************************)
(* Posting, checking and pruning rollup blocks: the aggregator's state     *)
(* machine, the contract (unipig/src/contracts/RollupChain.sol) and the    *)
(* validator (unipig/src/validator: rollup-fraud-guard.ts and              *)
(* rollup-state-validator.ts).                                             *)
(*                                                                         *)
(* The aggregator posts the transitions of its state machine or, if it is  *)
(* not sound, others.  The fraud guard receives the blocks' events, not    *)
(* always in order nor once; it holds a lock while it handles one.  Its    *)
(* state machine is durable, its position and its blocks are not.  Anyone  *)
(* may prove a transition invalid to the contract.                         *)
(*                                                                         *)
(* A block has the number its event gives it, from 1; the contract's array *)
(* has it one lower.                                                       *)
(***************************************************************************)
EXTENDS UnipigTransitionEvaluator, SequencesExt

CONSTANTS
    STATE_TREE_HEIGHT, \* the contract's: the levels above a leaf
    SameLeaves,     \* whether the machine stores the leaves that the contract
                    \* computes; the contract's test does, the programs do not
    Genesis,        \* the genesis states, in the order of their slots
    Transactions,   \* the signed transactions that clients send
    MaxBlocks,      \* bound: blocks posted
    MaxTransitions, \* bound: transitions in a block
    MaxRestarts     \* bound: restarts of the validator

ASSUME FraudAssumption ==
    /\ STATE_TREE_HEIGHT \in Nat /\ SameLeaves \in BOOLEAN
    /\ MaxBlocks \in Nat /\ MaxTransitions \in Nat /\ MaxRestarts \in Nat
    /\ Genesis \in Seq(States)
    /\ Len(Genesis) \in 1..Cardinality(Slots)
    /\ Genesis[1].pubkey = Uniswap
    /\ \A i, j \in DOMAIN Genesis : Genesis[i].pubkey = Genesis[j].pubkey => i = j
    /\ \A tx \in Transactions : SignedTransaction(tx)

\* Facts about powers that the provers know nothing of.
ASSUME PowersAssumption ==
    /\ \A k \in 0..MaxTransitions : 2^k \in Nat
    /\ \A n \in 1..MaxTransitions :
          \E k \in 0..n : n <= 2^k /\ 2^k < 2 * n

VARIABLES
    head,       \* the aggregator's state machine
    pending,    \* the transitions of its pending block
    conduct,    \* "sound": it has only posted the transitions of its state
                \* machine, and the contract agrees with each; else
                \* "divergent", or "false" if there were others
    posted,     \* the blocks posted: sequences of transitions
    pruned,     \* the numbers of those the contract has deleted
    misled,     \* whether it has deleted any for what it took for a transition
                \* of a block and its index, and what was none
    guard,      \* the fraud guard: what it is doing, on which block, the
                \* last block it has validated and the one it has stored
    position,   \* the validator's position: a block and a transition of it
    stored,     \* the blocks the validator has stored
    local,      \* the validator's state machine
    restarts

vars == <<head, pending, conduct, posted, pruned, misled, guard, position,
          stored, local, restarts>>

-----------------------------------------------------------------------------
(***************************************************************************)
(* The contract.                                                           *)
(***************************************************************************)
\* An included transition, by the contract's block index, with its place and
\* the number of its siblings.
IncludedTransition(block, index, siblings, transition) ==
    [block |-> block, index |-> index, siblings |-> siblings,
     transition |-> transition]

IncludedStorageSlot(slot, leaf, siblings) ==
    [slot |-> slot, leaf |-> leaf, siblings |-> siblings]

Live(block) == block + 1 \in DOMAIN posted /\ block + 1 \notin pruned

BlockSize(block) == IF Live(block) THEN Len(posted[block + 1]) ELSE 0

\* The levels above the leaves of the tree of so many transitions, which are
\* filled up to a power of two.
Levels(size) == CHOOSE k \in 0..size : size <= 2^k /\ 2^k < 2 * size

\* What the bits of an index lead to from the root of a block's tree, as far
\* down as there are siblings: at the bottom a transition; else an inner node
\* or a leaf of padding, of a length that no transition has.
NodeOf(block, index, siblings) ==
    LET place == index % 2^siblings
    IN  IF siblings = Levels(Len(block)) /\ place < Len(block)
        THEN block[place + 1]
        ELSE Garbled

\* It gives the block's root with its siblings.  Neither their number nor the
\* index is compared with the size of the block.
CheckTransitionInclusion(included) ==
    /\ Live(included.block)
    /\ LET block == posted[included.block + 1]
       IN  /\ included.siblings \in 0..Levels(Len(block))
           /\ included.transition =
                  NodeOf(block, included.index, included.siblings)

\* Such an element is a transition of the block, and the one of its index.
AtItsPlace(included) ==
    /\ included.index \in 0..(BlockSize(included.block) - 1)
    /\ included.siblings = Levels(BlockSize(included.block))

\* Mutant: any transition of the previous block precedes the first one.
VerifySequentialTransitions_AnyOfPrevious(pre, t) ==
    /\ CheckTransitionInclusion(pre)
    /\ CheckTransitionInclusion(t)
    /\ \/ pre.block = t.block /\ pre.index = t.index - 1
       \/ pre.block = t.block - 1 /\ t.index = 0

VerifySequentialTransitions(pre, t) ==
    /\ CheckTransitionInclusion(pre)
    /\ CheckTransitionInclusion(t)
    /\ \/ pre.block = t.block /\ pre.index = t.index - 1
       \/ /\ pre.block = t.block - 1
          /\ pre.index = BlockSize(pre.block) - 1
          /\ t.index = 0

\* Mutant: the slots' contents are taken as given.
SlotsAreProved_AsGiven(preRoot, slots) == TRUE

\* An empty leaf is the same for both.  Any other is, for the contract, the
\* hash of a state's encoding and, for the machine, that of its hexadecimal
\* text.
SlotsAreProved(preRoot, slots) ==
    \A i \in {1, 2} :
        /\ SameLeaves \/ slots[i].leaf = Empty
        /\ Verify(preRoot, slots[i].leaf, slots[i].slot, slots[i].siblings)

PostRoot(preRoot, slots, leaves) ==
    [preRoot EXCEPT ![Path(slots[1].slot)] = leaves[1],
                    ![Path(slots[2].slot)] = leaves[2]]

\* The machine's height counts the root's level, that of the contract does
\* not.  If they are not one apart, the contract looks for its siblings on
\* other levels, and what it computes is the root of no tree of the machine.
HeightsAgree == STATE_TREE_HEIGHT = TreeHeight - 1

\* Whether the call ends in a pruned block; else it reverts.
ProvesInvalid(pre, t, slots) ==
    /\ VerifySequentialTransitions(pre, t)
    /\ Decodes(pre.transition)
    /\ Decodes(t.transition) =>
          LET result == EvaluateTransition(t.transition, slots[1].leaf,
                                           slots[2].leaf)
          IN  /\ slots[1].slot = t.transition.from
              /\ slots[2].slot = t.transition.to
              /\ SlotsAreProved(pre.transition.root, slots)
              /\ result.ok =>
                     \/ ~HeightsAgree
                     \/ PostRoot(pre.transition.root, slots, result.leaves)
                            # t.transition.root

\* The array keeps its length: blocks posted later come after a hole.
PruneBlocksAfter(block) ==
    pruned' = pruned \cup {n \in DOMAIN posted : n > block}

ProveTransitionInvalid(pre, t, slots) ==
    IF ProvesInvalid(pre, t, slots)
    THEN /\ PruneBlocksAfter(t.block)
         /\ misled' = (misled \/ ~(AtItsPlace(pre) /\ AtItsPlace(t)))
    ELSE UNCHANGED <<pruned, misled>>

SubmitBlock(block) == posted' = Append(posted, block)

-----------------------------------------------------------------------------
(***************************************************************************)
(* The aggregator.                                                         *)
(***************************************************************************)
\* The transition of an accepted transaction, for the machine before it.
TransitionOf(machine, tx) ==
    LET after == ApplyTransaction(machine, tx)
        from  == after.keys[tx.sender]
    IN  IF tx.kind = "swap"
        THEN SwapTransition(after.leaves, from, tx)
        ELSE IF tx.recipient \in DOMAIN machine.keys
        THEN TransferTransition(after.leaves, from, after.keys[tx.recipient],
                                tx)
        ELSE CreateAndTransferTransition(after.leaves, from,
                                         after.keys[tx.recipient], tx)

Accepted(machine, tx) == ~Refused(machine, tx) /\ Sound(machine, tx)

\* Where the two computations are known to differ: the contract wants the
\* sender's own signature and part of the balance to stay, takes an amount of
\* zero, refuses transfers to the pool, and rounds a swap down, the fee first.
\* Its balances wrap round: in one account, a credit of half their range that
\* the machine fails on looks like the debit.
Divergent(machine, tx) ==
    LET pool == GetBalances(machine, Uniswap)
        fee  == tx.amount * (10000 - FeeBips)
        product == pool[0] * pool[1]
    IN  \/ tx.signer # tx.sender
        \/ GetBalances(machine, tx.sender)[tx.token] = tx.amount
        \/ tx.amount = 0
        \/ /\ 2 * tx.amount = Width
           /\ tx.sender = IF tx.kind = "swap" THEN Uniswap ELSE tx.recipient
        \/ tx.kind = "transfer" /\ tx.recipient = Uniswap
        \/ /\ tx.kind = "swap"
           /\ \/ fee % 10000 # 0
              \/ product >= Width
              \/ product % (fee \div 10000 + pool[tx.token]) # 0

Aggregate(tx) ==
    /\ Len(posted) < MaxBlocks
    /\ Len(pending) < MaxTransitions
    /\ Accepted(head, tx)
    /\ pending' = Append(pending, TransitionOf(head, tx))
    /\ head' = ApplyTransaction(head, tx)
    /\ conduct' = IF conduct = "sound" /\ Divergent(head, tx)
                  THEN "divergent" ELSE conduct
    /\ UNCHANGED <<posted, pruned, misled, guard, position, stored, local,
                   restarts>>

\* The transition claims that nothing changed, or is of a transaction the
\* machine refuses, or is none.
FalseTransitions(tx) ==
    {Garbled} \cup IF tx.sender \in DOMAIN head.keys
                   THEN {[TransitionOf(head, tx) EXCEPT !.root = head.leaves]}
                   ELSE {}

Cheat(tx) ==
    /\ Len(posted) < MaxBlocks
    /\ Len(pending) < MaxTransitions
    /\ conduct # "false"
    /\ \E t \in FalseTransitions(tx) : pending' = Append(pending, t)
    /\ conduct' = "false"
    /\ UNCHANGED <<head, posted, pruned, misled, guard, position, stored,
                   local, restarts>>

Post ==
    /\ pending # <<>>
    /\ SubmitBlock(pending)
    /\ pending' = <<>>
    /\ UNCHANGED <<head, conduct, pruned, misled, guard, position, stored,
                   local, restarts>>

-----------------------------------------------------------------------------
(***************************************************************************)
(* The validator.                                                          *)
(***************************************************************************)
NoBlock == 0

Guard(doing, block, lastBlockValidated, saved) ==
    [doing |-> doing, block |-> block,
     lastBlockValidated |-> lastBlockValidated, saved |-> saved]

Exit == guard' = [guard EXCEPT !.doing = "exited"]

Position(block, transition) ==
    [blockNumber |-> block, transitionIndex |-> transition]

StartPosition == Position(1, 0)

\* An old block is ignored, and so is one whose transitions do not parse;
\* one that leaves a gap ends the process.
Gap(n) == n > guard.lastBlockValidated + 1

Receive(n) ==
    /\ guard.doing = "waiting"
    /\ \A i \in DOMAIN posted[n] : Decodes(posted[n][i])
    /\ n > guard.lastBlockValidated
    /\ IF Gap(n)
       THEN Exit /\ UNCHANGED stored
       ELSE /\ stored' = [k \in DOMAIN stored \cup {n} |->
                            IF k = n THEN posted[n] ELSE stored[k]]
            /\ guard' = [guard EXCEPT !.doing = "validating", !.block = n]
    /\ UNCHANGED <<head, pending, conduct, posted, pruned, misled, position,
                   local, restarts>>

\* validateStoredBlock throws unless the block is the one of its position.
OutOfOrder ==
    /\ guard.doing = "validating"
    /\ guard.block # position.blockNumber
    /\ Exit
    /\ UNCHANGED <<head, pending, conduct, posted, pruned, misled, position,
                   stored, local, restarts>>

\* The slots' states, before the transition is applied.
InputStateSnapshots(t) ==
    LET snapshot(slot) ==
            [slot |-> slot, leaf |-> GetLeaf(local, slot),
             siblings |-> Siblings(local.leaves, slot, TreeHeight - 1)]
    IN  <<snapshot(t.from), snapshot(t.to)>>

\* The transaction a transition stands for.  Its signer is recovered from
\* the signature: nobody's address, if it signs something else.
TransactionOf(t) ==
    LET from == GetLeaf(local, t.from).pubkey
        to   == IF t.kind = "create" THEN t.created
                                     ELSE GetLeaf(local, t.to).pubkey
        tx   == IF t.kind = "swap"
                THEN Swap(from, t.token, t.amount, t.minOutput)
                ELSE Transfer(from, to, t.token, t.amount)
    IN  Signed(tx, IF t.signature = Signed(tx, t.signature.signer)
                   THEN t.signature.signer ELSE "nobody")

NextTransition == stored[guard.block][position.transitionIndex + 1]

InBlock ==
    /\ guard.doing = "validating"
    /\ guard.block = position.blockNumber
    /\ position.transitionIndex < Len(stored[guard.block])

\* A created account must get the machine's next slot, and there must be
\* snapshots of both slots, or it gives up.
Unsupported(t) ==
    \/ t.kind = "create" /\ t.to # local.lastOpen + 1
    \/ ~({t.from, t.to} \subseteq Slots)

\* Mutant: the roots are not compared.
Agrees_AnyRoot(t) == TRUE

Agrees(t) == ApplyTransaction(local, TransactionOf(t)).leaves = t.root

CheckNextTransition ==
    /\ InBlock
    /\ LET t  == NextTransition
           tx == TransactionOf(t)
       IN  /\ ~Unsupported(t)
           /\ Accepted(local, tx)
           /\ Agrees(t)
           /\ local' = ApplyTransaction(local, tx)
           /\ position' = [position EXCEPT !.transitionIndex = @ + 1]
    /\ UNCHANGED <<head, pending, conduct, posted, pruned, misled, guard,
                   stored, restarts>>

\* The transition is not supported, or its transaction fails half-way.
CheckFails ==
    /\ InBlock
    /\ LET t  == NextTransition
           tx == TransactionOf(t)
       IN  \/ /\ Unsupported(t)
              /\ UNCHANGED local
           \/ /\ ~Unsupported(t)
              /\ ~Refused(local, tx) /\ ~Sound(local, tx)
              /\ local' = ApplyTransaction(local, tx)
    /\ Exit
    /\ UNCHANGED <<head, pending, conduct, posted, pruned, misled, position,
                   stored, restarts>>

FraudIn(t) ==
    /\ ~Unsupported(t)
    /\ LET tx == TransactionOf(t)
       IN  Refused(local, tx) \/ (Sound(local, tx) /\ ~Agrees(t))

\* With the siblings of its leaf in the block's tree.
GetIncludedTransition(n, index) ==
    IncludedTransition(n, index, Levels(Len(stored[n])), stored[n][index + 1])

PreTransition ==
    IF position.transitionIndex > 0
    THEN GetIncludedTransition(guard.block, position.transitionIndex - 1)
    ELSE GetIncludedTransition(guard.block - 1,
                               Len(stored[guard.block - 1]) - 1)

\* The proof sent: the last transition found valid, the fraudulent one, and
\* both slots with the siblings of the second.
ContractFraudProof ==
    LET snapshots == InputStateSnapshots(NextTransition)
    IN  [pre   |-> PreTransition,
         t     |-> GetIncludedTransition(guard.block,
                                         position.transitionIndex),
         slots |-> <<IncludedStorageSlot(snapshots[1].slot, snapshots[1].leaf,
                                         snapshots[2].siblings),
                     snapshots[2]>>]

\* There is no proof of fraud in the first transition of all: the attempt
\* ends the process.  With one, the process ends once the contract answers.
DetectFraud ==
    /\ InBlock
    /\ FraudIn(NextTransition)
    /\ local' = IF Refused(local, TransactionOf(NextTransition)) THEN local
                ELSE ApplyTransaction(local, TransactionOf(NextTransition))
    /\ IF position.transitionIndex = 0 /\ guard.block - 1 \notin DOMAIN stored
       THEN Exit /\ UNCHANGED <<pruned, misled>>
       ELSE /\ guard' = [guard EXCEPT !.doing = "proved"]
            /\ ProveTransitionInvalid(ContractFraudProof.pre,
                                      ContractFraudProof.t,
                                      ContractFraudProof.slots)
    /\ UNCHANGED <<head, pending, conduct, posted, position, stored, restarts>>

BlockChecked ==
    /\ guard.doing = "validating"
    /\ guard.block = position.blockNumber
    /\ position.transitionIndex = Len(stored[guard.block])
    /\ position' = Position(position.blockNumber + 1, 0)
    /\ guard' = [guard EXCEPT !.doing = "saving",
                              !.lastBlockValidated = guard.block]
    /\ UNCHANGED <<head, pending, conduct, posted, pruned, misled, stored,
                   local, restarts>>

Saved ==
    /\ guard.doing = "saving"
    /\ guard' = Guard("waiting", NoBlock, guard.lastBlockValidated,
                      guard.lastBlockValidated)
    /\ UNCHANGED <<head, pending, conduct, posted, pruned, misled, position,
                   stored, local, restarts>>

\* The validator's process ends, if it has not, and a new one starts.
Restart ==
    /\ restarts < MaxRestarts
    /\ restarts' = restarts + 1
    /\ guard' = Guard("waiting", NoBlock, guard.saved, guard.saved)
    /\ position' = StartPosition
    /\ stored' = <<>>
    /\ UNCHANGED <<head, pending, conduct, posted, pruned, misled, local>>

-----------------------------------------------------------------------------
(***************************************************************************)
(* Anyone who knows the chain may prove a transition invalid.              *)
(***************************************************************************)
\* A transition of a block, with the contract's numbers.
Element(n, i) ==
    IncludedTransition(n - 1, i - 1, Levels(Len(posted[n])), posted[n][i])

\* The place before the first of a block is the last of the block before.
Predecessor(n, i) ==
    IF i > 1 THEN Element(n, i - 1) ELSE Element(n - 1, Len(posted[n - 1]))

HasPredecessor(n, i) == i > 1 \/ n > 1

SlotProof(root, slot) ==
    IncludedStorageSlot(slot, root[Path(slot)],
                        Siblings(root, Path(slot), TreeHeight - 1))

SlotsOf(t, root) ==
    IF Decodes(t) THEN <<SlotProof(root, t.from), SlotProof(root, t.to)>>
                  ELSE <<>>

\* A proof with the contract's numbers and with the siblings of each slot.
Provable(n, i) ==
    /\ HasPredecessor(n, i)
    /\ Decodes(Predecessor(n, i).transition)
    /\ ProvesInvalid(Predecessor(n, i), Element(n, i),
                     SlotsOf(posted[n][i], Predecessor(n, i).transition.root))

\* All that is included in the blocks, under indices within twice the leaves
\* of a block's tree: higher ones lead to the same nodes.
Inclusions ==
    UNION {LET levels == Levels(Len(posted[n]))
           IN  {IncludedTransition(n - 1, index, siblings,
                                   NodeOf(posted[n], index, siblings)) :
                    index \in 0..(2^(levels + 1) - 1), siblings \in 0..levels} :
           n \in DOMAIN posted}

\* The roots that are known: of the machines and of the chain.
KnownRoots ==
    {head.leaves, local.leaves}
        \cup {t.root : t \in {u \in UNION {Range(b) : b \in Range(posted)} :
                               Decodes(u)}}

\* The contract answers any call about two elements of its blocks, with the
\* slots as they are in any state; only those it accepts change anything.
Challenge(pre, t) ==
    /\ VerifySequentialTransitions(pre, t)
    /\ Decodes(pre.transition)
    /\ \E root \in KnownRoots :
          LET slots == SlotsOf(t.transition, root)
          IN  /\ ProvesInvalid(pre, t, slots)
              /\ ProveTransitionInvalid(pre, t, slots)
    /\ UNCHANGED <<head, pending, conduct, posted, guard, position, stored,
                   local, restarts>>

-----------------------------------------------------------------------------
GenesisMachine ==
    Machine([a \in {Genesis[i].pubkey : i \in DOMAIN Genesis} |->
                CHOOSE s \in Slots : s + 1 \in DOMAIN Genesis
                                     /\ Genesis[s + 1].pubkey = a],
            Len(Genesis) - 1,
            [s \in Slots |-> IF s + 1 \in DOMAIN Genesis THEN Genesis[s + 1]
                                                         ELSE Empty])

Init ==
    /\ head = GenesisMachine
    /\ pending = <<>>
    /\ conduct = "sound"
    /\ posted = <<>>
    /\ pruned = {} /\ misled = FALSE
    /\ guard = Guard("waiting", NoBlock, 0, 0)
    /\ position = StartPosition
    /\ stored = <<>>
    /\ local = GenesisMachine
    /\ restarts = 0

Next ==
    \/ \E tx \in Transactions : Aggregate(tx) \/ Cheat(tx)
    \/ Post
    \/ \E n \in DOMAIN posted : Receive(n)
    \/ OutOfOrder \/ CheckNextTransition \/ CheckFails \/ DetectFraud
    \/ BlockChecked \/ Saved
    \/ Restart
    \/ \E pre, t \in Inclusions : Challenge(pre, t)

Spec == Init /\ [][Next]_vars

-----------------------------------------------------------------------------
(***************************************************************************)
(* Properties.                                                             *)
(***************************************************************************)
\* The variables keep to their types.
TypeOK ==
    /\ \A m \in {head, local} :
          /\ DOMAIN m.keys \subseteq Addresses
          /\ \A a \in DOMAIN m.keys : m.keys[a] \in 0..m.lastOpen
          /\ \A s \in Slots : Encodable(m.leaves[s].balances)
    /\ conduct \in {"sound", "divergent", "false"}
    /\ pruned \subseteq DOMAIN posted /\ misled \in BOOLEAN
    /\ Len(posted) <= MaxBlocks /\ Len(pending) <= MaxTransitions
    /\ guard.doing \in {"waiting", "validating", "saving", "proved", "exited"}
    /\ guard.saved \in 0..guard.lastBlockValidated
    /\ DOMAIN stored \subseteq DOMAIN posted
    /\ position.blockNumber \in 1..(MaxBlocks + 1)
    /\ position.transitionIndex \in 0..MaxTransitions
    /\ restarts \in 0..MaxRestarts

\* What the contract's evaluator makes of a transition after a root, given the
\* contents of its slots.
Follows(root, t) ==
    /\ Decodes(t)
    /\ {t.from, t.to} \subseteq DOMAIN root
    /\ LET result == EvaluateTransition(t, root[t.from], root[t.to])
       IN  /\ result.ok
           /\ [root EXCEPT ![t.from] = result.leaves[1],
                           ![t.to] = result.leaves[2]] = t.root

\* Given the contents of its slots, the contract evaluates a transition as the
\* state machine computed it, for every transaction it could be given next,
\* save where they are known to differ: it succeeds on the same transactions
\* with the same contents.
EvaluatorAgrees ==
    \A tx \in Transactions :
        tx.sender \in DOMAIN head.keys /\ ~Divergent(head, tx) =>
            (Accepted(head, tx) <=>
                Follows(head.leaves, TransitionOf(head, tx)))

\* No call about two transitions of the chain, whichever they are, prunes a
\* block of a sound aggregator.  A call may also be about what is included in
\* a block, and is no transition of it or has another's index: see misled.
HonestChainStands == conduct = "sound" /\ ~misled => pruned = {}

\* Unless the contract was so misled, a block is only pruned if it, or one
\* before it that is pruned too, has a transition that does not follow from
\* the one before.
PrunedOnlyForFraud ==
    ~misled => \A n \in pruned :
        \E m \in 1..n :
            /\ m..n \subseteq pruned
            /\ \E i \in DOMAIN posted[m] :
                  /\ HasPredecessor(m, i)
                  /\ Decodes(Predecessor(m, i).transition)
                  /\ ~Follows(Predecessor(m, i).transition.root, posted[m][i])

\* Unless its process was restarted, the validator has the state the chain
\* claims at its position: that of the last transition it found valid.
ValidatorFollowsChain ==
    /\ restarts = 0
    /\ guard.doing \in {"waiting", "validating", "saving"}
    => /\ position.blockNumber = guard.lastBlockValidated + 1
       /\ \A n \in 1..guard.lastBlockValidated : stored[n] = posted[n]
       /\ IF position.transitionIndex > 0
          THEN local.leaves =
                   posted[guard.block][position.transitionIndex].root
          ELSE local.leaves = IF guard.lastBlockValidated = 0
                              THEN GenesisMachine.leaves
                              ELSE Last(posted[guard.lastBlockValidated]).root

\* The validator's state, typed, is the chain's.
ValidatorInv == TypeOK /\ ValidatorFollowsChain

\* A guard that was not restarted never takes a transition of the state
\* machine for fraud, nor fails on it, though it rebuilds the transaction
\* from slots and its own leaves: it only ends for what others posted.
HonestNeverAccused ==
    conduct # "false" /\ restarts = 0 =>
        /\ guard.doing # "proved"
        /\ InBlock => ~FraudIn(NextTransition) /\ ~Unsupported(NextTransition)

\* What was computed soundly is neither pruned nor taken for fraud.
HonestAreSafe == HonestChainStands /\ HonestNeverAccused

\* What the validator takes for fraud the contract can be convinced of, and
\* what it lets pass the contract cannot, save for the transactions on
\* which the two differ, those its machine fails on and the first
\* transition of all.
GuardAgreesWithContract ==
    LET i == position.transitionIndex + 1
        t == NextTransition
    IN  /\ restarts = 0 /\ pruned = {} /\ InBlock
        /\ HasPredecessor(guard.block, i)
        /\ ~Unsupported(t) /\ ~Divergent(local, TransactionOf(t))
        /\ Refused(local, TransactionOf(t)) \/ Sound(local, TransactionOf(t))
        => (FraudIn(t) <=> Provable(guard.block, i))

\* Aggregator, validator and contract compute the same.
AllAgree == EvaluatorAgrees /\ GuardAgreesWithContract

\* "Checks if a transition is invalid and if it is prunes that block and
\* it's children from the chain": the proofs the guard sends are accepted.
FraudProofsPrune == guard.doing = "proved" => guard.block \in pruned

-----------------------------------------------------------------------------
(***************************************************************************)
(* What makes the properties inductive.                                    *)
(***************************************************************************)
\* A machine to which only accepted transactions were applied: keys and
\* leaves name the same accounts, and the slots in use come first.
MachineShape(m) ==
    /\ MachineType(m)
    /\ m.lastOpen \in Slots
    /\ Uniswap \in DOMAIN m.keys /\ m.keys[Uniswap] = UNISWAP_STORAGE_SLOT
    /\ \A a \in DOMAIN m.keys : m.leaves[m.keys[a]].pubkey = a
    /\ \A s \in 0..m.lastOpen : /\ m.leaves[s].pubkey \in DOMAIN m.keys
                                /\ m.keys[m.leaves[s].pubkey] = s
    /\ \A s \in Slots : s > m.lastOpen => m.leaves[s] = Empty

\* Such a machine is known by its leaves.
LastUsed(leaves) ==
    CHOOSE n \in Slots : /\ n = 0 \/ leaves[n] # Empty
                         /\ \A s \in Slots : s > n => leaves[s] = Empty

MachineOf(leaves) ==
    Machine([a \in {leaves[s].pubkey : s \in 0..LastUsed(leaves)} |->
                CHOOSE s \in 0..LastUsed(leaves) : leaves[s].pubkey = a],
            LastUsed(leaves), leaves)

\* What the aggregator's machine computes for some transaction after a root.
Computed(root, t) ==
    \E tx \in Transactions : /\ MachineShape(MachineOf(root))
                             /\ Accepted(MachineOf(root), tx)
                             /\ t = TransitionOf(MachineOf(root), tx)

\* The blocks posted and the pending one.
Chain == Append(posted, pending)

\* The root before a place of the chain.
RootBefore(n, i) ==
    IF i > 1 THEN Chain[n][i - 1].root
    ELSE IF n > 1 THEN Last(Chain[n - 1]).root
    ELSE GenesisMachine.leaves

Transitions ==
    {Garbled}
    \cup [kind : {"transfer"}, root : Roots, from : Nat, to : Nat,
          token : Tokens, amount : Nat, signature : Transactions]
    \cup [kind : {"create"}, root : Roots, from : Nat, to : Nat,
          created : Addresses, token : Tokens, amount : Nat,
          signature : Transactions]
    \cup [kind : {"swap"}, root : Roots, from : Nat, to : Nat,
          token : Tokens, amount : Nat, minOutput : Nat,
          signature : Transactions]

ChainType ==
    /\ posted \in Seq(Seq(Transitions)) /\ pending \in Seq(Transitions)
    /\ Len(posted) <= MaxBlocks /\ Len(pending) <= MaxTransitions
    /\ pending # <<>> => Len(posted) < MaxBlocks
    /\ \A n \in DOMAIN posted : Len(posted[n]) \in 1..MaxTransitions
    /\ pruned \subseteq DOMAIN posted /\ misled \in BOOLEAN
    /\ conduct \in {"sound", "divergent", "false"}

Doings == {"waiting", "validating", "saving", "proved", "exited"}

Guards ==
    [doing : Doings, block : Nat, lastBlockValidated : Nat, saved : Nat]

Positions == [blockNumber : 1..(MaxBlocks + 1), transitionIndex : 0..MaxTransitions]

\* What the guard stores is on the chain, and it decodes.
GuardType ==
    /\ guard \in Guards /\ guard.saved <= guard.lastBlockValidated
    /\ position \in Positions
    /\ restarts \in 0..MaxRestarts
    /\ stored \in [DOMAIN stored -> Seq(Transitions)]
    /\ DOMAIN stored \subseteq DOMAIN posted
    /\ \A n \in DOMAIN stored :
          /\ stored[n] = posted[n]
          /\ \A i \in DOMAIN stored[n] : Decodes(stored[n][i])
    /\ guard.doing = "validating" =>
          /\ guard.block \in DOMAIN stored
          /\ guard.block = guard.lastBlockValidated + 1

FraudType ==
    /\ MachineShape(head) /\ MachineType(local) /\ ChainType /\ GuardType

\* Until a false transition is posted, every place of the chain holds what
\* the machine computes after the one before.
ComputedChain ==
    conduct # "false" =>
        /\ \A n \in DOMAIN Chain : \A i \in DOMAIN Chain[n] :
              /\ Computed(RootBefore(n, i), Chain[n][i])
              /\ conduct = "sound" => Follows(RootBefore(n, i), Chain[n][i])
        /\ head.leaves = RootBefore(Len(posted) + 1, Len(pending) + 1)

\* What may stand on the chain after a root, with the machine that led to it:
\* what that machine computes, or a transition of its slots with the old root.
Claimed(root, t) ==
    \E tx \in Transactions :
        LET machine == MachineOf(root)
        IN  /\ MachineShape(machine)
            /\ tx.sender \in DOMAIN machine.keys
            /\ \/ Accepted(machine, tx) /\ t = TransitionOf(machine, tx)
               \/ t = [TransitionOf(machine, tx) EXCEPT !.root = root]

\* There is a root before a place: the transition before it, if any, decodes.
Rooted(n, i) ==
    IF i > 1 THEN Decodes(Chain[n][i - 1])
             ELSE n > 1 => Decodes(Last(Chain[n - 1]))

ClaimedChain ==
    /\ \A n \in DOMAIN Chain : \A i \in DOMAIN Chain[n] :
          Rooted(n, i) /\ Decodes(Chain[n][i]) =>
              Claimed(RootBefore(n, i), Chain[n][i])
    /\ Rooted(Len(posted) + 1, Len(pending) + 1) =>
          head.leaves = RootBefore(Len(posted) + 1, Len(pending) + 1)

\* A guard that was not restarted and goes on has only applied what was
\* accepted; between two blocks it is at the start of one.
GuardShape ==
    /\ restarts = 0
    /\ guard.doing \in {"waiting", "validating", "saving"}
    => /\ MachineShape(local)
       /\ 1..guard.lastBlockValidated \subseteq DOMAIN stored
       /\ guard.doing # "validating" => position.transitionIndex = 0
       /\ guard.doing = "validating" =>
             position.transitionIndex <= Len(stored[guard.block])

FraudInv ==
    /\ FraudType /\ ComputedChain /\ ClaimedChain
    /\ HeightsAgree => HonestChainStands /\ PrunedOnlyForFraud
    /\ GuardShape /\ ValidatorFollowsChain /\ HonestNeverAccused
=============================================================================
