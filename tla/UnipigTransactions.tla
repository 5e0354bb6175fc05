-------------------------- MODULE UnipigTransactions --------------------------
(***************************************************************************)
(* What a Unipig transaction does to the balances, as the state machine of *)
(* the aggregator and of the validator computes it                         *)
(* (unipig/src/common/rollup-state-machine.ts); UnipigTransitionEvaluator  *)
(* is what the contract makes of it.                                       *)
(*                                                                         *)
(* A state root is the content of the whole tree: hashes are ideal.        *)
(***************************************************************************)
EXTENDS Integers, Sequences, FiniteSets, TLC

CONSTANTS
    Addresses,   \* the accounts' addresses
    Uniswap,     \* UNISWAP_ADDRESS: the null address, that of an empty slot too
    Aggregator,  \* the aggregator's address
    TreeHeight,  \* levels of the state tree, the root's included
    FeeBips,     \* the fee of a swap, in basis points
    Width        \* balances are unsigned integers below it

ASSUME TransactionsAssumption ==
    /\ Uniswap \in Addresses /\ Aggregator \in Addresses
    /\ TreeHeight \in Nat \ {0}
    /\ 2^0 = 1
    /\ \A level \in 1..TreeHeight : /\ 2^(level - 1) \in Nat \ {0}
                                    /\ 2^level = 2 * 2^(level - 1)
    /\ FeeBips \in 0..9999
    /\ Width \in Nat \ {0}

Slots == 0..(2^(TreeHeight - 1) - 1)

UNISWAP_STORAGE_SLOT == 0

\* The first slot the machine never gives; the tree has half as many.
MaxAddresses == 2^TreeHeight - 1

Tokens == {0, 1}

Other(token) == 1 - token

NoBalance == [token \in Tokens |-> 0]

State(pubkey, balances) == [pubkey |-> pubkey, balances |-> balances]

Empty == State(Uniswap, NoBalance)

States == [pubkey : Addresses, balances : [Tokens -> 0..(Width - 1)]]

\* What the serialisation of a state accepts: any other number is an error.
Encodable(balances) == \A token \in Tokens : balances[token] \in 0..(Width - 1)

\* Transactions, as clients sign them.
Transfer(sender, recipient, token, amount) ==
    [kind |-> "transfer", sender |-> sender, recipient |-> recipient,
     token |-> token, amount |-> amount]

Swap(sender, token, amount, minOutput) ==
    [kind |-> "swap", sender |-> sender, token |-> token, amount |-> amount,
     minOutput |-> minOutput]

Signed(transaction, signer) ==
    [field \in DOMAIN transaction \cup {"signer"} |->
        IF field = "signer" THEN signer ELSE transaction[field]]

\* Amounts are unsigned in the encoding that is signed.
SignedTransaction(tx) ==
    /\ tx.sender \in Addresses /\ tx.signer \in Addresses
    /\ tx.token \in Tokens /\ tx.amount \in Nat
    /\ \/ /\ tx.kind = "transfer"
          /\ tx = Signed(Transfer(tx.sender, tx.recipient, tx.token, tx.amount),
                        tx.signer)
          /\ tx.recipient \in Addresses
       \/ /\ tx.kind = "swap"
          /\ tx = Signed(Swap(tx.sender, tx.token, tx.amount, tx.minOutput),
                        tx.signer)
          /\ tx.minOutput \in Nat

-----------------------------------------------------------------------------
(***************************************************************************)
(* The state machine: the slot of each address it knows, the last slot it  *)
(* gave, and the leaves of its tree.  A leaf beyond the tree is not there. *)
(***************************************************************************)
Machine(keys, lastOpen, leaves) ==
    [keys |-> keys, lastOpen |-> lastOpen, leaves |-> leaves]

Roots == [Slots -> States]

\* A machine, whatever was applied to it.
MachineType(m) ==
    /\ m = Machine(m.keys, m.lastOpen, m.leaves)
    /\ DOMAIN m.keys \subseteq Addresses
    /\ m.keys \in [DOMAIN m.keys -> 0..m.lastOpen]
    /\ m.lastOpen \in Nat
    /\ m.leaves \in Roots

GetLeaf(machine, slot) ==
    IF slot \in DOMAIN machine.leaves THEN machine.leaves[slot] ELSE Empty

GetBalances(machine, address) ==
    IF address \in DOMAIN machine.keys
    THEN GetLeaf(machine, machine.keys[address]).balances
    ELSE NoBalance

\* Next to a stored leaf, an empty one is a node of one byte that stands for
\* it: an account without a leaf of its own is read as that node, which does
\* not parse, and its transaction is refused.
Unparsed(machine, address) ==
    /\ address \in DOMAIN machine.keys \ {Uniswap}
    /\ GetLeaf(machine, machine.keys[address]) = Empty
    /\ \E s \in DOMAIN machine.leaves :
          /\ s \div 2 = machine.keys[address] \div 2
          /\ machine.leaves[s] # Empty

HasBalance(machine, address, token, amount) ==
    GetBalances(machine, address)[token] >= amount

Plus(balances, token, amount) == [balances EXCEPT ![token] = @ + amount]

\* The writes of a transaction: the new balances of the first address, then
\* those of the second.
Write(address, balances) == [address |-> address, balances |-> balances]

\* The balances are read one after the other: in a transfer to oneself the
\* second write does not see the first.
TransferWrites(machine, tx) ==
    <<Write(tx.sender,
            Plus(GetBalances(machine, tx.sender), tx.token, -tx.amount)),
      Write(tx.recipient,
            Plus(GetBalances(machine, tx.recipient), tx.token, tx.amount))>>

Ceiling(a, b) == -((-a) \div b)

\* Mutant: the pool's new balance is rounded down.
NewOutputBalance_Floor(pool, token, amount) ==
    LET invariant  == pool[0] * pool[1]
        totalInput == amount * (10000 - FeeBips) + 10000 * pool[token]
    IN  (10000 * invariant) \div totalInput

\* What the pool keeps of the token it gives; the fee is not rounded.  Exact
\* numbers stand for the code's doubles.  With a fee of 0 and balances near
\* 2^31 a quotient k + 2^-31 would come out as k; the programs' fee of 30
\* leaves more room than a double loses.
NewOutputBalance(pool, token, amount) ==
    LET invariant  == pool[0] * pool[1]
        totalInput == amount * (10000 - FeeBips) + 10000 * pool[token]
    IN  Ceiling(10000 * invariant, totalInput)

SwapOutput(machine, tx) ==
    LET pool == GetBalances(machine, Uniswap)
    IN  pool[Other(tx.token)] - NewOutputBalance(pool, tx.token, tx.amount)

\* The swap is that of the signer, who may not be the sender.
SwapWrites(machine, tx) ==
    LET output == SwapOutput(machine, tx)
    IN  <<Write(tx.signer,
                Plus(Plus(GetBalances(machine, tx.signer),
                          tx.token, -tx.amount),
                     Other(tx.token), output)),
          Write(Uniswap,
                Plus(Plus(GetBalances(machine, Uniswap), tx.token, tx.amount),
                     Other(tx.token), -output))>>

Writes(machine, tx) ==
    IF tx.kind = "transfer" THEN TransferWrites(machine, tx)
                            ELSE SwapWrites(machine, tx)

\* The errors a transaction is refused with before it changes anything.  A
\* swap's balance is not one of them: the check is not awaited.
Refused(machine, tx) ==
    \/ tx.signer \notin {tx.sender, Aggregator}
    \/ tx.amount < 1
    \/ /\ tx.kind = "transfer"
       /\ ~HasBalance(machine, tx.sender, tx.token, tx.amount)
    \/ /\ tx.kind = "swap"
       /\ SwapOutput(machine, tx) < tx.minOutput

\* The slot a new address gets: the first one from the last that is free.
\* At capacity none is given, but the last open slot has moved past it.
NextSlot(machine) ==
    LET used == {machine.keys[a] : a \in DOMAIN machine.keys}
    IN  CHOOSE n \in machine.lastOpen..(machine.lastOpen + Cardinality(used)) :
            /\ n \notin used
            /\ \A k \in machine.lastOpen..(n - 1) : k \in used

AtCapacity(machine) ==
    NextSlot(machine) > machine.lastOpen /\ NextSlot(machine) > MaxAddresses

WithKey(machine, address) ==
    IF address \in DOMAIN machine.keys
    THEN machine
    ELSE Machine(IF AtCapacity(machine)
                 THEN machine.keys
                 ELSE [a \in DOMAIN machine.keys \cup {address} |->
                          IF a = address THEN NextSlot(machine)
                                         ELSE machine.keys[a]],
                 NextSlot(machine), machine.leaves)

\* The leaf written, if the balances can be encoded and the slot is one.
Written(machine, write) ==
    IF /\ write.address \in DOMAIN machine.keys
       /\ machine.keys[write.address] \in DOMAIN machine.leaves
       /\ Encodable(write.balances)
    THEN [machine EXCEPT !.leaves[machine.keys[write.address]] =
              State(write.address, write.balances)]
    ELSE machine

\* Every write of an accepted transaction goes through, and the sender has a
\* slot, which is read after them.
Sound(machine, tx) ==
    /\ tx.sender \in DOMAIN machine.keys
    /\ \A i \in {1, 2} :
          LET write == Writes(machine, tx)[i]
              keys  == WithKey(machine, write.address).keys
          IN  /\ write.address \in DOMAIN keys
              /\ keys[write.address] \in Slots
              /\ Encodable(write.balances)

\* An accepted transaction from its first write to its last.  A write that
\* fails keeps neither the other nor what follows from happening.
ApplyTransaction(machine, tx) ==
    LET writes == Writes(machine, tx)
        keyed  == WithKey(WithKey(machine, writes[1].address),
                          writes[2].address)
    IN  Written(Written(keyed, writes[1]), writes[2])
=============================================================================
