-------------------------- MODULE RollupFraud_proofs --------------------------
(***************************************************************************)
(* Proofs about posting, checking and pruning blocks (RollupFraud).        *)
(***************************************************************************)
EXTENDS RollupFraud, UnipigTransactions_proofs, SequenceTheorems,
        WellFoundedInduction

-----------------------------------------------------------------------------
(***************************************************************************)
(* Machines to which only accepted transactions were applied.              *)
(***************************************************************************)
\* The contract reads all the bits of a slot of the tree.
LEMMA PathOfSlot ==
  ASSUME NEW slot \in Slots
  PROVE  Path(slot) = slot
  <1>1. TreeHeight \in 1..TreeHeight
    BY TransactionsAssumption
  <1>2. PICK n : n = 2^(TreeHeight - 1) /\ n \in Nat \ {0}
    BY <1>1, TransactionsAssumption
  <1>3. slot \in 0..(n - 1)
    BY <1>2 DEF Slots
  <1>4. slot % n = slot
    BY <1>2, <1>3
  <1>5. QED
    BY <1>2, <1>4 DEF Path

LEMMA ShapeFacts ==
  ASSUME NEW m, MachineShape(m)
  PROVE  /\ MachineType(m) /\ m.lastOpen \in Slots /\ m.lastOpen \in Nat
         /\ m.keys[Uniswap] = 0 /\ Uniswap \in DOMAIN m.keys
         /\ \A a \in DOMAIN m.keys :
               /\ a \in Addresses /\ m.keys[a] \in 0..m.lastOpen
               /\ m.keys[a] \in Slots /\ m.leaves[m.keys[a]].pubkey = a
         /\ \A s \in 0..m.lastOpen : /\ s \in Slots
                                     /\ m.leaves[s].pubkey \in DOMAIN m.keys
                                     /\ m.keys[m.leaves[s].pubkey] = s
         /\ \A s \in Slots : s > m.lastOpen => m.leaves[s] = Empty
         /\ DOMAIN m.leaves = Slots
         /\ \A s \in Slots : m.leaves[s] \in States
  <1>1. /\ MachineType(m) /\ m.lastOpen \in Slots
        /\ m.keys[Uniswap] = 0 /\ Uniswap \in DOMAIN m.keys
        /\ \A a \in DOMAIN m.keys : m.leaves[m.keys[a]].pubkey = a
        /\ \A s \in 0..m.lastOpen : /\ m.leaves[s].pubkey \in DOMAIN m.keys
                                    /\ m.keys[m.leaves[s].pubkey] = s
        /\ \A s \in Slots : s > m.lastOpen => m.leaves[s] = Empty
    BY DEF MachineShape, UNISWAP_STORAGE_SLOT
  <1>2. 0..m.lastOpen \subseteq Slots
    BY <1>1, SlotsAreFirst
  <1>3. DOMAIN m.leaves = Slots /\ \A s \in Slots : m.leaves[s] \in States
    BY <1>1, MachineFacts DEF Roots
  <1>4. QED
    BY <1>1, <1>2, <1>3, MachineFacts

LEMMA NextSlotIsNew ==
  ASSUME NEW m, MachineShape(m)
  PROVE  NextSlot(m) = m.lastOpen + 1 /\ ~AtCapacity(m)
  <1>1. m.lastOpen \in 0..m.lastOpen
    BY ShapeFacts
  <1>2. PICK a \in DOMAIN m.keys : m.keys[a] = m.lastOpen
    BY <1>1, ShapeFacts
  <1>3. NextSlot(m) = m.lastOpen + 1
    BY <1>2, ShapeFacts, NextSlotIsNear
  <1>4. PICK n \in Nat \ {0} : Slots = 0..(n - 1) /\ MaxAddresses = 2 * n - 1
    BY SlotsAreFirst
  <1>5. m.lastOpen \in 0..(n - 1)
    BY <1>4, ShapeFacts
  <1>6. m.lastOpen + 1 <= MaxAddresses
    BY <1>4, <1>5
  <1>7. MaxAddresses \in Int /\ m.lastOpen + 1 \in Int
    BY <1>4, <1>5
  <1>8. QED
    BY <1>3, <1>6, <1>7 DEF AtCapacity

LEMMA NewKey ==
  ASSUME NEW m, MachineShape(m), NEW a, a \notin DOMAIN m.keys
  PROVE  WithKey(m, a) =
            Machine([c \in DOMAIN m.keys \cup {a} |->
                        IF c = a THEN m.lastOpen + 1 ELSE m.keys[c]],
                    m.lastOpen + 1, m.leaves)
  BY NextSlotIsNew DEF WithKey

\* The machine after two writes that go through.
After(m, a, b, c, d) ==
  LET k == WithKey(m, c)
  IN  Machine(k.keys, k.lastOpen,
              [m.leaves EXCEPT ![m.keys[a]] = State(a, b),
                               ![k.keys[c]] = State(c, d)])

LEMMA AppliedWrites ==
  ASSUME NEW m, MachineShape(m), NEW tx, NEW a \in DOMAIN m.keys,
         NEW c \in Addresses, NEW b, NEW d,
         Writes(m, tx) = <<Write(a, b), Write(c, d)>>,
         Encodable(b), Encodable(d),
         c \in DOMAIN WithKey(m, c).keys, WithKey(m, c).keys[c] \in Slots
  PROVE  ApplyTransaction(m, tx) = After(m, a, b, c, d)
  <1> DEFINE k == WithKey(m, c)
             w == Written(k, Write(a, b))
             one == [m.leaves EXCEPT ![m.keys[a]] = State(a, b)]
  <1>0. MachineType(m)
    BY ShapeFacts
  <1>1. MachineType(k) /\ k.leaves = m.leaves /\ a \in DOMAIN k.keys
        /\ k.keys[a] = m.keys[a]
    BY <1>0, WithKeyType
  <1>2. k = Machine(k.keys, k.lastOpen, m.leaves)
    BY <1>1 DEF MachineType
  <1>3. Write(a, b).address = a /\ Write(c, d).address = c
        /\ Write(a, b).balances = b /\ Write(c, d).balances = d
    BY DEF Write
  <1>4. WithKey(m, a) = m
    BY DEF WithKey
  <1>5. ApplyTransaction(m, tx) = Written(w, Write(c, d))
    BY <1>3, <1>4 DEF ApplyTransaction
  <1>6. DOMAIN m.leaves = Slots /\ m.keys[a] \in Slots
    BY ShapeFacts
  <1> HIDE DEF k
  <1>7. Written(k, Write(a, b)) = [k EXCEPT !.leaves[m.keys[a]] = State(a, b)]
    BY <1>1, <1>3, <1>6 DEF Written
  <1>8. w = Machine(k.keys, k.lastOpen, one)
    BY <1>2, <1>7 DEF Machine
  <1> HIDE DEF w
  <1>9. w.keys = k.keys /\ w.leaves = one /\ w.lastOpen = k.lastOpen
    BY <1>8 DEF Machine
  <1>10. DOMAIN one = Slots
    BY <1>6
  <1> HIDE DEF one
  <1>11. c \in DOMAIN k.keys /\ k.keys[c] \in Slots
    BY DEF k
  <1>12. Written(w, Write(c, d)) = [w EXCEPT !.leaves[k.keys[c]] = State(c, d)]
    BY <1>3, <1>9, <1>10, <1>11 DEF Written
  <1>13. Written(w, Write(c, d)) =
            Machine(k.keys, k.lastOpen, [one EXCEPT ![k.keys[c]] = State(c, d)])
    BY <1>8, <1>12 DEF Machine
  <1>14. QED
    BY <1>5, <1>13 DEF After, k, one

LEMMA AfterShape ==
  ASSUME NEW m, MachineShape(m), NEW a \in DOMAIN m.keys,
         NEW c \in Addresses,
         NEW b \in [Tokens -> Int], NEW d \in [Tokens -> Int],
         Encodable(b), Encodable(d),
         WithKey(m, c).keys[c] \in Slots
  PROVE  MachineShape(After(m, a, b, c, d))
  <1> DEFINE k == WithKey(m, c)
             leaves == [m.leaves EXCEPT ![m.keys[a]] = State(a, b),
                                        ![k.keys[c]] = State(c, d)]
             n == After(m, a, b, c, d)
  <1>0. MachineType(m) /\ a \in Addresses
    BY ShapeFacts
  <1>1. MachineType(k)
    BY <1>0, WithKeyType
  <1>2. n = Machine(k.keys, k.lastOpen, leaves)
    BY DEF After
  <1>3. n.keys = k.keys /\ n.lastOpen = k.lastOpen /\ n.leaves = leaves
    BY <1>2 DEF Machine
  <1>4. State(a, b) \in States /\ State(c, d) \in States
        /\ State(a, b).pubkey = a /\ State(c, d).pubkey = c
    BY <1>0, StateIsAState DEF State
  <1>5. m.leaves \in Roots /\ m.keys[a] \in Slots /\ m.leaves[m.keys[a]].pubkey = a
        /\ m.keys[a] \in 0..m.lastOpen /\ m.lastOpen \in Nat
    BY ShapeFacts, MachineFacts
  <1>6. leaves \in Roots
    BY <1>4, <1>5 DEF Roots
  <1>7. \A s \in Slots :
            leaves[s] = IF s = k.keys[c] THEN State(c, d)
                        ELSE IF s = m.keys[a] THEN State(a, b) ELSE m.leaves[s]
    BY <1>5 DEF Roots
  <1> HIDE DEF leaves
  <1>8. MachineType(n)
    <2>1. n = Machine(n.keys, n.lastOpen, n.leaves)
      BY <1>2, <1>3
    <2>2. /\ DOMAIN k.keys \subseteq Addresses
          /\ k.keys \in [DOMAIN k.keys -> 0..k.lastOpen]
          /\ k.lastOpen \in Nat
      BY <1>1 DEF MachineType
    <2>3. QED
      BY <2>1, <2>2, <1>3, <1>6 DEF MachineType
  <1>9. CASE c \in DOMAIN m.keys
    <2>1. k = m
      BY <1>9 DEF WithKey
    <2>2. m.leaves[m.keys[c]].pubkey = c /\ m.keys[c] \in 0..m.lastOpen
      BY <1>9, ShapeFacts
    <2> HIDE DEF k, n
    <2>3. \A s \in Slots : leaves[s].pubkey = m.leaves[s].pubkey
      BY <1>4, <1>5, <1>7, <2>1, <2>2
    <2>4. \A s \in Slots : s > m.lastOpen => leaves[s] = m.leaves[s]
      BY <1>5, <1>7, <2>1, <2>2
    <2>5. \A x \in DOMAIN m.keys : leaves[m.keys[x]].pubkey = x
      BY <2>3, ShapeFacts
    <2>6. \A s \in 0..m.lastOpen : /\ leaves[s].pubkey \in DOMAIN m.keys
                                  /\ m.keys[leaves[s].pubkey] = s
      BY <2>3, ShapeFacts
    <2>7. \A s \in Slots : s > m.lastOpen => leaves[s] = Empty
      BY <2>4, ShapeFacts
    <2>8. m.lastOpen \in Slots /\ m.keys[Uniswap] = UNISWAP_STORAGE_SLOT
          /\ Uniswap \in DOMAIN m.keys
      BY ShapeFacts DEF UNISWAP_STORAGE_SLOT
    <2>9. QED
      BY <1>3, <1>8, <2>1, <2>5, <2>6, <2>7, <2>8 DEF MachineShape, n
  <1>10. CASE c \notin DOMAIN m.keys
    <2> DEFINE new == m.lastOpen + 1
               grown == [x \in DOMAIN m.keys \cup {c} |->
                            IF x = c THEN new ELSE m.keys[x]]
    <2>1. k = Machine(grown, new, m.leaves)
      BY <1>10, NewKey
    <2>2. k.keys = grown /\ k.lastOpen = new
      BY <2>1 DEF Machine
    <2>3. new \in Slots
      BY <2>2
    <2>4. new > m.lastOpen /\ new \in Nat /\ k.keys[c] = new
      BY <1>5, <2>2
    <2> HIDE DEF k, n
    <2>5. \A s \in Slots : s # new => leaves[s].pubkey = m.leaves[s].pubkey
      BY <1>4, <1>5, <1>7, <2>4
    <2>6. leaves[new].pubkey = c
      BY <1>4, <1>7, <2>3, <2>4
    <2>7. \A s \in Slots : s > new => leaves[s] = Empty
      <3> SUFFICES ASSUME NEW s \in Slots, s > new PROVE leaves[s] = Empty
        OBVIOUS
      <3>1. s \in Nat
        BY SlotsAreNat
      <3>2. s # new /\ s # m.keys[a] /\ s > m.lastOpen
        BY <1>5, <2>4, <3>1
      <3>3. leaves[s] = m.leaves[s]
        BY <1>7, <2>4, <3>2
      <3>4. QED
        BY <3>2, <3>3, ShapeFacts
    <2>8. \A x \in DOMAIN grown : leaves[grown[x]].pubkey = x
      <3> SUFFICES ASSUME NEW x \in DOMAIN grown
                   PROVE  leaves[grown[x]].pubkey = x
        OBVIOUS
      <3>1. CASE x = c
        BY <2>6, <3>1
      <3>2. CASE x # c
        <4>1. x \in DOMAIN m.keys /\ grown[x] = m.keys[x]
          BY <3>2
        <4>2. m.keys[x] \in Slots /\ m.keys[x] \in 0..m.lastOpen
              /\ m.leaves[m.keys[x]].pubkey = x
          BY <4>1, ShapeFacts
        <4>3. m.keys[x] # new
          BY <4>2, <1>5
        <4>4. QED
          BY <4>1, <4>2, <4>3, <2>5
      <3>3. QED
        BY <3>1, <3>2
    <2>9. \A s \in 0..new : leaves[s].pubkey \in DOMAIN grown
                           /\ grown[leaves[s].pubkey] = s
      <3> SUFFICES ASSUME NEW s \in 0..new
                   PROVE  leaves[s].pubkey \in DOMAIN grown
                          /\ grown[leaves[s].pubkey] = s
        OBVIOUS
      <3>1. CASE s = new
        BY <2>6, <3>1
      <3>2. CASE s # new
        <4>1. s \in 0..m.lastOpen
          BY <1>5, <3>2
        <4>2. /\ s \in Slots /\ m.leaves[s].pubkey \in DOMAIN m.keys
              /\ m.keys[m.leaves[s].pubkey] = s
          BY <4>1, ShapeFacts
        <4>3. leaves[s].pubkey = m.leaves[s].pubkey
          BY <3>2, <4>2, <2>5
        <4>4. QED
          BY <4>2, <4>3, <1>10
      <3>3. QED
        BY <3>1, <3>2
    <2>10. Uniswap \in DOMAIN grown /\ grown[Uniswap] = UNISWAP_STORAGE_SLOT
      BY <1>10, ShapeFacts DEF UNISWAP_STORAGE_SLOT
    <2> HIDE DEF grown, new
    <2>11. n.keys = grown /\ n.lastOpen = new /\ n.leaves = leaves
      BY <1>3, <2>2 DEF n
    <2>12. MachineType(n)
      BY <1>8 DEF n
    <2>13. MachineShape(n)
      BY <2>3, <2>7, <2>8, <2>9, <2>10, <2>11, <2>12 DEF MachineShape
    <2>14. QED
      BY <2>13 DEF n
  <1>11. QED
    BY <1>9, <1>10

LEMMA BalancesOfKnown ==
  ASSUME NEW m, MachineShape(m), NEW a \in DOMAIN m.keys
  PROVE  /\ GetBalances(m, a) = m.leaves[m.keys[a]].balances
         /\ m.leaves[m.keys[a]] = State(a, GetBalances(m, a))
         /\ GetBalances(m, a) \in Balance
  <1>1. m.keys[a] \in DOMAIN m.leaves /\ m.leaves[m.keys[a]] \in States
        /\ m.leaves[m.keys[a]].pubkey = a
    BY ShapeFacts
  <1>2. GetBalances(m, a) = m.leaves[m.keys[a]].balances
    BY <1>1 DEF GetBalances, GetLeaf
  <1>3. QED
    BY <1>1, <1>2 DEF States, State, Balance

LEMMA AcceptedTransfer ==
  ASSUME NEW m, MachineShape(m), NEW tx, TransactionType(tx),
         tx.kind = "transfer", Accepted(m, tx)
  PROVE  /\ tx.sender \in DOMAIN m.keys
         /\ tx.recipient \in Addresses
         /\ SenderLeft(m, tx) \in [Tokens -> Int]
         /\ RecipientGets(m, tx) \in [Tokens -> Int]
         /\ Encodable(SenderLeft(m, tx)) /\ Encodable(RecipientGets(m, tx))
         /\ tx.recipient \in DOMAIN WithKey(m, tx.recipient).keys
         /\ WithKey(m, tx.recipient).keys[tx.recipient] \in Slots
         /\ ApplyTransaction(m, tx) =
               After(m, tx.sender, SenderLeft(m, tx),
                     tx.recipient, RecipientGets(m, tx))
  <1>1. Writes(m, tx) = <<Write(tx.sender, SenderLeft(m, tx)),
                          Write(tx.recipient, RecipientGets(m, tx))>>
    BY DEF Writes, TransferWrites, SenderLeft, RecipientGets
  <1>2. /\ tx.sender \in Addresses /\ tx.recipient \in Addresses
        /\ tx.token \in Tokens /\ tx.amount \in Int /\ -tx.amount \in Int
    BY DEF TransactionType
  <1>3. /\ SenderLeft(m, tx) \in [Tokens -> Int]
        /\ RecipientGets(m, tx) \in [Tokens -> Int]
    BY <1>2, BalancesType, BalanceIsNat, PlusType, ShapeFacts
       DEF SenderLeft, RecipientGets
  <1>4. /\ Writes(m, tx)[1].address = tx.sender
        /\ Writes(m, tx)[1].balances = SenderLeft(m, tx)
        /\ Writes(m, tx)[2].address = tx.recipient
        /\ Writes(m, tx)[2].balances = RecipientGets(m, tx)
    BY <1>1 DEF Write
  <1>5. Sound(m, tx)
    BY DEF Accepted
  <1>6. tx.sender \in DOMAIN m.keys /\ Encodable(SenderLeft(m, tx))
    BY <1>4, <1>5 DEF Sound
  <1>7. /\ Encodable(RecipientGets(m, tx))
        /\ tx.recipient \in DOMAIN WithKey(m, tx.recipient).keys
        /\ WithKey(m, tx.recipient).keys[tx.recipient] \in Slots
    BY <1>4, <1>5 DEF Sound
  <1>8. ApplyTransaction(m, tx) =
            After(m, tx.sender, SenderLeft(m, tx),
                  tx.recipient, RecipientGets(m, tx))
    BY <1>1, <1>2, <1>6, <1>7, AppliedWrites
  <1>9. QED
    BY <1>2, <1>3, <1>6, <1>7, <1>8

LEMMA AcceptedSwap ==
  ASSUME NEW m, MachineShape(m), NEW tx, TransactionType(tx),
         tx.kind = "swap", Accepted(m, tx)
  PROVE  /\ tx.sender \in DOMAIN m.keys /\ tx.signer \in DOMAIN m.keys
         /\ Encodable(SignerLeft(m, tx)) /\ Encodable(PoolGets(m, tx))
         /\ ApplyTransaction(m, tx) =
               After(m, tx.signer, SignerLeft(m, tx), Uniswap, PoolGets(m, tx))
  <1>1. Writes(m, tx) = <<Write(tx.signer, SignerLeft(m, tx)),
                          Write(Uniswap, PoolGets(m, tx))>>
    BY DEF Writes, SwapWrites, SignerLeft, PoolGets
  <1>2. /\ Writes(m, tx)[1].address = tx.signer
        /\ Writes(m, tx)[1].balances = SignerLeft(m, tx)
        /\ Writes(m, tx)[2].balances = PoolGets(m, tx)
    BY <1>1 DEF Write
  <1>3. Sound(m, tx)
    BY DEF Accepted
  <1>4. tx.sender \in DOMAIN m.keys /\ Encodable(SignerLeft(m, tx))
    BY <1>2, <1>3 DEF Sound
  <1>5. Encodable(PoolGets(m, tx))
    BY <1>2, <1>3 DEF Sound
  <1>6. tx.signer \in DOMAIN m.keys
    <2> SUFFICES ASSUME tx.signer \notin DOMAIN m.keys PROVE FALSE
      OBVIOUS
    <2>1. tx.token \in Tokens /\ tx.amount \in Nat \ {0}
      BY DEF TransactionType
    <2>2. GetBalances(m, tx.signer)[tx.token] = 0
      BY <2>1, BalancesOfUnknown DEF NoBalance
    <2>3. SignerLeft(m, tx)[tx.token] < 0
      BY <2>1, <2>2, SwapWritesType, ShapeFacts
    <2>4. SignerLeft(m, tx)[tx.token] \in 0..(Width - 1)
      BY <2>1, <1>4 DEF Encodable
    <2>5. QED
      BY <2>3, <2>4, TransactionsAssumption
  <1>7. /\ WithKey(m, Uniswap) = m /\ Uniswap \in DOMAIN m.keys
        /\ m.keys[Uniswap] \in Slots /\ Uniswap \in Addresses
    BY ShapeFacts DEF WithKey
  <1>8. QED
    BY <1>1, <1>4, <1>5, <1>6, <1>7, AppliedWrites

\* An accepted transaction keeps the machine's shape.
LEMMA AcceptedShape ==
  ASSUME NEW m, MachineShape(m), NEW tx, TransactionType(tx), Accepted(m, tx)
  PROVE  MachineShape(ApplyTransaction(m, tx))
  <1>1. CASE tx.kind = "transfer"
    BY <1>1, AcceptedTransfer, AfterShape
  <1>2. CASE tx.kind = "swap"
    <2>1. /\ WithKey(m, Uniswap).keys[Uniswap] \in Slots /\ Uniswap \in Addresses
      BY ShapeFacts DEF WithKey
    <2>2. SignerLeft(m, tx) \in [Tokens -> Int] /\ PoolGets(m, tx) \in [Tokens -> Int]
      BY SwapWritesType, ShapeFacts
    <2>3. QED
      BY <1>2, <2>1, <2>2, AcceptedSwap, AfterShape
  <1>3. QED
    BY <1>1, <1>2 DEF TransactionType

-----------------------------------------------------------------------------
(***************************************************************************)
(* The transition of an accepted transaction, and what the contract makes  *)
(* of it.                                                                  *)
(***************************************************************************)
LEMMA TransferTransitionOf ==
  ASSUME NEW m, MachineShape(m), NEW tx, TransactionType(tx),
         tx.kind = "transfer", Accepted(m, tx)
  PROVE  LET leaves == ApplyTransaction(m, tx).leaves
         IN  /\ tx.recipient \in DOMAIN m.keys =>
                   TransitionOf(m, tx) =
                      TransferTransition(leaves, m.keys[tx.sender],
                                         m.keys[tx.recipient], tx)
             /\ tx.recipient \notin DOMAIN m.keys =>
                   TransitionOf(m, tx) =
                      CreateAndTransferTransition(leaves, m.keys[tx.sender],
                                                  m.lastOpen + 1, tx)
  <1> DEFINE after == ApplyTransaction(m, tx)
             k == WithKey(m, tx.recipient)
  <1>1. after.keys = k.keys
    <2>1. after = After(m, tx.sender, SenderLeft(m, tx),
                        tx.recipient, RecipientGets(m, tx))
      BY AcceptedTransfer
    <2>2. QED
      BY <2>1 DEF After, Machine
  <1>2. k.keys[tx.sender] = m.keys[tx.sender]
    BY AcceptedTransfer, WithKeyType, ShapeFacts
  <1>3. tx.recipient \in DOMAIN m.keys => k.keys[tx.recipient] = m.keys[tx.recipient]
    BY DEF WithKey
  <1>4. tx.recipient \notin DOMAIN m.keys => k.keys[tx.recipient] = m.lastOpen + 1
    <2> SUFFICES ASSUME tx.recipient \notin DOMAIN m.keys
                 PROVE  k.keys[tx.recipient] = m.lastOpen + 1
      OBVIOUS
    <2> DEFINE grown == [c \in DOMAIN m.keys \cup {tx.recipient} |->
                            IF c = tx.recipient THEN m.lastOpen + 1
                                                ELSE m.keys[c]]
    <2>1. k = Machine(grown, m.lastOpen + 1, m.leaves)
      BY NewKey
    <2>2. k.keys = grown
      BY <2>1 DEF Machine
    <2>3. QED
      BY <2>2
  <1> HIDE DEF after, k
  <1>5. TransitionOf(m, tx) =
          IF tx.recipient \in DOMAIN m.keys
          THEN TransferTransition(after.leaves, after.keys[tx.sender],
                                  after.keys[tx.recipient], tx)
          ELSE CreateAndTransferTransition(after.leaves, after.keys[tx.sender],
                                           after.keys[tx.recipient], tx)
    BY DEF TransitionOf, after
  <1>6. QED
    BY <1>1, <1>2, <1>3, <1>4, <1>5 DEF after

LEMMA SwapTransitionOf ==
  ASSUME NEW m, MachineShape(m), NEW tx, TransactionType(tx),
         tx.kind = "swap", Accepted(m, tx)
  PROVE  /\ TransitionOf(m, tx) =
               SwapTransition(ApplyTransaction(m, tx).leaves,
                              m.keys[tx.sender], tx)
         /\ ApplyTransaction(m, tx).leaves =
               [m.leaves EXCEPT ![m.keys[tx.signer]] =
                                    State(tx.signer, SignerLeft(m, tx)),
                                ![0] = State(Uniswap, PoolGets(m, tx))]
  <1>1. WithKey(m, Uniswap) = m /\ m.keys[Uniswap] = 0
    BY ShapeFacts DEF WithKey
  <1> DEFINE after == ApplyTransaction(m, tx)
  <1>2. after = After(m, tx.signer, SignerLeft(m, tx), Uniswap, PoolGets(m, tx))
    BY AcceptedSwap
  <1>3. after.keys = m.keys
    BY <1>1, <1>2 DEF After, Machine
  <1>4. after.leaves =
           [m.leaves EXCEPT ![m.keys[tx.signer]] =
                                State(tx.signer, SignerLeft(m, tx)),
                            ![0] = State(Uniswap, PoolGets(m, tx))]
    BY <1>1, <1>2 DEF After, Machine
  <1> HIDE DEF after
  <1>5. TransitionOf(m, tx) =
            SwapTransition(after.leaves, after.keys[tx.sender], tx)
    BY DEF TransitionOf, after
  <1>6. QED
    BY <1>3, <1>4, <1>5 DEF after

LEMMA CreditedIs ==
  ASSUME NEW leaf \in States, NEW k \in Tokens, NEW n \in Int,
         leaf.balances[k] + n \in 0..(Width - 1)
  PROVE  /\ Credited(leaf, k, n) = State(leaf.pubkey, Plus(leaf.balances, k, n))
         /\ Credited(leaf, k, n).pubkey = leaf.pubkey
         /\ Credited(leaf, k, n).balances = Plus(leaf.balances, k, n)
  <1> DEFINE new == leaf.balances[k] + n
  <1>1. /\ leaf = [pubkey |-> leaf.pubkey, balances |-> leaf.balances]
        /\ leaf.balances \in [Tokens -> 0..(Width - 1)]
    BY DEF States
  <1>2. new % Width = new
    <2> HIDE DEF new
    <2>1. new \in 0..(Width - 1)
      BY DEF new
    <2>2. QED
      BY <2>1, TransactionsAssumption
  <1>3. Credited(leaf, k, n) =
          [leaf EXCEPT !.balances = [leaf.balances EXCEPT ![k] = new % Width]]
    BY DEF Credited
  <1>4. Credited(leaf, k, n) =
          [leaf EXCEPT !.balances = [leaf.balances EXCEPT ![k] = new]]
    BY <1>2, <1>3
  <1>5. Plus(leaf.balances, k, n) = [leaf.balances EXCEPT ![k] = new]
    BY DEF Plus
  <1> HIDE DEF new
  <1>6. QED
    BY <1>1, <1>4, <1>5 DEF State

LEMMA DebitedIs ==
  ASSUME NEW leaf \in States, NEW k \in Tokens, NEW n \in Int,
         leaf.balances[k] + (-n) \in 0..(Width - 1)
  PROVE  Debited(leaf, k, n) = State(leaf.pubkey, Plus(leaf.balances, k, -n))
         /\ Debited(leaf, k, n).pubkey = leaf.pubkey
         /\ Debited(leaf, k, n).balances = Plus(leaf.balances, k, -n)
  BY CreditedIs, -n \in Int DEF Debited

\* A sound transfer, of part of the balance and not to the pool, evaluates
\* to what the machine wrote.
LEMMA TransferEvaluates ==
  ASSUME NEW m, MachineShape(m), NEW tx, TransactionType(tx),
         SignedTransaction(tx), tx.kind = "transfer", Accepted(m, tx),
         tx.signer = tx.sender,
         GetBalances(m, tx.sender)[tx.token] # tx.amount,
         tx.recipient # Uniswap,
         NEW t, t.to # 0, t.signature = tx, t.token = tx.token,
         t.amount = tx.amount
  PROVE  EvaluateTransfer(t, State(tx.sender, GetBalances(m, tx.sender)),
                             State(tx.recipient, GetBalances(m, tx.recipient)))
           = Output(State(tx.sender, SenderLeft(m, tx)),
                    State(tx.recipient, RecipientGets(m, tx)))
  <1> DEFINE sb == GetBalances(m, tx.sender)
             rb == GetBalances(m, tx.recipient)
             s == State(tx.sender, sb)
             r == State(tx.recipient, rb)
  <1>1. /\ tx.sender \in Addresses /\ tx.recipient \in Addresses
        /\ tx.token \in Tokens /\ tx.amount \in Nat /\ -tx.amount \in Int
    BY DEF TransactionType
  <1>2. sb \in Balance /\ rb \in Balance
    BY BalancesType, ShapeFacts
  <1>3. s \in States /\ r \in States /\ s.balances = sb /\ r.balances = rb
        /\ s.pubkey = tx.sender /\ r.pubkey = tx.recipient
    BY <1>1, <1>2 DEF State, States, Balance
  <1>4. sb[tx.token] >= tx.amount /\ sb[tx.token] \in Nat /\ rb[tx.token] \in Nat
    BY <1>1, <1>2, BalanceIsNat DEF Accepted, Refused, HasBalance
  <1>5. sb[tx.token] > tx.amount
    BY <1>1, <1>4
  <1>6. /\ SenderLeft(m, tx) = Plus(sb, tx.token, -tx.amount)
        /\ RecipientGets(m, tx) = Plus(rb, tx.token, tx.amount)
    BY DEF SenderLeft, RecipientGets
  <1>7. /\ SenderLeft(m, tx)[tx.token] \in 0..(Width - 1)
        /\ RecipientGets(m, tx)[tx.token] \in 0..(Width - 1)
    BY <1>1, AcceptedTransfer DEF Encodable
  <1> HIDE DEF sb, rb
  <1>8. /\ SenderLeft(m, tx)[tx.token] = sb[tx.token] + (-tx.amount)
        /\ RecipientGets(m, tx)[tx.token] = rb[tx.token] + tx.amount
    BY <1>1, <1>2, <1>6 DEF Plus, Balance
  <1> HIDE DEF s, r
  <1>9. Debited(s, tx.token, tx.amount) = State(tx.sender, SenderLeft(m, tx))
    <2>1. s.balances[tx.token] + (-tx.amount) \in 0..(Width - 1)
      BY <1>3, <1>7, <1>8
    <2>2. QED
      BY <1>1, <1>3, <1>6, <2>1, DebitedIs
  <1>10. Credited(r, tx.token, tx.amount) = State(tx.recipient, RecipientGets(m, tx))
    <2>1. r.balances[tx.token] + tx.amount \in 0..(Width - 1)
      BY <1>3, <1>7, <1>8
    <2>2. QED
      BY <1>1, <1>3, <1>6, <2>1, CreditedIs
  <1>11. t.signature = Signed(Transfer(s.pubkey, r.pubkey, t.token, t.amount),
                              s.pubkey)
    BY <1>3, KindsOfTransactions
  <1>12. EvaluateTransfer(t, s, r) = Output(Debited(s, t.token, t.amount),
                                            Credited(r, t.token, t.amount))
    BY <1>3, <1>5, <1>11 DEF EvaluateTransfer, UNISWAP_STORAGE_SLOT
  <1>13. EvaluateTransfer(t, s, r) = Output(State(tx.sender, SenderLeft(m, tx)),
                                            State(tx.recipient, RecipientGets(m, tx)))
    BY <1>9, <1>10, <1>12
  <1>14. QED
    BY <1>13 DEF s, r, sb, rb

LEMMA OutputFields ==
  ASSUME NEW s, NEW r
  PROVE  Output(s, r).ok /\ Output(s, r).leaves[1] = s /\ Output(s, r).leaves[2] = r
  BY DEF Output

\* What the contract makes of a transfer's slots is what the machine wrote.
LEMMA TransferFollows ==
  ASSUME NEW m, MachineShape(m), NEW tx, SignedTransaction(tx),
         tx.kind = "transfer", Accepted(m, tx), ~Divergent(m, tx)
  PROVE  Follows(m.leaves, TransitionOf(m, tx))
  <1> DEFINE from == m.keys[tx.sender]
             k == WithKey(m, tx.recipient)
             to == k.keys[tx.recipient]
             sender == State(tx.sender, SenderLeft(m, tx))
             recipient == State(tx.recipient, RecipientGets(m, tx))
             root == ApplyTransaction(m, tx).leaves
             t == TransitionOf(m, tx)
  <1>1. TransactionType(tx)
    BY NotRefusedType DEF Accepted
  <1>2. /\ tx.signer = tx.sender /\ tx.recipient # Uniswap
        /\ GetBalances(m, tx.sender)[tx.token] # tx.amount
    BY DEF Divergent
  <1>3. tx.sender \in DOMAIN m.keys
    BY <1>1, AcceptedTransfer
  <1>4. m.leaves[from] = State(tx.sender, GetBalances(m, tx.sender))
    BY <1>3, BalancesOfKnown
  <1>5. root = [m.leaves EXCEPT ![from] = sender, ![to] = recipient]
    BY <1>1, AcceptedTransfer DEF After, Machine
  <1>6. CASE tx.recipient \in DOMAIN m.keys
    <2>1. k = m
      BY <1>6 DEF WithKey
    <2>2. t = TransferTransition(root, from, to, tx)
      BY <1>1, <1>6, <2>1, TransferTransitionOf
    <2>3. m.leaves[to] = State(tx.recipient, GetBalances(m, tx.recipient))
      BY <1>6, <2>1, BalancesOfKnown
    <2>0. from \in DOMAIN m.leaves /\ to \in DOMAIN m.leaves
      BY <1>3, <1>6, <2>1, ShapeFacts
    <2>4. to # 0
      <3>1. m.leaves[to].pubkey = tx.recipient
        BY <2>3 DEF State
      <3>2. m.leaves[0].pubkey = Uniswap
        BY ShapeFacts
      <3>3. QED
        BY <3>1, <3>2, <1>2
    <2> HIDE DEF from, k, to, root, t, sender, recipient
    <2>5. /\ t.kind = "transfer" /\ t.from = from /\ t.to = to /\ t.root = root
          /\ t.signature = tx /\ t.token = tx.token /\ t.amount = tx.amount
      BY <2>2 DEF TransferTransition
    <2>6. EvaluateTransfer(t, m.leaves[from], m.leaves[to]) = Output(sender, recipient)
      BY <1>1, <1>2, <1>4, <2>3, <2>4, <2>5, TransferEvaluates DEF sender, recipient
    <2>7. EvaluateTransition(t, m.leaves[from], m.leaves[to]) = Output(sender, recipient)
      BY <2>5, <2>6 DEF EvaluateTransition
    <2>8. Follows(m.leaves, t)
      BY <1>5, <2>0, <2>5, <2>7, OutputFields DEF Follows, Decodes
    <2>9. QED
      BY <2>8 DEF t
  <1>7. CASE tx.recipient \notin DOMAIN m.keys
    <2> DEFINE new == m.lastOpen + 1
               grown == [c \in DOMAIN m.keys \cup {tx.recipient} |->
                            IF c = tx.recipient THEN new ELSE m.keys[c]]
               none == State(tx.recipient, GetBalances(m, tx.recipient))
    <2>1. k = Machine(grown, new, m.leaves)
      BY <1>7, NewKey
    <2>2. k.keys = grown
      BY <2>1 DEF Machine
    <2>3. to = new
      BY <2>2
    <2>4. t = CreateAndTransferTransition(root, from, to, tx)
      BY <1>1, <1>7, <2>3, TransferTransitionOf
    <2>5. to \in Slots
      BY <1>1, AcceptedTransfer
    <2>6. to > m.lastOpen /\ to # 0
      BY <2>3, ShapeFacts
    <2>0. from \in DOMAIN m.leaves /\ to \in DOMAIN m.leaves
      BY <1>3, <2>5, ShapeFacts
    <2>7. m.leaves[to] = Empty
      BY <2>5, <2>6, ShapeFacts
    <2>8. none = [Empty EXCEPT !.pubkey = tx.recipient]
      BY <1>7, BalancesOfUnknown DEF Empty, State
    <2> HIDE DEF from, k, to, root, t, sender, recipient, none
    <2>9. /\ t.kind = "create" /\ t.from = from /\ t.to = to /\ t.root = root
          /\ t.signature = tx /\ t.token = tx.token /\ t.amount = tx.amount
          /\ t.created = tx.recipient
      BY <2>4 DEF CreateAndTransferTransition
    <2>10. EvaluateTransfer(t, m.leaves[from], none) = Output(sender, recipient)
      BY <1>1, <1>2, <1>4, <2>6, <2>9, TransferEvaluates
         DEF sender, recipient, none
    <2>11. EvaluateCreateAndTransfer(t, m.leaves[from], m.leaves[to])
              = Output(sender, recipient)
      BY <2>7, <2>8, <2>9, <2>10 DEF EvaluateCreateAndTransfer
    <2>12. EvaluateTransition(t, m.leaves[from], m.leaves[to])
              = Output(sender, recipient)
      BY <2>9, <2>11 DEF EvaluateTransition
    <2>13. Follows(m.leaves, t)
      BY <1>5, <2>0, <2>9, <2>12, OutputFields DEF Follows, Decodes
    <2>14. QED
      BY <2>13 DEF t
  <1>8. QED
    BY <1>6, <1>7

\* A swap that loses nothing to rounding pays what the contract pays.
LEMMA SwapPays ==
  ASSUME NEW k \in Nat, NEW d \in Nat \ {0}, NEW n, NEW e,
         n = 10000 * (k * d), e = 10000 * d
  PROVE  Ceiling(n, e) = k
  <1>1. -((-(10000 * (k * d))) \div (10000 * d)) = k
    OBVIOUS
  <1>2. QED
    BY <1>1 DEF Ceiling

\* The balances between the two steps of a swap, and after it.
LEMMA CreditThenDebit ==
  ASSUME NEW a \in Addresses, NEW b \in Balance, NEW k \in Tokens,
         NEW n \in Int, NEW o \in Int,
         b[k] + n \in 0..(Width - 1), b[Other(k)] + o \in 0..(Width - 1)
  PROVE  Credited(Credited(State(a, b), k, n), Other(k), o)
           = State(a, Plus(Plus(b, k, n), Other(k), o))
  <1> DEFINE c == Plus(b, k, n)
  <1>1. b \in [Tokens -> Int] /\ Other(k) \in Tokens /\ Other(k) # k
    BY OtherIsAToken, BalanceIsNat
  <1>2. State(a, b) \in States /\ State(a, b).balances = b /\ State(a, b).pubkey = a
    BY DEF State, States, Balance
  <1>3. Credited(State(a, b), k, n) = State(a, c)
    BY <1>2, CreditedIs
  <1>4. c \in Balance
    BY DEF Balance, Plus
  <1>5. c[Other(k)] = b[Other(k)]
    BY <1>1 DEF Plus, Balance
  <1> HIDE DEF c
  <1>6. State(a, c) \in States /\ State(a, c).balances = c /\ State(a, c).pubkey = a
    BY <1>4 DEF State, States, Balance
  <1>7. Credited(State(a, c), Other(k), o) = State(a, Plus(c, Other(k), o))
    <2>1. State(a, c).balances[Other(k)] + o \in 0..(Width - 1)
      BY <1>5, <1>6
    <2>2. QED
      BY <1>1, <1>6, <2>1, CreditedIs
  <1>8. QED
    BY <1>3, <1>7 DEF c

\* Where nothing is lost to rounding, machine and contract pay the same.
LEMMA SameOutput ==
  ASSUME NEW m, MachineShape(m), NEW tx, TransactionType(tx),
         tx.kind = "swap", ~Divergent(m, tx)
  PROVE  LET pool == GetBalances(m, Uniswap)
             total == SwapInput(tx.amount) + pool[tx.token]
             invariant == (pool[0] * pool[1]) % Width
         IN  /\ total \in Nat /\ total # 0
             /\ invariant \div total \in Nat
             /\ SwapOutput(m, tx) = pool[Other(tx.token)] - invariant \div total
  <1> DEFINE pool == GetBalances(m, Uniswap)
             p == pool[tx.token]
             fee == tx.amount * (10000 - FeeBips)
             f == fee \div 10000
             product == pool[0] * pool[1]
             k == product \div (f + p)
             q == pool[Other(tx.token)]
  <1>1. tx.token \in Tokens /\ tx.amount \in Nat \ {0}
    BY DEF TransactionType
  <1>2. pool \in Balance
    BY BalancesType, ShapeFacts
  <1>3. p \in Nat /\ pool[0] \in Nat /\ pool[1] \in Nat /\ q \in Nat
    BY <1>1, <1>2, BalanceIsNat, OtherIsAToken
  <1>4. fee \in Nat \ {0}
    BY <1>1, InputIsPositive
  <1>5. fee % 10000 = 0 /\ ~(product >= Width) /\ product % (f + p) = 0
    BY DEF Divergent
  <1>6. product \in Nat
    BY <1>3
  <1>7. SwapOutput(m, tx) = q - Ceiling(10000 * product, fee + 10000 * p)
    BY DEF SwapOutput, NewOutputBalance
  <1>8. SwapInput(tx.amount) = f
    BY DEF SwapInput
  <1> HIDE DEF fee, p, product, pool, q
  <1>9. fee = 10000 * f /\ f \in Nat \ {0}
    BY <1>4, <1>5
  <1> HIDE DEF f
  <1>10. f + p \in Nat \ {0}
    BY <1>3, <1>9
  <1>11. k \in Nat /\ product = k * (f + p)
    <2> DEFINE d == f + p
    <2> HIDE DEF d
    <2>1. product \div d \in Nat /\ product = (product \div d) * d
      BY <1>5, <1>6, <1>10 DEF d
    <2>2. QED
      BY <2>1 DEF d
  <1>12. product % Width = product
    BY <1>5, <1>6, TransactionsAssumption
  <1> HIDE DEF k
  <1>13. fee + 10000 * p = 10000 * (f + p)
    BY <1>3, <1>9
  <1>14. Ceiling(10000 * product, fee + 10000 * p) = k
    <2> DEFINE d == f + p
    <2>1. k \in Nat /\ d \in Nat \ {0} /\ product = k * d
          /\ fee + 10000 * p = 10000 * d
      BY <1>10, <1>11, <1>13
    <2> HIDE DEF d
    <2> DEFINE n == 10000 * product
               e == fee + 10000 * p
    <2>2. n = 10000 * (k * d) /\ e = 10000 * d
      BY <2>1
    <2> HIDE DEF n, e
    <2>3. Ceiling(n, e) = k
      BY <2>1, <2>2, SwapPays
    <2>4. QED
      BY <2>3 DEF n, e
  <1>15. SwapOutput(m, tx) = q - k
    BY <1>7, <1>14
  <1>16. (product % Width) \div (f + p) = k
    BY <1>12 DEF k
  <1>17. QED
    BY <1>8, <1>10, <1>11, <1>15, <1>16 DEF pool, p, product, q

LEMMA SwapFollows ==
  ASSUME NEW m, MachineShape(m), NEW tx, SignedTransaction(tx),
         tx.kind = "swap", Accepted(m, tx), ~Divergent(m, tx)
  PROVE  Follows(m.leaves, TransitionOf(m, tx))
  <1> DEFINE from == m.keys[tx.sender]
             root == ApplyTransaction(m, tx).leaves
             t == TransitionOf(m, tx)
             sb == GetBalances(m, tx.sender)
             pool == GetBalances(m, Uniswap)
             s == State(tx.sender, sb)
             p == State(Uniswap, pool)
             out == SwapOutput(m, tx)
             o == Other(tx.token)
             sender == State(tx.sender, SignerLeft(m, tx))
             recipient == State(Uniswap, PoolGets(m, tx))
             total == SwapInput(tx.amount) + pool[tx.token]
             invariant == (pool[0] * pool[1]) % Width
  <1>1. TransactionType(tx)
    BY NotRefusedType DEF Accepted
  <1>2. /\ tx.signer = tx.sender /\ sb[tx.token] # tx.amount
    BY DEF Divergent
  <1>3. tx.sender \in DOMAIN m.keys /\ tx.sender \in Addresses
        /\ Encodable(SignerLeft(m, tx)) /\ Encodable(PoolGets(m, tx))
    BY <1>1, AcceptedSwap DEF TransactionType
  <1>4. m.leaves[from] = s
    BY <1>3, BalancesOfKnown
  <1>5. m.leaves[0] = p
    BY ShapeFacts, BalancesOfKnown
  <1>6. root = [m.leaves EXCEPT ![from] = sender, ![0] = recipient]
    BY <1>1, <1>2, SwapTransitionOf
  <1>7. t = SwapTransition(root, from, tx)
    BY <1>1, SwapTransitionOf
  <1>8. sb \in Balance /\ pool \in Balance
    BY BalancesType, ShapeFacts
  <1>9. /\ tx.token \in Tokens /\ o \in Tokens /\ o # tx.token
        /\ tx.amount \in Int /\ -tx.amount \in Int /\ out \in Int /\ -out \in Int
        /\ tx.minOutput \in Nat
    BY <1>1, OtherIsAToken, SwapOutputType, ShapeFacts, KindsOfTransactions
       DEF TransactionType
  <1>10. /\ total \in Nat /\ total # 0 /\ invariant \div total \in Nat
         /\ out = pool[o] - invariant \div total
    BY <1>1, SameOutput
  <1>11. out >= tx.minOutput
    BY <1>9 DEF Accepted, Refused
  <1>12. out % Width = out
    <2>1. pool[o] \in Nat /\ pool[o] < Width
      BY <1>8, <1>9, BalanceIsNat
    <2> DEFINE kept == invariant \div total
    <2>2. kept \in Nat /\ out = pool[o] - kept
      BY <1>10
    <2> HIDE DEF kept, out
    <2>3. out \in 0..(Width - 1)
      BY <1>9, <1>11, <2>1, <2>2, TransactionsAssumption
    <2>4. QED
      BY <2>3, TransactionsAssumption
  <1>13. /\ SignerLeft(m, tx)[tx.token] = sb[tx.token] - tx.amount
         /\ SignerLeft(m, tx)[o] = sb[o] + out
         /\ PoolGets(m, tx)[tx.token] = pool[tx.token] + tx.amount
         /\ PoolGets(m, tx)[o] = pool[o] - out
    BY <1>1, <1>2, SwapWritesType, ShapeFacts
  <1>14. /\ SignerLeft(m, tx)[tx.token] \in 0..(Width - 1)
         /\ SignerLeft(m, tx)[o] \in 0..(Width - 1)
         /\ PoolGets(m, tx)[tx.token] \in 0..(Width - 1)
         /\ PoolGets(m, tx)[o] \in 0..(Width - 1)
    BY <1>3, <1>9 DEF Encodable
  <1>15. /\ SignerLeft(m, tx) = Plus(Plus(sb, tx.token, -tx.amount), o, out)
         /\ PoolGets(m, tx) = Plus(Plus(pool, tx.token, tx.amount), o, -out)
    BY <1>2 DEF SignerLeft, PoolGets
  <1>16. sb[tx.token] \in Nat /\ sb[o] \in Nat /\ pool[tx.token] \in Nat /\ pool[o] \in Nat
    BY <1>8, <1>9, BalanceIsNat
  <1>17. /\ t.kind = "swap" /\ t.from = from /\ t.to = 0 /\ t.root = root
         /\ t.signature = tx /\ t.token = tx.token /\ t.amount = tx.amount
         /\ t.minOutput = tx.minOutput
    BY <1>7 DEF SwapTransition, UNISWAP_STORAGE_SLOT
  <1>0. from \in DOMAIN m.leaves /\ 0 \in DOMAIN m.leaves
    BY <1>3, ShapeFacts, SlotsAreNat
  <1>18. /\ s.pubkey = tx.sender /\ s.balances = sb
         /\ p.pubkey = Uniswap /\ p.balances = pool
    BY DEF State
  <1> HIDE DEF sb, pool, out
  <1>19. sb[tx.token] > tx.amount
    BY <1>2, <1>9, <1>13, <1>14, <1>16, TransactionsAssumption
  <1>20. Credited(Debited(s, tx.token, tx.amount), o, out) = sender
    <2>1. /\ sb[tx.token] + (-tx.amount) \in 0..(Width - 1)
          /\ sb[o] + out \in 0..(Width - 1)
      BY <1>9, <1>13, <1>14, <1>16
    <2> DEFINE taken == -tx.amount
    <2>0. taken \in Int /\ sb[tx.token] + taken \in 0..(Width - 1)
      BY <1>9, <2>1
    <2> HIDE DEF taken
    <2>4. /\ tx.sender \in Addresses /\ sb \in Balance /\ tx.token \in Tokens
          /\ taken \in Int /\ out \in Int
          /\ sb[tx.token] + taken \in 0..(Width - 1)
          /\ sb[Other(tx.token)] + out \in 0..(Width - 1)
      BY <1>3, <1>8, <1>9, <2>0, <2>1
    <2>5. Credited(Credited(State(tx.sender, sb), tx.token, taken),
                   Other(tx.token), out)
            = State(tx.sender, Plus(Plus(sb, tx.token, taken),
                                    Other(tx.token), out))
      BY <2>4, CreditThenDebit
    <2>2. Credited(Credited(State(tx.sender, sb), tx.token, -tx.amount),
                   Other(tx.token), out)
            = State(tx.sender, Plus(Plus(sb, tx.token, -tx.amount),
                                    Other(tx.token), out))
      BY <2>5 DEF taken
    <2>3. QED
      BY <1>15, <2>2 DEF Debited
  <1>21. Debited(Credited(p, tx.token, tx.amount), o, out) = recipient
    <2>1. /\ pool[tx.token] + tx.amount \in 0..(Width - 1)
          /\ pool[o] + (-out) \in 0..(Width - 1)
      BY <1>9, <1>13, <1>14, <1>16
    <2> DEFINE taken == -out
    <2>0. taken \in Int /\ pool[o] + taken \in 0..(Width - 1)
      BY <1>9, <2>1
    <2> HIDE DEF taken
    <2>2. /\ Uniswap \in Addresses /\ pool \in Balance /\ tx.token \in Tokens
          /\ tx.amount \in Int /\ taken \in Int
          /\ pool[tx.token] + tx.amount \in 0..(Width - 1)
          /\ pool[Other(tx.token)] + taken \in 0..(Width - 1)
      BY <1>8, <1>9, <2>0, <2>1, TransactionsAssumption
    <2>3. Credited(Credited(State(Uniswap, pool), tx.token, tx.amount),
                   Other(tx.token), taken)
            = State(Uniswap, Plus(Plus(pool, tx.token, tx.amount),
                                  Other(tx.token), taken))
      BY <2>2, CreditThenDebit
    <2>4. QED
      BY <1>15, <2>3 DEF Debited, taken
  <1>22. t.signature = Signed(Swap(s.pubkey, t.token, t.amount, t.minOutput), s.pubkey)
    BY <1>2, <1>17, <1>18, KindsOfTransactions
  <1> HIDE DEF s, p, t, sender, recipient, from, root, o
  <1>23. EvaluateSwap(t, s, p) = Output(sender, recipient)
    BY <1>10, <1>11, <1>12, <1>17, <1>18, <1>19, <1>20, <1>21, <1>22
       DEF EvaluateSwap, UNISWAP_STORAGE_SLOT, o
  <1>24. EvaluateTransition(t, m.leaves[from], m.leaves[0]) = Output(sender, recipient)
    BY <1>4, <1>5, <1>17, <1>23 DEF EvaluateTransition
  <1>25. Follows(m.leaves, t)
    BY <1>0, <1>6, <1>17, <1>24, OutputFields DEF Follows, Decodes
  <1>26. QED
    BY <1>25 DEF t

\* The contract evaluates the transition of an accepted transaction as the
\* machine computed it, save where the two are known to differ.
LEMMA AcceptedFollows ==
  ASSUME NEW m, MachineShape(m), NEW tx, SignedTransaction(tx),
         Accepted(m, tx), ~Divergent(m, tx)
  PROVE  Follows(m.leaves, TransitionOf(m, tx))
  BY KindsOfTransactions, TransferFollows, SwapFollows

-----------------------------------------------------------------------------
(***************************************************************************)
(* The other way: what the contract evaluates, the machine accepts.        *)
(***************************************************************************)
\* A write changes no key.
LEMMA WrittenKeeps ==
  ASSUME NEW k, NEW l, NEW v, NEW w
  PROVE  \E u : Written(Machine(k, l, v), w) = Machine(k, l, u)
  <1> DEFINE s == k[w.address]
  <1>1. Written(Machine(k, l, v), w) \in
           {Machine(k, l, v),
            Machine(k, l, [v EXCEPT ![s] = State(w.address, w.balances)])}
    BY DEF Written, Machine
  <1>2. QED
    BY <1>1

LEMMA ApplyKeys ==
  ASSUME NEW m, MachineType(m), NEW tx, NEW a \in Addresses, NEW c \in Addresses,
         NEW b, NEW d, Writes(m, tx) = <<Write(a, b), Write(c, d)>>
  PROVE  ApplyTransaction(m, tx).keys = WithKey(WithKey(m, a), c).keys
  <1> DEFINE k == WithKey(WithKey(m, a), c)
  <1>1. k = Machine(k.keys, k.lastOpen, k.leaves)
    BY WithKeyType DEF MachineType
  <1>2. Write(a, b).address = a /\ Write(c, d).address = c
    BY DEF Write
  <1>3. ApplyTransaction(m, tx) = Written(Written(k, Write(a, b)), Write(c, d))
    BY <1>2 DEF ApplyTransaction
  <1> HIDE DEF k
  <1> DEFINE kk == k.keys
             kl == k.lastOpen
             kv == k.leaves
  <1> HIDE DEF kk, kl, kv
  <1>4. k = Machine(kk, kl, kv)
    BY <1>1 DEF kk, kl, kv
  <1>5. PICK u : Written(k, Write(a, b)) = Machine(kk, kl, u)
    BY <1>4, WrittenKeeps
  <1>6. PICK v : Written(Machine(kk, kl, u), Write(c, d)) = Machine(kk, kl, v)
    BY WrittenKeeps
  <1>7. ApplyTransaction(m, tx) = Machine(kk, kl, v)
    BY <1>3, <1>5, <1>6
  <1>8. ApplyTransaction(m, tx).keys = kk
    BY <1>7 DEF Machine
  <1>9. QED
    BY <1>8 DEF kk, k

LEMMA SoundIs ==
  ASSUME NEW m, NEW tx, tx.sender \in DOMAIN m.keys,
         NEW a, NEW b, NEW c, NEW d,
         Writes(m, tx) = <<Write(a, b), Write(c, d)>>,
         a \in DOMAIN WithKey(m, a).keys, WithKey(m, a).keys[a] \in Slots,
         c \in DOMAIN WithKey(m, c).keys, WithKey(m, c).keys[c] \in Slots,
         Encodable(b), Encodable(d)
  PROVE  Sound(m, tx)
  <1>1. /\ Writes(m, tx)[1].address = a /\ Writes(m, tx)[1].balances = b
        /\ Writes(m, tx)[2].address = c /\ Writes(m, tx)[2].balances = d
    BY DEF Write
  <1>2. QED
    BY <1>1 DEF Sound

\* Wrapped or not, a credit changes a state's balance of a token.
LEMMA CreditedType ==
  ASSUME NEW leaf \in States, NEW k \in Tokens, NEW n \in Int
  PROVE  LET c == Credited(leaf, k, n)
         IN  /\ c \in States
             /\ c.balances[k] = (leaf.balances[k] + n) % Width
             /\ \A l \in Tokens : l # k => c.balances[l] = leaf.balances[l]
  <1> DEFINE new == (leaf.balances[k] + n) % Width
             c == Credited(leaf, k, n)
  <1>1. /\ leaf.pubkey \in Addresses /\ leaf.balances \in [Tokens -> 0..(Width - 1)]
        /\ leaf = [pubkey |-> leaf.pubkey, balances |-> leaf.balances]
    BY DEF States
  <1>2. leaf.balances[k] + n \in Int
    BY <1>1
  <1>3. new \in 0..(Width - 1)
    BY <1>2, TransactionsAssumption
  <1> HIDE DEF new
  <1>4. c = [pubkey |-> leaf.pubkey, balances |-> [leaf.balances EXCEPT ![k] = new]]
    BY <1>1 DEF Credited, new
  <1>5. QED
    BY <1>1, <1>3, <1>4 DEF States, new

LEMMA Wraps ==
  ASSUME NEW x \in 0..(Width - 1), NEW n \in 0..(Width - 1)
  PROVE  (x + n) % Width = IF x + n < Width THEN x + n ELSE x + n - Width
  <1>1. Width \in Nat \ {0}
    BY TransactionsAssumption
  <1>2. CASE x + n < Width
    BY <1>1, <1>2
  <1>3. CASE ~(x + n < Width)
    <2> DEFINE d == x + n - Width
    <2>1. d \in 0..(Width - 1) /\ x + n = d + Width
      BY <1>1, <1>3
    <2> HIDE DEF d
    <2>2. (d + Width) % Width = d
      BY <1>1, <2>1
    <2>3. QED
      BY <1>3, <2>1, <2>2 DEF d
  <1>4. QED
    BY <1>2, <1>3

\* What a write leaves in each slot.
LEMMA WrittenLeaves ==
  ASSUME NEW m, MachineType(m), NEW a \in DOMAIN m.keys, m.keys[a] \in Slots, NEW b
  PROVE  LET w == Written(m, Write(a, b))
         IN  /\ w.keys = m.keys /\ DOMAIN w.leaves = Slots
             /\ \A s \in Slots :
                   w.leaves[s] = IF s = m.keys[a] /\ Encodable(b)
                                 THEN State(a, b) ELSE m.leaves[s]
  <1> DEFINE w == Written(m, Write(a, b))
  <1>1. /\ m = Machine(m.keys, m.lastOpen, m.leaves) /\ DOMAIN m.leaves = Slots
    BY DEF MachineType, Roots
  <1>2. w = IF Encodable(b)
            THEN Machine(m.keys, m.lastOpen,
                         [m.leaves EXCEPT ![m.keys[a]] = State(a, b)])
            ELSE m
    BY <1>1 DEF Written, Write, Machine
  <1>3. /\ w.keys = m.keys
        /\ w.leaves = IF Encodable(b)
                      THEN [m.leaves EXCEPT ![m.keys[a]] = State(a, b)]
                      ELSE m.leaves
    BY <1>2 DEF Machine
  <1>4. QED
    BY <1>1, <1>3

\* What a transaction between two accounts leaves in each slot: the second
\* write wins.
LEMMA AppliedLeaves ==
  ASSUME NEW m, MachineShape(m), NEW tx,
         NEW a \in DOMAIN m.keys, NEW c \in DOMAIN m.keys,
         NEW b \in [Tokens -> Int], NEW d \in [Tokens -> Int],
         Writes(m, tx) = <<Write(a, b), Write(c, d)>>
  PROVE  /\ DOMAIN ApplyTransaction(m, tx).leaves = Slots
         /\ ApplyTransaction(m, tx).keys = m.keys
         /\ \A s \in Slots :
               ApplyTransaction(m, tx).leaves[s] =
                  IF s = m.keys[c] /\ Encodable(d) THEN State(c, d)
                  ELSE IF s = m.keys[a] /\ Encodable(b) THEN State(a, b)
                  ELSE m.leaves[s]
  <1> DEFINE w == Written(m, Write(a, b))
             v == Written(w, Write(c, d))
  <1>1. WithKey(m, a) = m /\ WithKey(m, c) = m
    BY DEF WithKey
  <1>2. /\ Writes(m, tx)[1] = Write(a, b) /\ Writes(m, tx)[2] = Write(c, d)
        /\ Write(a, b).address = a /\ Write(c, d).address = c
    BY DEF Write
  <1>3. ApplyTransaction(m, tx) = v
    BY <1>1, <1>2 DEF ApplyTransaction
  <1>4. /\ MachineType(m) /\ m.keys[a] \in Slots /\ m.keys[c] \in Slots
        /\ a \in Addresses
    BY ShapeFacts
  <1>5. MachineType(w) /\ w.keys = m.keys
    BY <1>4, WrittenType
  <1>6. \A s \in Slots : w.leaves[s] = IF s = m.keys[a] /\ Encodable(b)
                                       THEN State(a, b) ELSE m.leaves[s]
    BY <1>4, WrittenLeaves
  <1> HIDE DEF w
  <1>7. /\ v.keys = w.keys /\ DOMAIN v.leaves = Slots
        /\ \A s \in Slots : v.leaves[s] = IF s = w.keys[c] /\ Encodable(d)
                                          THEN State(c, d) ELSE w.leaves[s]
    BY <1>4, <1>5, WrittenLeaves
  <1> HIDE DEF v
  <1>8. QED
    BY <1>3, <1>5, <1>6, <1>7

\* Where a transfer that the contract evaluates fails, it wraps round.
LEMMA KnownIsAccepted ==
  ASSUME NEW m, MachineShape(m), NEW tx, SignedTransaction(tx),
         tx.kind = "transfer", tx.sender \in DOMAIN m.keys,
         tx.recipient \in DOMAIN m.keys, ~Divergent(m, tx),
         Follows(m.leaves, TransitionOf(m, tx))
  PROVE  Accepted(m, tx)
  <1> DEFINE from == m.keys[tx.sender]
             to == m.keys[tx.recipient]
             sb == GetBalances(m, tx.sender)
             rb == GetBalances(m, tx.recipient)
             b == SenderLeft(m, tx)
             d == RecipientGets(m, tx)
             t == TransitionOf(m, tx)
             result == EvaluateTransfer(t, m.leaves[from], m.leaves[to])
             leaves == ApplyTransaction(m, tx).leaves
  <1>1. /\ tx.sender \in Addresses /\ tx.recipient \in Addresses
        /\ tx.token \in Tokens /\ tx.amount \in Nat
    BY KindsOfTransactions
  <1>2. /\ tx.signer = tx.sender /\ tx.amount # 0
        /\ 2 * tx.amount = Width => tx.sender # tx.recipient
    BY DEF Divergent
  <1>3. sb \in Balance /\ rb \in Balance /\ m.leaves[from].balances = sb
        /\ m.leaves[to].balances = rb
    BY BalancesOfKnown DEF State
  <1>4. /\ from \in Slots /\ to \in Slots /\ DOMAIN m.leaves = Slots
        /\ m.leaves[from] \in States /\ m.leaves[to] \in States
        /\ (from = to => tx.sender = tx.recipient)
    BY ShapeFacts
  <1>5. /\ b \in [Tokens -> Int] /\ d \in [Tokens -> Int]
        /\ \A l \in Tokens : b[l] = IF l = tx.token THEN sb[l] + -tx.amount ELSE sb[l]
        /\ \A l \in Tokens : d[l] = IF l = tx.token THEN rb[l] + tx.amount ELSE rb[l]
    <2>1. /\ sb \in [Tokens -> Int] /\ rb \in [Tokens -> Int]
          /\ tx.amount \in Int /\ -tx.amount \in Int
      BY <1>1, <1>3, BalanceIsNat
    <2> HIDE DEF sb, rb
    <2>2. QED
      BY ZenonT(40), <1>1, <2>1, PlusType DEF SenderLeft, RecipientGets, sb, rb
  <1>6. Writes(m, tx) = <<Write(tx.sender, b), Write(tx.recipient, d)>>
    BY DEF Writes, TransferWrites, SenderLeft, RecipientGets
  <1> HIDE DEF b, d
  <1>7. /\ ApplyTransaction(m, tx).keys = m.keys
        /\ \A s \in Slots :
              leaves[s] = IF s = to /\ Encodable(d) THEN State(tx.recipient, d)
                          ELSE IF s = from /\ Encodable(b) THEN State(tx.sender, b)
                          ELSE m.leaves[s]
    BY <1>5, <1>6, AppliedLeaves
  <1>8. t = TransferTransition(leaves, from, to, tx)
    BY <1>7 DEF TransitionOf
  <1> HIDE DEF t, leaves
  <1>9. /\ t.kind = "transfer" /\ t.root = leaves /\ t.from = from /\ t.to = to
        /\ t.token = tx.token /\ t.amount = tx.amount
    BY <1>8 DEF TransferTransition
  <1>10. /\ EvaluateTransition(t, m.leaves[t.from], m.leaves[t.to]) = result
    BY <1>9 DEF EvaluateTransition
  <1> HIDE DEF from, to, result
  <1>11. /\ result.ok
         /\ [m.leaves EXCEPT ![from] = result.leaves[1],
                             ![to] = result.leaves[2]] = leaves
    BY <1>9, <1>10 DEF Follows, t
  <1>12. /\ sb[tx.token] > tx.amount
         /\ result.leaves[2] = Credited(m.leaves[to], tx.token, tx.amount)
    <2>1. result # Revert
      BY <1>11 DEF Revert
    <2>2. /\ m.leaves[from].balances[t.token] > t.amount
          /\ result = Output(Debited(m.leaves[from], t.token, t.amount),
                             Credited(m.leaves[to], t.token, t.amount))
      BY <2>1 DEF EvaluateTransfer, result
    <2>3. QED
      BY <1>3, <1>9, <2>2, OutputFields
  <1> HIDE DEF sb, rb
  <1>13. /\ sb[tx.token] \in 0..(Width - 1) /\ rb[tx.token] \in 0..(Width - 1)
         /\ tx.amount \in 0..(Width - 1)
    BY <1>1, <1>3, <1>12, TransactionsAssumption DEF Balance
  <1>14. Encodable(b)
    <2> SUFFICES ASSUME NEW l \in Tokens PROVE b[l] \in 0..(Width - 1)
      BY DEF Encodable
    <2>1. CASE l = tx.token
      BY <1>1, <1>5, <1>12, <1>13, <2>1, TransactionsAssumption
    <2>2. CASE l # tx.token
      BY <1>3, <1>5, <2>2 DEF Balance
    <2>3. QED
      BY <2>1, <2>2
  <1>15. Encodable(d)
    <2> SUFFICES ASSUME ~Encodable(d) PROVE FALSE
      OBVIOUS
    <2>1. rb[tx.token] + tx.amount >= Width
      <3>1. PICK l \in Tokens : d[l] \notin 0..(Width - 1)
        BY DEF Encodable
      <3>2. l = tx.token
        BY <1>3, <1>5, <3>1 DEF Balance
      <3>3. d[l] = rb[tx.token] + tx.amount
        BY <1>5, <3>2
      <3>4. QED
        BY <1>13, <3>1, <3>3, TransactionsAssumption
    <2>2. leaves[to] = Credited(m.leaves[to], tx.token, tx.amount)
      BY <1>4, <1>11, <1>12
    <2>3. leaves[to].balances[tx.token] = (rb[tx.token] + tx.amount) % Width
      BY <1>1, <1>3, <1>4, <2>2, CreditedType
    <2>4. leaves[to].balances[tx.token] = rb[tx.token] + tx.amount - Width
      <3>1. (rb[tx.token] + tx.amount) % Width
               = IF rb[tx.token] + tx.amount < Width THEN rb[tx.token] + tx.amount
                 ELSE rb[tx.token] + tx.amount - Width
        BY <1>13, Wraps
      <3>2. ~(rb[tx.token] + tx.amount < Width)
        BY <1>13, <2>1, TransactionsAssumption
      <3>3. QED
        BY <2>3, <3>1, <3>2
    <2>5. CASE to # from
      <3>1. leaves[to] = m.leaves[to]
        BY <1>4, <1>7, <2>5
      <3>2. rb[tx.token] = rb[tx.token] + tx.amount - Width
        BY <1>3, <2>4, <3>1
      <3>3. QED
        BY <1>13, <3>2, TransactionsAssumption
    <2>6. CASE to = from
      <3>1. leaves[to] = State(tx.sender, b)
        BY <1>4, <1>7, <1>14, <2>6
      <3>2. leaves[to].balances[tx.token] = sb[tx.token] + -tx.amount
        BY <1>1, <1>5, <3>1 DEF State
      <3>3. sb = rb /\ 2 * tx.amount # Width
        BY <1>2, <1>3, <1>4, <2>6
      <3>4. QED
        BY <1>13, <2>4, <3>2, <3>3, TransactionsAssumption
    <2>7. QED
      BY <2>5, <2>6
  <1>16. ~Refused(m, tx)
    BY <1>1, <1>2, <1>12, <1>13 DEF Refused, HasBalance, sb
  <1>17. Sound(m, tx)
    <2>1. WithKey(m, tx.sender) = m /\ WithKey(m, tx.recipient) = m
      BY DEF WithKey
    <2>2. QED
      BY <1>4, <1>6, <1>14, <1>15, <2>1, SoundIs DEF from, to
  <1>18. QED
    BY <1>16, <1>17 DEF Accepted

\* A transfer to a new account that the contract evaluates goes through.
LEMMA UnknownIsAccepted ==
  ASSUME NEW m, MachineShape(m), NEW tx, SignedTransaction(tx),
         tx.kind = "transfer", tx.sender \in DOMAIN m.keys,
         tx.recipient \notin DOMAIN m.keys, ~Divergent(m, tx),
         Follows(m.leaves, TransitionOf(m, tx))
  PROVE  Accepted(m, tx)
  <1> DEFINE from == m.keys[tx.sender]
             to == m.lastOpen + 1
             sb == GetBalances(m, tx.sender)
             b == SenderLeft(m, tx)
             d == RecipientGets(m, tx)
             k == WithKey(m, tx.recipient)
             t == TransitionOf(m, tx)
             leaves == ApplyTransaction(m, tx).leaves
  <1>1. /\ tx.sender \in Addresses /\ tx.recipient \in Addresses
        /\ tx.token \in Tokens /\ tx.amount \in Nat
    BY KindsOfTransactions
  <1>2. tx.signer = tx.sender /\ tx.amount # 0
    BY DEF Divergent
  <1>3. sb \in Balance /\ m.leaves[from].balances = sb
    BY BalancesOfKnown DEF State
  <1>4. from \in Slots /\ DOMAIN m.leaves = Slots /\ MachineType(m)
    BY ShapeFacts
  <1>5. /\ \A l \in Tokens : b[l] = IF l = tx.token THEN sb[l] + -tx.amount ELSE sb[l]
        /\ \A l \in Tokens : d[l] = IF l = tx.token THEN tx.amount ELSE 0
    <2>1. /\ sb \in [Tokens -> Int] /\ NoBalance \in [Tokens -> Int]
          /\ tx.amount \in Int /\ -tx.amount \in Int
      BY <1>1, <1>3, BalanceIsNat DEF NoBalance
    <2>2. GetBalances(m, tx.recipient) = NoBalance
      BY BalancesOfUnknown
    <2>3. \A l \in Tokens : NoBalance[l] = 0
      BY DEF NoBalance
    <2> HIDE DEF sb
    <2>5. \A l \in Tokens : b[l] = IF l = tx.token THEN sb[l] + -tx.amount ELSE sb[l]
      BY ZenonT(40), <1>1, <2>1, PlusType DEF SenderLeft, sb
    <2>6. \A l \in Tokens : d[l] = IF l = tx.token THEN NoBalance[l] + tx.amount
                                                   ELSE NoBalance[l]
      <3> DEFINE rb == GetBalances(m, tx.recipient)
      <3>1. rb \in [Tokens -> Int]
        BY <2>1, <2>2
      <3> HIDE DEF rb
      <3>2. \A l \in Tokens : d[l] = IF l = tx.token THEN rb[l] + tx.amount ELSE rb[l]
        BY SMTT(30), <1>1, <2>1, <3>1, PlusType DEF RecipientGets, rb
      <3>3. QED
        BY <2>2, <3>2 DEF rb
    <2>7. QED
      BY <1>1, <2>3, <2>5, <2>6
  <1>6. Writes(m, tx) = <<Write(tx.sender, b), Write(tx.recipient, d)>>
    BY DEF Writes, TransferWrites, SenderLeft, RecipientGets
  <1> HIDE DEF b, d
  <1>7. /\ k.keys = [c \in DOMAIN m.keys \cup {tx.recipient} |->
                       IF c = tx.recipient THEN to ELSE m.keys[c]]
        /\ WithKey(m, tx.sender) = m
    <2>1. k = Machine([c \in DOMAIN m.keys \cup {tx.recipient} |->
                         IF c = tx.recipient THEN to ELSE m.keys[c]],
                      to, m.leaves)
      BY NewKey
    <2> HIDE DEF k
    <2>2. QED
      BY <2>1 DEF Machine, WithKey
  <1>8. ApplyTransaction(m, tx).keys = k.keys
    BY <1>1, <1>4, <1>6, <1>7, ApplyKeys
  <1>9. t = CreateAndTransferTransition(leaves, from, to, tx)
    <2>1. k.keys[tx.sender] = from /\ k.keys[tx.recipient] = to
      BY <1>7
    <2> HIDE DEF k, from, to
    <2>2. QED
      BY <1>8, <2>1 DEF TransitionOf
  <1> HIDE DEF t, leaves
  <1>10. /\ t.kind = "create" /\ t.from = from /\ t.to = to
         /\ t.token = tx.token /\ t.amount = tx.amount
    BY <1>9 DEF CreateAndTransferTransition
  <1> HIDE DEF from, to, k
  <1>11. /\ to \in Slots
         /\ EvaluateCreateAndTransfer(t, m.leaves[from], m.leaves[to]).ok
    BY <1>4, <1>10 DEF Follows, t, EvaluateTransition
  <1>12. sb[tx.token] > tx.amount
    <2>1. \E leaf : EvaluateTransfer(t, m.leaves[from], leaf).ok
      BY <1>11 DEF EvaluateCreateAndTransfer, Revert
    <2>2. QED
      BY <1>3, <1>10, <2>1 DEF EvaluateTransfer, Revert
  <1> HIDE DEF sb
  <1>13. /\ sb[tx.token] \in 0..(Width - 1) /\ tx.amount \in 0..(Width - 1)
    BY <1>1, <1>3, <1>12, TransactionsAssumption DEF Balance
  <1>14. Encodable(b) /\ Encodable(d)
    <2>1. ASSUME NEW l \in Tokens PROVE b[l] \in 0..(Width - 1)
      <3>1. CASE l = tx.token
        BY <1>1, <1>5, <1>12, <1>13, <3>1, TransactionsAssumption
      <3>2. CASE l # tx.token
        BY <1>3, <1>5, <3>2 DEF Balance
      <3>3. QED
        BY <3>1, <3>2
    <2>2. ASSUME NEW l \in Tokens PROVE d[l] \in 0..(Width - 1)
      BY <1>5, <1>13, TransactionsAssumption
    <2>3. QED
      BY <2>1, <2>2 DEF Encodable
  <1>15. ~Refused(m, tx)
    BY <1>1, <1>2, <1>12, <1>13 DEF Refused, HasBalance, sb
  <1>16. Sound(m, tx)
    <2>1. tx.recipient \in DOMAIN k.keys /\ k.keys[tx.recipient] \in Slots
      BY <1>7, <1>11
    <2>2. QED
      BY <1>4, <1>6, <1>7, <1>14, <2>1, SoundIs DEF from, k
  <1>17. QED
    BY <1>15, <1>16 DEF Accepted

\* A swap never pays more than the pool has.
LEMMA QuotientBelow ==
  ASSUME NEW n \in Nat, NEW d \in Nat \ {0}, NEW q \in Nat, n <= q * d
  PROVE  n \div d \in 0..q
  <1> DEFINE k == n \div d
  <1>1. k \in Nat /\ k * d <= n
    OBVIOUS
  <1> HIDE DEF k
  <1>2. k <= q
    <2> SUFFICES ASSUME k >= q + 1 PROVE FALSE
      BY <1>1
    <2>1. k * d >= (q + 1) * d
      BY <1>1
    <2>2. QED
      BY <1>1, <2>1
  <1>3. QED
    BY <1>1, <1>2 DEF k

LEMMA OutputIsPaid ==
  ASSUME NEW m, MachineShape(m), NEW tx, TransactionType(tx),
         tx.kind = "swap", ~Divergent(m, tx)
  PROVE  LET pool == GetBalances(m, Uniswap)
         IN  /\ SwapOutput(m, tx) \in 0..pool[Other(tx.token)]
             /\ pool[tx.token] * pool[Other(tx.token)] < Width
  <1> DEFINE pool == GetBalances(m, Uniswap)
             p == pool[tx.token]
             q == pool[Other(tx.token)]
             input == SwapInput(tx.amount)
             total == input + p
             invariant == (pool[0] * pool[1]) % Width
  <1>1. /\ total \in Nat /\ total # 0
        /\ SwapOutput(m, tx) = q - invariant \div total
    BY SameOutput
  <1>2. tx.token \in Tokens /\ Other(tx.token) \in Tokens
    BY OtherIsAToken DEF TransactionType
  <1>3. p \in Nat /\ q \in Nat /\ pool[0] \in Nat /\ pool[1] \in Nat
    BY <1>2, BalancesType, BalanceIsNat, ShapeFacts
  <1>4. pool[0] * pool[1] = p * q
    BY <1>2, <1>3 DEF Tokens, Other
  <1>5. pool[0] * pool[1] < Width
    BY <1>3, TransactionsAssumption DEF Divergent
  <1> HIDE DEF p, q
  <1>6. invariant = p * q
    BY <1>3, <1>4, <1>5, TransactionsAssumption
  <1>7. input \in Nat
    <2>1. tx.amount * (10000 - FeeBips) \in Nat \ {0}
      BY InputIsPositive DEF TransactionType
    <2> DEFINE fee == tx.amount * (10000 - FeeBips)
    <2> HIDE DEF fee
    <2>2. fee \div 10000 \in Nat
      BY <2>1 DEF fee
    <2>3. QED
      BY <2>2 DEF SwapInput, fee
  <1> HIDE DEF input, invariant
  <1>8. invariant \in Nat /\ invariant <= q * total
    BY <1>3, <1>6, <1>7
  <1> HIDE DEF total
  <1>9. invariant \div total \in 0..q
    BY <1>1, <1>3, <1>8, QuotientBelow
  <1>10. SwapOutput(m, tx) \in 0..q
    BY <1>1, <1>3, <1>9
  <1>11. p * q < Width
    BY <1>4, <1>5
  <1>12. QED
    BY <1>10, <1>11 DEF p, q

LEMMA PoolIs ==
  ASSUME NEW m, MachineShape(m)
  PROVE  /\ GetBalances(m, Uniswap) \in Balance
         /\ m.leaves[0].balances = GetBalances(m, Uniswap)
  <1>1. Uniswap \in DOMAIN m.keys /\ m.keys[Uniswap] = 0
    BY ShapeFacts
  <1>2. /\ GetBalances(m, Uniswap) = m.leaves[m.keys[Uniswap]].balances
        /\ GetBalances(m, Uniswap) \in Balance
    BY <1>1, BalancesOfKnown
  <1>3. QED
    BY <1>1, <1>2

\* What a swap that the contract evaluates pays out of both accounts.
LEMMA EvaluatedSwap ==
  ASSUME NEW m, MachineShape(m), NEW tx, SignedTransaction(tx),
         tx.kind = "swap", tx.sender \in DOMAIN m.keys, ~Divergent(m, tx),
         Follows(m.leaves, TransitionOf(m, tx))
  PROVE  LET from == m.keys[tx.sender]
             out == SwapOutput(m, tx)
             leaves == ApplyTransaction(m, tx).leaves
         IN  /\ GetBalances(m, tx.sender)[tx.token] > tx.amount
             /\ out % Width >= tx.minOutput
             /\ [m.leaves EXCEPT
                   ![from] = Credited(Debited(m.leaves[from], tx.token, tx.amount),
                                      Other(tx.token), out),
                   ![0] = Debited(Credited(m.leaves[0], tx.token, tx.amount),
                                  Other(tx.token), out)]
                  = leaves
  <1> DEFINE from == m.keys[tx.sender]
             out == SwapOutput(m, tx)
             leaves == ApplyTransaction(m, tx).leaves
             t == TransitionOf(m, tx)
             pool == GetBalances(m, Uniswap)
             total == SwapInput(tx.amount) + pool[tx.token]
             invariant == (pool[0] * pool[1]) % Width
             result == EvaluateSwap(t, m.leaves[from], m.leaves[0])
  <1>1. TransactionType(tx) /\ tx.signer = tx.sender
    BY KindsOfTransactions DEF Divergent, TransactionType
  <1>2. out = pool[Other(tx.token)] - invariant \div total
    BY <1>1, SameOutput
  <1>3. ApplyTransaction(m, tx).keys[tx.sender] = from
    <2>1. Writes(m, tx) = <<Write(tx.signer, SignerLeft(m, tx)),
                            Write(Uniswap, PoolGets(m, tx))>>
      BY DEF Writes, SwapWrites, SignerLeft, PoolGets
    <2>2. /\ SignerLeft(m, tx) \in [Tokens -> Int]
          /\ PoolGets(m, tx) \in [Tokens -> Int]
      BY <1>1, SwapWritesType, ShapeFacts
    <2> DEFINE b == SignerLeft(m, tx)
               d == PoolGets(m, tx)
    <2>3. /\ tx.sender \in DOMAIN m.keys /\ Uniswap \in DOMAIN m.keys
          /\ b \in [Tokens -> Int] /\ d \in [Tokens -> Int]
          /\ Writes(m, tx) = <<Write(tx.sender, b), Write(Uniswap, d)>>
      BY <1>1, <2>1, <2>2, ShapeFacts
    <2> HIDE DEF b, d
    <2>4. ApplyTransaction(m, tx).keys = m.keys
      BY <2>3, AppliedLeaves
    <2>5. QED
      BY <2>4
  <1>4. t = SwapTransition(leaves, from, tx)
    BY <1>3 DEF TransitionOf
  <1>5. m.leaves[0].balances = pool /\ m.leaves[from].balances = GetBalances(m, tx.sender)
    BY PoolIs, BalancesOfKnown DEF State
  <1> HIDE DEF t, leaves, from, pool, out
  <1>6. /\ t.kind = "swap" /\ t.from = from /\ t.to = 0 /\ t.root = leaves
        /\ t.token = tx.token /\ t.amount = tx.amount
        /\ t.minOutput = tx.minOutput
    BY <1>4 DEF SwapTransition, UNISWAP_STORAGE_SLOT
  <1>7. EvaluateTransition(t, m.leaves[t.from], m.leaves[t.to]) = result
    BY <1>6 DEF EvaluateTransition
  <1> HIDE DEF result
  <1>8. /\ result.ok
        /\ [m.leaves EXCEPT ![from] = result.leaves[1],
                            ![0] = result.leaves[2]] = leaves
    BY <1>6, <1>7 DEF Follows, t
  <1>9. /\ m.leaves[from].balances[tx.token] > tx.amount
        /\ out % Width >= tx.minOutput
        /\ result = Output(Credited(Debited(m.leaves[from], tx.token, tx.amount),
                                    Other(tx.token), out),
                           Debited(Credited(m.leaves[0], tx.token, tx.amount),
                                   Other(tx.token), out))
    <2>1. result # Revert
      BY <1>8 DEF Revert
    <2>2. QED
      BY <1>2, <1>5, <1>6, <2>1 DEF EvaluateSwap, result
  <1> DEFINE sender == Credited(Debited(m.leaves[from], tx.token, tx.amount),
                                Other(tx.token), out)
             receiver == Debited(Credited(m.leaves[0], tx.token, tx.amount),
                                 Other(tx.token), out)
  <1>10. result = Output(sender, receiver)
    BY <1>9
  <1> HIDE DEF sender, receiver
  <1>11. result.leaves[1] = sender /\ result.leaves[2] = receiver
    BY ONLY <1>10, OutputFields
  <1>12. [m.leaves EXCEPT ![from] = sender, ![0] = receiver] = leaves
    BY ONLY <1>8, <1>11
  <1>13. GetBalances(m, tx.sender)[tx.token] > tx.amount
    BY ONLY <1>5, <1>9
  <1>14. QED
    BY ONLY <1>9, <1>12, <1>13 DEF from, out, leaves, sender, receiver

\* Where a swap that the contract evaluates fails, it wraps round.
LEMMA SwapIsAccepted ==
  ASSUME NEW m, MachineShape(m), NEW tx, SignedTransaction(tx),
         tx.kind = "swap", tx.sender \in DOMAIN m.keys, ~Divergent(m, tx),
         Follows(m.leaves, TransitionOf(m, tx))
  PROVE  Accepted(m, tx)
  <1> DEFINE from == m.keys[tx.sender]
             sb == GetBalances(m, tx.sender)
             pool == GetBalances(m, Uniswap)
             o == Other(tx.token)
             out == SwapOutput(m, tx)
             b == SignerLeft(m, tx)
             d == PoolGets(m, tx)
             leaves == ApplyTransaction(m, tx).leaves
             one == Credited(Debited(m.leaves[from], tx.token, tx.amount), o, out)
             two == Debited(Credited(m.leaves[0], tx.token, tx.amount), o, out)
  <1>1. TransactionType(tx) /\ tx.signer = tx.sender
    BY KindsOfTransactions DEF Divergent, TransactionType
  <1>2. /\ 2 * tx.amount = Width => tx.sender # Uniswap
    BY DEF Divergent
  <1>3. /\ tx.token \in Tokens /\ tx.amount \in Nat /\ tx.amount # 0
        /\ o \in Tokens /\ o # tx.token
        /\ \A l \in Tokens : l # tx.token => l = o
    BY <1>1, OtherIsAToken DEF TransactionType
  <1>4. /\ sb \in Balance /\ pool \in Balance /\ m.leaves[from].balances = sb
        /\ m.leaves[0].balances = pool
    BY PoolIs, BalancesOfKnown DEF State
  <1>5. /\ from \in Slots /\ 0 \in Slots /\ DOMAIN m.leaves = Slots
        /\ m.leaves[from] \in States /\ m.leaves[0] \in States
        /\ (from = 0 => tx.sender = Uniswap)
        /\ Uniswap \in DOMAIN m.keys /\ m.keys[Uniswap] = 0
    BY ShapeFacts, SlotsAreNat
  <1>6. /\ b \in [Tokens -> Int] /\ d \in [Tokens -> Int]
        /\ b[tx.token] = sb[tx.token] - tx.amount /\ b[o] = sb[o] + out
        /\ d[tx.token] = pool[tx.token] + tx.amount /\ d[o] = pool[o] - out
    BY <1>1, SwapWritesType, ShapeFacts
  <1>7. Writes(m, tx) = <<Write(tx.sender, b), Write(Uniswap, d)>>
    BY <1>1 DEF Writes, SwapWrites, SignerLeft, PoolGets
  <1> HIDE DEF b, d
  <1>8. \A s \in Slots :
           leaves[s] = IF s = 0 /\ Encodable(d) THEN State(Uniswap, d)
                       ELSE IF s = from /\ Encodable(b) THEN State(tx.sender, b)
                       ELSE m.leaves[s]
    <2>0. PICK a, c : a = tx.sender /\ c = Uniswap
      OBVIOUS
    <2>1. /\ a \in DOMAIN m.keys /\ c \in DOMAIN m.keys
          /\ b \in [Tokens -> Int] /\ d \in [Tokens -> Int]
          /\ Writes(m, tx) = <<Write(a, b), Write(c, d)>>
      BY <1>5, <1>6, <1>7, <2>0
    <2>2. \A s \in Slots :
             ApplyTransaction(m, tx).leaves[s] =
                IF s = m.keys[c] /\ Encodable(d) THEN State(c, d)
                ELSE IF s = m.keys[a] /\ Encodable(b) THEN State(a, b)
                ELSE m.leaves[s]
      BY SMTT(30), <2>1, AppliedLeaves
    <2>3. QED
      BY <1>5, <2>0, <2>2
  <1>9. /\ sb[tx.token] > tx.amount /\ out % Width >= tx.minOutput
        /\ [m.leaves EXCEPT ![from] = one, ![0] = two] = leaves
    BY EvaluatedSwap
  <1>10. out \in 0..pool[o] /\ pool[tx.token] * pool[o] < Width
    BY <1>1, OutputIsPaid
  <1> HIDE DEF sb, pool, out, o
  <1>11. /\ sb[tx.token] \in 0..(Width - 1) /\ sb[o] \in 0..(Width - 1)
         /\ pool[tx.token] \in 0..(Width - 1) /\ pool[o] \in 0..(Width - 1)
         /\ Width \in Nat \ {0}
    BY <1>3, <1>4, TransactionsAssumption DEF Balance
  <1>12. tx.amount \in 1..(Width - 1) /\ out \in 0..(Width - 1)
    BY <1>3, <1>9, <1>10, <1>11
  <1>13. one.balances[tx.token] = sb[tx.token] - tx.amount
    <2>0. PICK taken, k : taken = -tx.amount /\ k = tx.token
      OBVIOUS
    <2> DEFINE leaf == m.leaves[from]
               c == Credited(leaf, k, taken)
    <2>1. /\ leaf \in States /\ k \in Tokens /\ taken \in Int /\ out \in Int
          /\ leaf.balances = sb /\ o \in Tokens /\ k # o
          /\ one = Credited(c, o, out)
      BY <1>3, <1>4, <1>5, <1>12, <2>0 DEF Debited
    <2> HIDE DEF leaf, one
    <2>2. c \in States /\ c.balances[k] = (leaf.balances[k] + taken) % Width
      BY <2>1, CreditedType
    <2>3. sb[k] + taken \in 0..(Width - 1) /\ sb[k] + taken = sb[k] - tx.amount
      BY <1>9, <1>11, <1>12, <2>0
    <2>4. (sb[k] + taken) % Width = sb[k] - tx.amount
      BY <1>11, <2>3
    <2> HIDE DEF c
    <2>5. Credited(c, o, out).balances[k] = c.balances[k]
      BY <2>1, <2>2, CreditedType
    <2>6. QED
      BY <2>0, <2>1, <2>2, <2>4, <2>5
  <1>14. two.balances[tx.token] =
            IF pool[tx.token] + tx.amount < Width THEN pool[tx.token] + tx.amount
            ELSE pool[tx.token] + tx.amount - Width
    <2>0. PICK taken, k : taken = -out /\ k = tx.token
      OBVIOUS
    <2> DEFINE leaf == m.leaves[0]
               c == Credited(leaf, k, tx.amount)
    <2>1. /\ leaf \in States /\ k \in Tokens /\ tx.amount \in Int
          /\ taken \in Int /\ leaf.balances = pool /\ o \in Tokens /\ k # o
          /\ two = Credited(c, o, taken)
      BY <1>3, <1>4, <1>5, <1>12, <2>0 DEF Debited
    <2> HIDE DEF leaf, two
    <2>3. c \in States /\ c.balances[k] = (leaf.balances[k] + tx.amount) % Width
      BY <2>1, CreditedType
    <2>2. (pool[tx.token] + tx.amount) % Width =
            IF pool[tx.token] + tx.amount < Width THEN pool[tx.token] + tx.amount
            ELSE pool[tx.token] + tx.amount - Width
      <3>1. PICK x, n : x = pool[tx.token] /\ n = tx.amount
        OBVIOUS
      <3>2. x \in 0..(Width - 1) /\ n \in 0..(Width - 1)
        BY <1>11, <1>12, <3>1
      <3>3. (x + n) % Width = IF x + n < Width THEN x + n ELSE x + n - Width
        BY <3>2, Wraps
      <3>4. QED
        BY <3>1, <3>3
    <2> HIDE DEF c
    <2>4. Credited(c, o, taken).balances[k] = c.balances[k]
      BY <2>1, <2>3, CreditedType
    <2>5. QED
      BY <2>0, <2>1, <2>2, <2>3, <2>4
  <1>15. Encodable(b) <=> sb[o] + out < Width
    <2>1. b[tx.token] \in 0..(Width - 1)
      BY <1>6, <1>9, <1>11, <1>12
    <2>2. b[o] \in 0..(Width - 1) <=> sb[o] + out < Width
      BY <1>6, <1>11, <1>12
    <2>3. QED
      BY <1>3, <2>1, <2>2 DEF Encodable
  <1>16. Encodable(d) <=> pool[tx.token] + tx.amount < Width
    <2>1. d[o] \in 0..(Width - 1)
      BY <1>6, <1>10, <1>11
    <2>2. d[tx.token] \in 0..(Width - 1) <=> pool[tx.token] + tx.amount < Width
      BY <1>6, <1>11, <1>12
    <2>3. QED
      BY <1>3, <2>1, <2>2 DEF Encodable
  <1> HIDE DEF one, two, leaves, from
  <1>17. Encodable(b) /\ Encodable(d)
    <2>1. CASE from # 0
      <3>1. leaves[from] = one /\ leaves[0] = two
        BY <1>5, <1>9, <2>1
      <3>2. Encodable(b)
        <4> SUFFICES ASSUME ~Encodable(b) PROVE FALSE
          OBVIOUS
        <4>1. leaves[from] = m.leaves[from]
          BY <1>5, <1>8, <2>1
        <4>2. sb[tx.token] = sb[tx.token] - tx.amount
          BY <1>4, <1>13, <3>1, <4>1
        <4>3. QED
          BY <1>11, <1>12, <4>2
      <3>3. Encodable(d)
        <4> SUFFICES ASSUME ~Encodable(d) PROVE FALSE
          OBVIOUS
        <4>1. leaves[0] = m.leaves[0]
          BY <1>5, <1>8, <2>1
        <4>2. pool[tx.token] = pool[tx.token] + tx.amount - Width
          BY <1>4, <1>14, <1>16, <3>1, <4>1
        <4>3. QED
          BY <1>11, <1>12, <4>2
      <3>4. QED
        BY <3>2, <3>3
    <2>2. CASE from = 0
      <3>1. leaves[0] = two /\ sb = pool
        BY <1>4, <1>5, <1>9, <2>2
      <3>2. Encodable(b)
        <4> SUFFICES ASSUME sb[o] + out >= Width PROVE FALSE
          BY <1>11, <1>12, <1>15
        <4> DEFINE p == pool[tx.token]
                   q == pool[o]
        <4>1. p \in Nat /\ q \in Nat /\ p >= 2 /\ p * q < Width
          BY <1>9, <1>10, <1>11, <1>12, <3>1
        <4>2. out \in Nat /\ out <= q /\ q + out >= Width
          BY <1>10, <1>11, <1>12, <3>1
        <4> HIDE DEF p, q
        <4>3. p * q >= 2 * q
          BY <4>1
        <4>4. QED
          BY <1>11, <4>1, <4>2, <4>3
      <3>3. Encodable(d)
        <4> SUFFICES ASSUME ~Encodable(d) PROVE FALSE
          OBVIOUS
        <4>1. leaves[0] = State(tx.sender, b)
          BY <1>5, <1>8, <2>2, <3>2
        <4>2. leaves[0].balances[tx.token] = sb[tx.token] - tx.amount
          BY <1>6, <4>1 DEF State
        <4>3. sb[tx.token] - tx.amount = sb[tx.token] + tx.amount - Width
          BY <1>14, <1>16, <3>1, <4>2
        <4>4. 2 * tx.amount = Width
          BY <1>11, <1>12, <4>3
        <4>5. QED
          BY <1>2, <1>5, <2>2, <4>4
      <3>4. QED
        BY <3>2, <3>3
    <2>3. QED
      BY <2>1, <2>2
  <1>18. ~Refused(m, tx)
    <2>1. out % Width = out
      BY <1>11, <1>12
    <2>2. tx.minOutput \in Nat
      BY KindsOfTransactions
    <2>3. out >= tx.minOutput
      BY <1>9, <2>1
    <2>4. QED
      BY <1>1, <1>12, <2>2, <2>3 DEF Refused, out
  <1>19. Sound(m, tx)
    <2>1. WithKey(m, tx.sender) = m /\ WithKey(m, Uniswap) = m
      BY <1>5 DEF WithKey
    <2>2. QED
      BY <1>5, <1>7, <1>17, <2>1, SoundIs DEF from
  <1>20. QED
    BY <1>18, <1>19 DEF Accepted

\* The contract and the machine agree on the transactions of the accounts
\* that the machine knows, save where they are known to differ.
LEMMA BothAgree ==
  ASSUME NEW m, MachineShape(m), NEW tx, SignedTransaction(tx),
         tx.sender \in DOMAIN m.keys, ~Divergent(m, tx)
  PROVE  Accepted(m, tx) <=> Follows(m.leaves, TransitionOf(m, tx))
  BY AcceptedFollows, KindsOfTransactions, KnownIsAccepted, UnknownIsAccepted,
     SwapIsAccepted

-----------------------------------------------------------------------------
(***************************************************************************)
(* The leaves tell the machine, and a transition the transaction.          *)
(***************************************************************************)
LEMMA LastUsedIs ==
  ASSUME NEW m, MachineShape(m)
  PROVE  LastUsed(m.leaves) = m.lastOpen
  <1> DEFINE P(n) == /\ n = 0 \/ m.leaves[n] # Empty
                     /\ \A s \in Slots : s > n => m.leaves[s] = Empty
             l == m.lastOpen
  <1>1. l \in Slots /\ l \in Nat /\ \A s \in Slots : s > l => m.leaves[s] = Empty
    BY ShapeFacts
  <1>2. l = 0 \/ m.leaves[l] # Empty
    <2> SUFFICES ASSUME l # 0, m.leaves[l] = Empty PROVE FALSE
      OBVIOUS
    <2>1. m.leaves[l].pubkey = Uniswap
      BY DEF Empty, State
    <2>2. m.keys[m.leaves[l].pubkey] = l /\ m.keys[Uniswap] = 0
      BY <1>1, ShapeFacts
    <2>3. QED
      BY <2>1, <2>2
  <1>3. P(l)
    BY <1>1, <1>2
  <1>4. \A n \in Slots : P(n) => n = l
    <2> SUFFICES ASSUME NEW n \in Slots, P(n), n # l PROVE FALSE
      OBVIOUS
    <2>1. n \in Nat
      BY SlotsAreNat
    <2>2. CASE n > l
      BY <1>1, <2>1, <2>2
    <2>3. CASE l > n
      BY <1>1, <1>2, <2>1, <2>3
    <2>4. QED
      BY <1>1, <2>1, <2>2, <2>3
  <1> HIDE DEF P
  <1>5. LastUsed(m.leaves) = CHOOSE n \in Slots : P(n)
    BY DEF LastUsed, P
  <1>6. QED
    BY <1>1, <1>3, <1>4, <1>5

LEMMA MachineFromLeaves ==
  ASSUME NEW m, MachineShape(m)
  PROVE  m = MachineOf(m.leaves)
  <1> DEFINE l == LastUsed(m.leaves)
  <1>0. l = m.lastOpen
    BY LastUsedIs
  <1> DEFINE known == {m.leaves[s].pubkey : s \in 0..l}
             keys == [a \in known |-> CHOOSE s \in 0..l : m.leaves[s].pubkey = a]
  <1>7. MachineOf(m.leaves) = Machine(keys, l, m.leaves)
    BY DEF MachineOf
  <1> HIDE DEF l
  <1>1. \A a \in DOMAIN m.keys : m.keys[a] \in 0..l /\ m.leaves[m.keys[a]].pubkey = a
    BY <1>0, ShapeFacts
  <1>2. \A s \in 0..l : m.leaves[s].pubkey \in DOMAIN m.keys
                       /\ m.keys[m.leaves[s].pubkey] = s
    BY <1>0, ShapeFacts
  <1>3. known = DOMAIN m.keys
    BY <1>1, <1>2
  <1>4. \A a \in DOMAIN m.keys :
            (CHOOSE s \in 0..l : m.leaves[s].pubkey = a) = m.keys[a]
    BY <1>1, <1>2
  <1>5. m.keys \in [DOMAIN m.keys -> 0..l] /\ m = Machine(m.keys, l, m.leaves)
    BY <1>0, ShapeFacts DEF MachineType
  <1>6. keys = m.keys
    <2>1. keys = [a \in DOMAIN m.keys |->
                    CHOOSE s \in 0..l : m.leaves[s].pubkey = a]
      BY <1>3
    <2>2. keys = [a \in DOMAIN m.keys |-> m.keys[a]]
      BY <1>4, <2>1
    <2>3. QED
      BY <1>5, <2>2
  <1>8. QED
    BY <1>5, <1>6, <1>7

LEMMA AcceptedIsComputed ==
  ASSUME NEW m, MachineShape(m), NEW tx \in Transactions, Accepted(m, tx)
  PROVE  Computed(m.leaves, TransitionOf(m, tx))
  <1> DEFINE n == MachineOf(m.leaves)
  <1>1. m = n
    BY MachineFromLeaves
  <1> HIDE DEF n
  <1>2. /\ MachineShape(n) /\ Accepted(n, tx) /\ TransitionOf(m, tx) = TransitionOf(n, tx)
    BY <1>1
  <1>3. QED
    BY <1>2 DEF Computed, n

\* The transition of any transaction of a known sender, accepted or not, names
\* the slots that the machine has for the accounts, or its next one.
LEMMA TransitionFields ==
  ASSUME NEW m, MachineShape(m), NEW tx, SignedTransaction(tx),
         tx.sender \in DOMAIN m.keys
  PROVE  LET leaves == ApplyTransaction(m, tx).leaves
             from == m.keys[tx.sender]
         IN  \/ /\ tx.kind = "swap"
                /\ TransitionOf(m, tx) = SwapTransition(leaves, from, tx)
             \/ /\ tx.kind = "transfer" /\ tx.recipient \in DOMAIN m.keys
                /\ TransitionOf(m, tx) =
                      TransferTransition(leaves, from, m.keys[tx.recipient], tx)
             \/ /\ tx.kind = "transfer" /\ tx.recipient \notin DOMAIN m.keys
                /\ TransitionOf(m, tx) =
                      CreateAndTransferTransition(leaves, from,
                                                  m.lastOpen + 1, tx)
  <1> DEFINE after == ApplyTransaction(m, tx)
             leaves == after.leaves
             from == m.keys[tx.sender]
  <1>1. /\ tx.sender \in Addresses /\ tx.signer \in Addresses
        /\ tx.kind \in {"transfer", "swap"}
        /\ tx.kind = "transfer" => tx.recipient \in Addresses
    BY KindsOfTransactions
  <1>2. MachineType(m) /\ Uniswap \in Addresses
    BY ShapeFacts
  <1>3. CASE tx.kind = "swap"
    <2> DEFINE k == WithKey(m, tx.signer)
    <2>1. Writes(m, tx) = <<Write(tx.signer, SignerLeft(m, tx)),
                            Write(Uniswap, PoolGets(m, tx))>>
      BY <1>3 DEF Writes, SwapWrites, SignerLeft, PoolGets
    <2>2. after.keys = WithKey(k, Uniswap).keys
      BY <1>1, <1>2, <2>1, ApplyKeys
    <2>3. MachineType(k) /\ tx.sender \in DOMAIN k.keys
          /\ k.keys[tx.sender] = from
      BY <1>1, <1>2, WithKeyType
    <2>4. after.keys[tx.sender] = from
      BY <1>2, <2>2, <2>3, WithKeyType
    <2>5. TransitionOf(m, tx) = SwapTransition(leaves, after.keys[tx.sender], tx)
      BY <1>3 DEF TransitionOf
    <2> HIDE DEF after, from
    <2>6. QED
      BY <1>3, <2>4, <2>5 DEF after, from
  <1>4. CASE tx.kind = "transfer"
    <2> DEFINE k == WithKey(m, tx.recipient)
               to == after.keys[tx.recipient]
    <2>1. Writes(m, tx) = <<Write(tx.sender, SenderLeft(m, tx)),
                            Write(tx.recipient, RecipientGets(m, tx))>>
      BY <1>4 DEF Writes, TransferWrites, SenderLeft, RecipientGets
    <2>2. WithKey(m, tx.sender) = m
      BY DEF WithKey
    <2>3. after.keys = k.keys
      BY <1>1, <1>2, <1>4, <2>1, <2>2, ApplyKeys
    <2>4. after.keys[tx.sender] = from
      <3>1. k.keys[tx.sender] = from
        BY <1>1, <1>2, <1>4, WithKeyType
      <3>2. QED
        BY <2>3, <3>1
    <2>5. tx.recipient \in DOMAIN m.keys => to = m.keys[tx.recipient]
      BY <2>3 DEF WithKey
    <2>6. tx.recipient \notin DOMAIN m.keys => to = m.lastOpen + 1
      <3> SUFFICES ASSUME tx.recipient \notin DOMAIN m.keys
                   PROVE  to = m.lastOpen + 1
        OBVIOUS
      <3> DEFINE grown == [c \in DOMAIN m.keys \cup {tx.recipient} |->
                             IF c = tx.recipient THEN m.lastOpen + 1
                                                 ELSE m.keys[c]]
      <3>1. k = Machine(grown, m.lastOpen + 1, m.leaves)
        BY NewKey
      <3>2. k.keys = grown
        BY <3>1 DEF Machine
      <3>3. QED
        BY <2>3, <3>2
    <2>7. TransitionOf(m, tx) =
            IF tx.recipient \in DOMAIN m.keys
            THEN TransferTransition(leaves, after.keys[tx.sender], to, tx)
            ELSE CreateAndTransferTransition(leaves, after.keys[tx.sender],
                                             to, tx)
      BY <1>4 DEF TransitionOf
    <2> HIDE DEF after, from, to
    <2>8. QED
      BY <1>4, <2>4, <2>5, <2>6, <2>7 DEF after, from
  <1>5. QED
    BY <1>1, <1>3, <1>4

\* With any root it is what may be posted.
LEMMA TransitionShape ==
  ASSUME NEW m, MachineShape(m), NEW tx \in Transactions,
         tx.sender \in DOMAIN m.keys, NEW root \in Roots
  PROVE  [TransitionOf(m, tx) EXCEPT !.root = root] \in Transitions
  <1> DEFINE t == TransitionOf(m, tx)
  <1>1. SignedTransaction(tx)
    BY FraudAssumption
  <1>2. /\ tx.token \in Tokens /\ tx.amount \in Nat
        /\ tx.kind = "transfer" => tx.recipient \in Addresses
        /\ tx.kind = "swap" => tx.minOutput \in Nat
    BY <1>1, KindsOfTransactions
  <1>3. PICK leaves, from, to :
           /\ from = m.keys[tx.sender]
           /\ \/ tx.kind = "swap" /\ t = SwapTransition(leaves, from, tx)
              \/ /\ tx.kind = "transfer"
                 /\ to \in {m.lastOpen + 1}
                              \cup {m.keys[a] : a \in DOMAIN m.keys}
                 /\ t \in {TransferTransition(leaves, from, to, tx),
                           CreateAndTransferTransition(leaves, from, to, tx)}
    BY <1>1, TransitionFields
  <1>4. from \in Nat /\ (tx.kind = "transfer" => to \in Nat)
    BY <1>3, ShapeFacts
  <1> HIDE DEF t
  <1>5. CASE tx.kind = "swap"
    <2>1. [t EXCEPT !.root = root] = SwapTransition(root, from, tx)
      BY <1>3, <1>5 DEF SwapTransition
    <2>2. SwapTransition(root, from, tx) \in Transitions
      BY <1>2, <1>4, <1>5 DEF SwapTransition, Transitions, UNISWAP_STORAGE_SLOT
    <2>3. QED
      BY <2>1, <2>2 DEF t
  <1>6. CASE tx.kind = "transfer"
    <2>1. [t EXCEPT !.root = root] \in
             {TransferTransition(root, from, to, tx),
              CreateAndTransferTransition(root, from, to, tx)}
      BY <1>3, <1>6 DEF TransferTransition, CreateAndTransferTransition
    <2>2. /\ TransferTransition(root, from, to, tx) \in Transitions
          /\ CreateAndTransferTransition(root, from, to, tx) \in Transitions
      BY <1>2, <1>4, <1>6
         DEF TransferTransition, CreateAndTransferTransition, Transitions
    <2>3. QED
      BY <2>1, <2>2 DEF t
  <1>7. QED
    BY <1>3, <1>5, <1>6

LEMMA AcceptedTransition ==
  ASSUME NEW m, MachineShape(m), NEW tx \in Transactions, Accepted(m, tx)
  PROVE  /\ TransitionOf(m, tx) \in Transitions
         /\ TransitionOf(m, tx).root = ApplyTransaction(m, tx).leaves
         /\ Decodes(TransitionOf(m, tx))
         /\ TransitionOf(m, tx).from = m.keys[tx.sender]
  <1> DEFINE leaves == ApplyTransaction(m, tx).leaves
             t == TransitionOf(m, tx)
  <1>1. TransactionType(tx)
    BY FraudAssumption, NotRefusedType DEF Accepted
  <1>2. leaves \in Roots
    BY <1>1, ApplyType, ShapeFacts, MachineFacts
  <1>3. tx.sender \in DOMAIN m.keys
    BY DEF Accepted, Sound
  <1>4. /\ t.root = leaves /\ t = [t EXCEPT !.root = leaves]
        /\ Decodes(t) /\ t.from = m.keys[tx.sender]
    <2>1. CASE tx.kind = "swap"
      <3>1. t = SwapTransition(leaves, m.keys[tx.sender], tx)
        BY <1>1, <2>1, SwapTransitionOf
      <3> HIDE DEF t, leaves
      <3>2. QED
        BY <3>1 DEF SwapTransition, Decodes
    <2>2. CASE tx.kind = "transfer"
      <3>1. PICK to : t \in {TransferTransition(leaves, m.keys[tx.sender], to, tx),
                             CreateAndTransferTransition(leaves, m.keys[tx.sender], to, tx)}
        BY <1>1, <2>2, TransferTransitionOf
      <3> HIDE DEF t, leaves
      <3>2. QED
        BY <3>1 DEF TransferTransition, CreateAndTransferTransition, Decodes
    <2>3. QED
      BY <1>1, <2>1, <2>2 DEF TransactionType
  <1>5. QED
    BY <1>2, <1>3, <1>4, TransitionShape

\* The validator's machine, where the aggregator's was, recovers from the
\* transition the transaction it is of, whatever root the transition claims.
LEMMA Recovered ==
  ASSUME MachineShape(local), NEW tx, SignedTransaction(tx),
         tx.sender \in DOMAIN local.keys, NEW root,
         NEW t, t = [TransitionOf(local, tx) EXCEPT !.root = root]
  PROVE  /\ TransactionOf(t) = tx
         /\ t.root = root /\ Decodes(t)
         /\ t.from = local.keys[tx.sender]
         /\ t.token = tx.token /\ t.amount = tx.amount
         /\ t.kind = "create" => /\ t.to = local.lastOpen + 1
                                 /\ tx.kind = "transfer"
                                 /\ tx.recipient \notin DOMAIN local.keys
         /\ t.kind = "transfer" => /\ tx.recipient \in DOMAIN local.keys
                                   /\ t.to = local.keys[tx.recipient]
         /\ t.kind = "swap" => t.to = 0
         /\ t.kind \in {"transfer", "create"} <=> tx.kind = "transfer"
  <1> DEFINE leaves == ApplyTransaction(local, tx).leaves
             slot == local.keys[tx.sender]
             u == TransitionOf(local, tx)
  <1>1. tx.kind \in {"transfer", "swap"}
    BY KindsOfTransactions
  <1>2. \A a \in DOMAIN local.keys : GetLeaf(local, local.keys[a]).pubkey = a
    BY ShapeFacts DEF GetLeaf
  <1>3. GetLeaf(local, slot).pubkey = tx.sender
    BY <1>2
  <1>4. \/ tx.kind = "swap" /\ u = SwapTransition(leaves, slot, tx)
        \/ /\ tx.kind = "transfer" /\ tx.recipient \in DOMAIN local.keys
           /\ u = TransferTransition(leaves, slot, local.keys[tx.recipient], tx)
        \/ /\ tx.kind = "transfer" /\ tx.recipient \notin DOMAIN local.keys
           /\ u = CreateAndTransferTransition(leaves, slot, local.lastOpen + 1, tx)
    BY TransitionFields
  <1> HIDE DEF leaves, u
  <1>5. CASE tx.kind = "swap"
    <2> DEFINE back == Swap(tx.sender, tx.token, tx.amount, tx.minOutput)
    <2> HIDE DEF slot
    <2>1. u = SwapTransition(leaves, slot, tx)
      BY <1>4, <1>5
    <2>2. /\ t.kind = "swap" /\ t.from = slot /\ t.signature = tx /\ t.root = root
          /\ t.token = tx.token /\ t.amount = tx.amount /\ t.minOutput = tx.minOutput
          /\ t.to = 0
      BY <2>1 DEF SwapTransition, UNISWAP_STORAGE_SLOT, u
    <2>3. tx = Signed(back, tx.signer)
      BY <1>5, KindsOfTransactions
    <2> HIDE DEF back
    <2>4. TransactionOf(t) = Signed(back, IF tx = Signed(back, tx.signer)
                                          THEN tx.signer ELSE "nobody")
      BY <1>3, <2>2 DEF TransactionOf, back
    <2>5. QED
      BY <1>5, <2>2, <2>3, <2>4 DEF Decodes, slot
  <1>6. CASE tx.kind = "transfer"
    <2> DEFINE back == Transfer(tx.sender, tx.recipient, tx.token, tx.amount)
    <2>1. tx = Signed(back, tx.signer)
      BY <1>6, KindsOfTransactions
    <2>2. CASE tx.recipient \in DOMAIN local.keys
      <3> DEFINE to == local.keys[tx.recipient]
      <3>1. GetLeaf(local, to).pubkey = tx.recipient
        BY <1>2, <2>2
      <3>2. u = TransferTransition(leaves, slot, to, tx)
        BY <1>4, <1>6, <2>2
      <3> HIDE DEF to, slot
      <3>3. /\ t.kind = "transfer" /\ t.from = slot /\ t.to = to /\ t.signature = tx
            /\ t.token = tx.token /\ t.amount = tx.amount /\ t.root = root
        BY <3>2 DEF TransferTransition, u
      <3> HIDE DEF back
      <3>4. TransactionOf(t) = Signed(back, IF tx = Signed(back, tx.signer)
                                            THEN tx.signer ELSE "nobody")
        BY <1>3, <3>1, <3>3 DEF TransactionOf, back
      <3>5. QED
        BY <1>6, <2>1, <2>2, <3>3, <3>4 DEF Decodes, slot, to
    <2>3. CASE tx.recipient \notin DOMAIN local.keys
      <3> HIDE DEF slot
      <3>1. u = CreateAndTransferTransition(leaves, slot, local.lastOpen + 1, tx)
        BY <1>4, <1>6, <2>3
      <3>2. /\ t.kind = "create" /\ t.from = slot /\ t.to = local.lastOpen + 1
            /\ t.signature = tx /\ t.token = tx.token /\ t.amount = tx.amount
            /\ t.created = tx.recipient /\ t.root = root
        BY <3>1 DEF CreateAndTransferTransition, u
      <3> HIDE DEF back
      <3>3. TransactionOf(t) = Signed(back, IF tx = Signed(back, tx.signer)
                                            THEN tx.signer ELSE "nobody")
        BY <1>3, <3>2 DEF TransactionOf, back
      <3>4. QED
        BY <1>6, <2>1, <2>3, <3>2, <3>3 DEF Decodes, slot
    <2>4. QED
      BY <2>2, <2>3
  <1>7. QED
    BY <1>1, <1>5, <1>6

\* The slots of what it accepts are in the tree.
LEMMA TransactionIsRecovered ==
  ASSUME MachineShape(local), NEW tx \in Transactions, Accepted(local, tx),
         NEW t, t = TransitionOf(local, tx)
  PROVE  TransactionOf(t) = tx /\ ~Unsupported(t)
  <1>1. SignedTransaction(tx) /\ TransactionType(tx)
    BY FraudAssumption, NotRefusedType DEF Accepted
  <1>2. tx.sender \in DOMAIN local.keys
    BY DEF Accepted, Sound
  <1>3. t \in Transitions /\ Decodes(t)
    BY AcceptedTransition
  <1>4. t = [TransitionOf(local, tx) EXCEPT !.root = t.root]
    BY <1>3 DEF Transitions, Decodes, Garbled
  <1>5. /\ TransactionOf(t) = tx
        /\ t.from = local.keys[tx.sender]
        /\ t.kind = "create" => /\ t.to = local.lastOpen + 1
                                /\ tx.kind = "transfer"
                                /\ tx.recipient \notin DOMAIN local.keys
        /\ t.kind = "transfer" => /\ tx.recipient \in DOMAIN local.keys
                                  /\ t.to = local.keys[tx.recipient]
        /\ t.kind = "swap" => t.to = 0
    BY <1>1, <1>2, <1>4, Recovered
  <1>6. t.from \in Slots
    BY <1>2, <1>5, ShapeFacts
  <1>7. t.to \in Slots
    <2>1. CASE t.kind = "create"
      <3>1. WithKey(local, tx.recipient).keys[tx.recipient] \in Slots
        BY <1>1, <1>5, <2>1, AcceptedTransfer
      <3> DEFINE grown == [c \in DOMAIN local.keys \cup {tx.recipient} |->
                             IF c = tx.recipient THEN local.lastOpen + 1
                                                 ELSE local.keys[c]]
      <3>2. WithKey(local, tx.recipient) =
               Machine(grown, local.lastOpen + 1, local.leaves)
        BY <1>5, <2>1, NewKey
      <3>3. WithKey(local, tx.recipient).keys = grown
        BY <3>2 DEF Machine
      <3>4. QED
        BY <1>5, <2>1, <3>1, <3>3
    <2>2. CASE t.kind = "transfer"
      BY <1>5, <2>2, ShapeFacts
    <2>3. CASE t.kind = "swap"
      BY <1>5, <2>3, SlotsAreNat
    <2>4. QED
      BY <1>3, <2>1, <2>2, <2>3 DEF Decodes
  <1>8. QED
    BY <1>5, <1>6, <1>7 DEF Unsupported

\* Whatever transition it is rebuilt from, a transaction that is not refused
\* names accounts of the machine's kind.
LEMMA RebuiltType ==
  ASSUME MachineType(local), NEW t \in Transitions, Decodes(t),
         ~Refused(local, TransactionOf(t))
  PROVE  TransactionType(TransactionOf(t))
  <1> DEFINE from == GetLeaf(local, t.from).pubkey
             to == IF t.kind = "create" THEN t.created
                                        ELSE GetLeaf(local, t.to).pubkey
             tx == TransactionOf(t)
  <1>1. from \in Addresses /\ GetLeaf(local, t.to).pubkey \in Addresses
    BY LeafIsAState DEF States
  <1>2. /\ t.kind \in {"create", "transfer", "swap"}
        /\ t.kind = "create" => t.created \in Addresses
        /\ t.token \in Tokens /\ t.amount \in Nat
    BY DEF Transitions, Decodes, Garbled
  <1>3. to \in Addresses
    BY <1>1, <1>2
  <1>4. PICK s : tx = Signed(IF t.kind = "swap"
                             THEN Swap(from, t.token, t.amount, t.minOutput)
                             ELSE Transfer(from, to, t.token, t.amount), s)
    BY DEF TransactionOf
  <1> HIDE DEF from, to, tx
  <1>5. tx.signer \in {tx.sender, Aggregator} /\ ~(tx.amount < 1)
    BY DEF Refused, tx
  <1>6. CASE t.kind = "swap"
    <2>1. tx = Signed(Swap(from, t.token, t.amount, t.minOutput), s)
      BY <1>4, <1>6
    <2>2. /\ tx.kind = "swap" /\ tx.sender = from /\ tx.token = t.token
          /\ tx.amount = t.amount
      BY <2>1, SwapFields
    <2>3. QED
      BY <1>1, <1>2, <1>5, <2>2, TransactionsAssumption DEF TransactionType, tx
  <1>7. CASE t.kind # "swap"
    <2>1. tx = Signed(Transfer(from, to, t.token, t.amount), s)
      BY <1>4, <1>7
    <2>2. /\ tx.kind = "transfer" /\ tx.sender = from /\ tx.recipient = to
          /\ tx.token = t.token /\ tx.amount = t.amount
      BY <2>1, TransferFields
    <2>3. QED
      BY <1>1, <1>2, <1>3, <1>5, <2>2, TransactionsAssumption DEF TransactionType, tx
  <1>8. QED
    BY <1>6, <1>7

-----------------------------------------------------------------------------
(***************************************************************************)
(* The contract.                                                           *)
(***************************************************************************)
\* A proof for a slot gives the slot's content.
LEMMA VerifiedLeaf ==
  ASSUME NEW root \in Roots, NEW leaf, NEW slot \in Slots, NEW siblings,
         Verify(root, leaf, slot, siblings)
  PROVE  root[slot] = leaf
  <1> DEFINE computed == RootFrom(leaf, slot, siblings)
  <1>1. computed = root
    BY PathOfSlot DEF Verify
  <1>2. slot \in DOMAIN computed
    BY <1>1 DEF Roots
  <1>3. slot \in DOMAIN computed => computed[slot] = leaf
    BY DEF RootFrom
  <1>4. QED
    BY <1>1, <1>2, <1>3

\* Numbers that differ have a level at which their paths meet, and below which
\* they are siblings.
LEMMA QuotientIs ==
  ASSUME NEW d \in Nat \ {0}, NEW q \in Nat, NEW r \in 0..(d - 1)
  PROVE  (q * d + r) \div d = q /\ (q * d + r) % d = r
  <1> DEFINE n == q * d + r
             k == n \div d
             m == n % d
  <1>1. n \in Nat /\ q * d \in Nat
    OBVIOUS
  <1> DEFINE qd == q * d
  <1> HIDE DEF n
  <1>2. k \in Nat /\ m \in 0..(d - 1) /\ n = k * d + m
    BY <1>1
  <1> HIDE DEF k, m
  <1>3. k = q
    <2>1. CASE k >= q + 1
      <3>1. k * d >= (q + 1) * d
        BY <1>2, <2>1
      <3>2. (q + 1) * d = q * d + d
        OBVIOUS
      <3>3. QED
        BY <1>1, <1>2, <3>1, <3>2 DEF n
    <2>2. CASE q >= k + 1
      <3>1. q * d >= (k + 1) * d
        BY <1>2, <2>2
      <3>2. (k + 1) * d = k * d + d
        BY <1>2
      <3>3. QED
        BY <1>1, <1>2, <3>1, <3>2 DEF n
    <2>3. QED
      BY <1>2, <2>1, <2>2
  <1>4. m = r
    BY <1>1, <1>2, <1>3 DEF n
  <1>5. QED
    BY <1>3, <1>4 DEF k, m, n

LEMMA Divided ==
  ASSUME NEW n \in Nat, NEW d \in Nat \ {0}
  PROVE  /\ n \div d \in Nat /\ n % d \in 0..(d - 1)
         /\ n = (n \div d) * d + (n % d)
  OBVIOUS

LEMMA Halved ==
  ASSUME NEW n \in Nat, NEW d \in Nat \ {0}
  PROVE  n \div (2 * d) = (n \div d) \div 2
  <1> DEFINE q == n \div d
             r == n % d
             h == q \div 2
             e == q % 2
             s == e * d + r
  <1>1. q \in Nat /\ r \in 0..(d - 1) /\ n = q * d + r
    BY Divided
  <1> HIDE DEF q, r
  <1>2. h \in Nat /\ e \in {0, 1} /\ q = 2 * h + e
    BY <1>1
  <1> HIDE DEF h, e
  <1>3. s \in 0..(2 * d - 1)
    <2>1. CASE e = 0
      BY <1>1, <2>1
    <2>2. CASE e = 1
      BY <1>1, <2>2
    <2>3. QED
      BY <1>2, <2>1, <2>2
  <1>4. n = h * (2 * d) + s
    BY <1>1, <1>2
  <1> HIDE DEF s
  <1>5. 2 * d \in Nat \ {0}
    OBVIOUS
  <1>6. n \div (2 * d) = h
    BY <1>2, <1>3, <1>4, <1>5, QuotientIs
  <1>7. QED
    BY <1>6 DEF h, q

LEMMA MeetingLevel ==
  ASSUME NEW x \in Slots, NEW s \in Slots, x # s
  PROVE  \E l \in 1..(TreeHeight - 1) : x \div 2^(l - 1) = SiblingOf(s, l)
  <1> DEFINE top == TreeHeight - 1
             Meet == {l \in 0..top : x \div 2^l = s \div 2^l}
  <1>1. /\ top \in Nat /\ 2^0 = 1
        /\ \A l \in 0..top : 2^l \in Nat \ {0}
        /\ \A l \in 1..top : 2^l = 2 * 2^(l - 1)
    <2>1. top \in Nat /\ top + 1 = TreeHeight /\ 2^0 = 1
      BY TransactionsAssumption
    <2>2. \A l \in 0..top : 2^l \in Nat \ {0}
      <3> SUFFICES ASSUME NEW l \in 0..top PROVE 2^l \in Nat \ {0}
        OBVIOUS
      <3>1. l + 1 \in 1..TreeHeight /\ (l + 1) - 1 = l
        BY <2>1
      <3>2. 2^((l + 1) - 1) \in Nat \ {0}
        BY <3>1, TransactionsAssumption
      <3>3. QED
        BY <3>1, <3>2
    <2>3. \A l \in 1..top : l \in 1..TreeHeight
      BY <2>1
    <2>4. \A l \in 1..top : 2^l = 2 * 2^(l - 1)
      BY <2>3, TransactionsAssumption
    <2>5. QED
      BY <2>1, <2>2, <2>4
  <1>2. x \in 0..(2^top - 1) /\ s \in 0..(2^top - 1) /\ x \in Nat /\ s \in Nat
    BY SlotsAreNat DEF Slots
  <1> HIDE DEF top
  <1>3. top \in Meet
    <2>1. PICK d : d = 2^top /\ d \in Nat \ {0}
      BY <1>1
    <2>2. x \div d = 0 /\ s \div d = 0
      BY <1>2, <2>1
    <2>3. QED
      BY <1>1, <2>1, <2>2
  <1>4. 0 \notin Meet
    BY <1>1, <1>2
  <1>5. PICK l \in Meet : \A k \in Meet : ~(k < l)
    <2> DEFINE below == OpToRel(<, Nat)
    <2>1. Meet \subseteq Nat /\ Meet # {}
      BY <1>1, <1>3
    <2>2. IsWellFoundedOn(below, Nat)
      BY NatLessThanWellFounded, Zenon
    <2>3. \A k, j \in Nat : k < j => <<k, j>> \in below
      BY DEF OpToRel
    <2> HIDE DEF below, Meet
    <2>4. PICK l \in Meet : \A k \in Meet : ~(<<k, l>> \in below)
      BY <2>1, <2>2, WFMin
    <2>5. QED
      BY <2>1, <2>3, <2>4
  <1>6. /\ l \in 1..top /\ x \div 2^l = s \div 2^l
        /\ l - 1 \in 0..top /\ l - 1 < l
    <2>1. l \in 0..top /\ x \div 2^l = s \div 2^l /\ l # 0
      BY <1>4
    <2>2. QED
      BY <1>1, <2>1
  <1>7. x \div 2^(l - 1) # s \div 2^(l - 1)
    BY <1>5, <1>6
  <1>8. PICK d : d = 2^(l - 1) /\ d \in Nat \ {0} /\ 2^l = 2 * d
    BY <1>1, <1>6
  <1>9. (x \div d) \div 2 = (s \div d) \div 2
    BY <1>2, <1>6, <1>8, Halved
  <1>10. PICK a, b \in Nat : a = x \div d /\ b = s \div d
    BY <1>2, <1>8
  <1>11. a = IF b % 2 = 0 THEN b + 1 ELSE b - 1
    BY <1>7, <1>8, <1>9, <1>10
  <1>12. x \div 2^(l - 1) = SiblingOf(s, l)
    BY <1>8, <1>10, <1>11 DEF SiblingOf
  <1>13. QED
    BY <1>6, <1>12 DEF top

\* The leaf and the siblings of a slot of the tree prove it.
LEMMA SlotIsProved ==
  ASSUME NEW root \in Roots, NEW s \in Slots
  PROVE  Verify(root, root[s], s, Siblings(root, s, TreeHeight - 1))
  <1> DEFINE top == TreeHeight - 1
             siblings == Siblings(root, s, top)
  <1>1. top \in Nat /\ Slots = 0..(2^top - 1) /\ root \in [Slots -> States]
    BY TransactionsAssumption DEF Slots, Roots
  <1>2. DOMAIN siblings = 1..top /\ Len(siblings) = top
    <2>1. siblings \in [1..top -> {siblings[l] : l \in 1..top}]
      BY DEF Siblings
    <2> HIDE DEF siblings
    <2>2. QED
      BY <1>1, <2>1
  <1>3. ASSUME NEW x \in Slots, x # s
        PROVE  LET level == CHOOSE l \in 1..top : x \div 2^(l - 1) = SiblingOf(s, l)
               IN  siblings[level][x % 2^(level - 1)] = root[x]
    <2> DEFINE l == CHOOSE l \in 1..top : x \div 2^(l - 1) = SiblingOf(s, l)
    <2>1. l \in 1..top /\ x \div 2^(l - 1) = SiblingOf(s, l)
      BY <1>3, MeetingLevel
    <2> HIDE DEF l
    <2>2. l \in 1..TreeHeight
      BY <2>1, TransactionsAssumption
    <2>3. PICK d : d = 2^(l - 1) /\ d \in Nat \ {0}
      BY <2>2, TransactionsAssumption
    <2>9. PICK q, r : q = x \div d /\ r = x % d
      OBVIOUS
    <2>4. r \in 0..(d - 1) /\ x = q * d + r
      <3>1. x \in Nat
        BY SlotsAreNat
      <3>2. QED
        BY <2>3, <2>9, <3>1, Divided
    <2>5. siblings[l] = [k \in 0..(d - 1) |-> root[q * d + k]]
      <3>1. siblings[l] = [k \in 0..(2^(l - 1) - 1) |->
                              root[SiblingOf(s, l) * 2^(l - 1) + k]]
        BY <2>1 DEF Siblings
      <3>2. SiblingOf(s, l) = q
        BY <2>1, <2>3, <2>9
      <3>3. QED
        BY <2>3, <3>1, <3>2
    <2>6. siblings[l][r] = root[q * d + r]
      BY <2>4, <2>5
    <2>7. siblings[l][x % 2^(l - 1)] = root[x]
      BY <2>3, <2>4, <2>6, <2>9
    <2>8. QED
      BY <2>7 DEF l
  <1> HIDE DEF siblings
  <1>4. RootFrom(root[s], s, siblings) =
          [x \in Slots |->
             IF x = s THEN root[s]
             ELSE LET level == CHOOSE l \in 1..top :
                                   x \div 2^(l - 1) = SiblingOf(s, l)
                  IN  siblings[level][x % 2^(level - 1)]]
    BY <1>1, <1>2 DEF RootFrom
  <1>5. RootFrom(root[s], s, siblings) = [x \in Slots |-> root[x]]
    BY <1>3, <1>4
  <1>6. RootFrom(root[s], s, siblings) = root
    BY <1>1, <1>5
  <1>7. QED
    BY <1>6, PathOfSlot DEF Verify, siblings

LEMMA ChainFacts ==
  ASSUME ChainType
  PROVE  /\ Len(posted) \in Nat /\ DOMAIN posted = 1..Len(posted)
         /\ \A n \in DOMAIN posted :
               /\ posted[n] \in Seq(Transitions)
               /\ Len(posted[n]) \in 1..MaxTransitions
               /\ Len(posted[n]) \in Nat /\ DOMAIN posted[n] = 1..Len(posted[n])
               /\ \A i \in DOMAIN posted[n] : posted[n][i] \in Transitions
         /\ Len(pending) \in Nat /\ DOMAIN pending = 1..Len(pending)
  <1>1. posted \in Seq(Seq(Transitions)) /\ pending \in Seq(Transitions)
        /\ \A n \in DOMAIN posted : Len(posted[n]) \in 1..MaxTransitions
    BY DEF ChainType
  <1>2. Len(posted) \in Nat /\ DOMAIN posted = 1..Len(posted)
        /\ Len(pending) \in Nat /\ DOMAIN pending = 1..Len(pending)
    BY <1>1
  <1>3. \A n \in DOMAIN posted : posted[n] \in Seq(Transitions)
    BY <1>1, <1>2
  <1>4. QED
    BY <1>1, <1>2, <1>3

\* A tree of so many transitions has a height, and an index within it leads to
\* its own leaf.
LEMMA LevelsOf ==
  ASSUME NEW size \in 1..MaxTransitions
  PROVE  /\ Levels(size) \in 0..size
         /\ \A i \in 0..(size - 1) : i % 2^Levels(size) = i
  <1>1. PICK k \in 0..size : size <= 2^k /\ 2^k < 2 * size
    BY PowersAssumption
  <1>2. Levels(size) \in 0..size /\ size <= 2^Levels(size)
    BY <1>1 DEF Levels
  <1>3. PICK l : l = Levels(size)
    OBVIOUS
  <1>4. l \in 0..MaxTransitions
    BY <1>2, <1>3, FraudAssumption
  <1>5. PICK d \in Nat : d = 2^l /\ size <= d
    BY <1>2, <1>3, <1>4, PowersAssumption
  <1>6. \A i \in 0..(size - 1) : i % d = i
    BY <1>5
  <1>7. QED
    BY <1>2, <1>3, <1>5, <1>6

\* What lies at the bottom of a block's tree under an index within the block.
LEMMA NodeAtItsPlace ==
  ASSUME ChainType, NEW n \in DOMAIN posted, NEW i \in 0..(Len(posted[n]) - 1)
  PROVE  /\ Levels(Len(posted[n])) \in 0..Levels(Len(posted[n]))
         /\ NodeOf(posted[n], i, Levels(Len(posted[n]))) = posted[n][i + 1]
         /\ i + 1 \in DOMAIN posted[n]
  <1>1. /\ Len(posted[n]) \in 1..MaxTransitions
        /\ DOMAIN posted[n] = 1..Len(posted[n])
    BY ChainFacts
  <1>2. PICK size : size = Len(posted[n])
    OBVIOUS
  <1>3. Levels(size) \in 0..size /\ i % 2^Levels(size) = i
    BY <1>1, <1>2, LevelsOf
  <1>4. NodeOf(posted[n], i, Levels(Len(posted[n]))) = posted[n][i + 1]
    BY <1>1, <1>2, <1>3 DEF NodeOf
  <1>5. Levels(Len(posted[n])) \in 0..Levels(Len(posted[n]))
    BY <1>1, <1>2, <1>3
  <1>6. QED
    BY <1>1, <1>4, <1>5

LEMMA Included ==
  ASSUME ChainType, NEW p, p.block \in Int, CheckTransitionInclusion(p),
         AtItsPlace(p)
  PROVE  /\ p.block + 1 \in DOMAIN posted /\ p.block + 1 \notin pruned
         /\ BlockSize(p.block) = Len(posted[p.block + 1])
         /\ p.index \in Int
         /\ p.index + 1 \in DOMAIN posted[p.block + 1]
         /\ posted[p.block + 1][p.index + 1] = p.transition
  <1>1. Live(p.block)
    BY DEF CheckTransitionInclusion
  <1>2. /\ p.block + 1 \in DOMAIN posted /\ p.block + 1 \notin pruned
        /\ BlockSize(p.block) = Len(posted[p.block + 1])
    BY <1>1 DEF Live, BlockSize
  <1>3. /\ p.index \in 0..(Len(posted[p.block + 1]) - 1)
        /\ p.siblings = Levels(Len(posted[p.block + 1]))
    BY <1>2 DEF AtItsPlace
  <1>4. p.transition = NodeOf(posted[p.block + 1], p.index, p.siblings)
    BY DEF CheckTransitionInclusion
  <1>5. /\ p.transition = posted[p.block + 1][p.index + 1]
        /\ p.index + 1 \in DOMAIN posted[p.block + 1]
    BY <1>2, <1>3, <1>4, NodeAtItsPlace
  <1>6. p.index \in Int
    BY <1>2, <1>3, ChainFacts
  <1>7. QED
    BY <1>2, <1>5, <1>6

\* A place of the chain whose transition does not follow from the one before.
Fraudulent(n, i) ==
  /\ n \in DOMAIN posted /\ i \in DOMAIN posted[n]
  /\ HasPredecessor(n, i)
  /\ Decodes(Predecessor(n, i).transition)
  /\ ~Follows(Predecessor(n, i).transition.root, posted[n][i])

LEMMA InvalidIsFraudulent ==
  ASSUME HeightsAgree, ChainType, NEW pre, NEW t, NEW slots,
         t.block \in Int, ProvesInvalid(pre, t, slots),
         AtItsPlace(pre), AtItsPlace(t)
  PROVE  Fraudulent(t.block + 1, t.index + 1)
  <1> DEFINE n == t.block + 1
             i == t.index + 1
             u == t.transition
             r == pre.transition.root
             result == EvaluateTransition(u, slots[1].leaf, slots[2].leaf)
  <1>1. /\ CheckTransitionInclusion(pre) /\ CheckTransitionInclusion(t)
        /\ Decodes(pre.transition)
    BY DEF ProvesInvalid, VerifySequentialTransitions
  <1>2. \/ pre.block = t.block /\ pre.index = t.index - 1
        \/ /\ pre.block = t.block - 1
           /\ pre.index = BlockSize(pre.block) - 1
           /\ t.index = 0
    BY DEF ProvesInvalid, VerifySequentialTransitions
  <1>3. pre.block \in Int
    BY <1>2
  <1>4. /\ n \in DOMAIN posted /\ t.index \in Int /\ i \in DOMAIN posted[n]
        /\ posted[n][i] = u
    BY <1>1, Included
  <1>5. /\ pre.block + 1 \in DOMAIN posted
        /\ BlockSize(pre.block) = Len(posted[pre.block + 1])
        /\ pre.index \in Int
        /\ pre.index + 1 \in DOMAIN posted[pre.block + 1]
        /\ posted[pre.block + 1][pre.index + 1] = pre.transition
    BY <1>1, <1>3, Included
  <1>6. HasPredecessor(n, i) /\ Predecessor(n, i).transition = pre.transition
    <2>1. CASE pre.block = t.block /\ pre.index = t.index - 1
      <3>1. pre.index >= 0
        <4>1. posted[pre.block + 1] \in Seq(Transitions)
          BY <1>5 DEF ChainType
        <4>2. QED
          BY <1>5, <4>1
      <3>2. i > 1
        BY <1>4, <2>1, <3>1
      <3>3. posted[n][i - 1] = pre.transition
        <4>1. i - 1 = pre.index + 1 /\ n = pre.block + 1
          BY <1>4, <1>5, <2>1
        <4>2. QED
          BY <1>5, <4>1
      <3>4. QED
        BY <3>2, <3>3 DEF HasPredecessor, Predecessor, Element, IncludedTransition
    <2>2. CASE /\ pre.block = t.block - 1
               /\ pre.index = BlockSize(pre.block) - 1
               /\ t.index = 0
      <3>1. n - 1 = pre.block + 1 /\ i = 1
        BY <1>3, <2>2
      <3>2. n > 1
        <4>1. pre.block + 1 \in 1..Len(posted)
          BY <1>5, ChainFacts
        <4>2. QED
          BY <2>2, <4>1
      <3>3. posted[n - 1] \in Seq(Transitions)
        BY <1>5, <3>1 DEF ChainType
      <3>4. pre.index + 1 = Len(posted[n - 1])
        BY <1>5, <2>2, <3>1, <3>3
      <3>5. posted[n - 1][Len(posted[n - 1])] = pre.transition
        BY <1>5, <3>1, <3>4
      <3>6. QED
        BY <3>1, <3>2, <3>5 DEF HasPredecessor, Predecessor, Element, IncludedTransition
    <2>3. QED
      BY <1>2, <2>1, <2>2
  <1>7. ~Follows(r, u)
    <2> SUFFICES ASSUME Follows(r, u) PROVE FALSE
      OBVIOUS
    <2>1. Decodes(u)
      BY DEF Follows
    <2>2. /\ slots[1].slot = u.from /\ slots[2].slot = u.to
          /\ SlotsAreProved(r, slots)
          /\ result.ok => PostRoot(r, slots, result.leaves) # u.root
      BY <2>1 DEF ProvesInvalid
    <2>0. /\ r \in Roots /\ u.from \in Slots /\ u.to \in Slots
          /\ Path(u.from) = u.from /\ Path(u.to) = u.to
      <3>1. pre.transition \in Transitions
        BY <1>5, ChainFacts
      <3>2. r \in Roots
        BY <1>1, <3>1 DEF Transitions, Decodes, Garbled
      <3>3. u.from \in Slots /\ u.to \in Slots
        BY <3>2 DEF Follows, Roots
      <3>4. QED
        BY <3>2, <3>3, PathOfSlot
    <2>3. r[u.from] = slots[1].leaf /\ r[u.to] = slots[2].leaf
      BY <2>0, <2>2, VerifiedLeaf DEF SlotsAreProved
    <2>4. EvaluateTransition(u, r[u.from], r[u.to]) = result
      BY <2>3
    <2> HIDE DEF result, r, u
    <2>5. /\ result.ok
          /\ [r EXCEPT ![u.from] = result.leaves[1],
                       ![u.to] = result.leaves[2]] = u.root
      BY <2>4 DEF Follows
    <2>6. QED
      BY <2>0, <2>2, <2>5 DEF PostRoot
  <1>8. QED
    BY <1>1, <1>4, <1>6, <1>7 DEF Fraudulent

\* What a proof prunes is fraud, and what was stays so.
LEMMA PrunedAgain ==
  ASSUME HeightsAgree, ChainType, PrunedOnlyForFraud, ~misled',
         NEW pre, NEW t, NEW slots,
         t.block \in Int, ProveTransitionInvalid(pre, t, slots),
         UNCHANGED posted
  PROVE  PrunedOnlyForFraud'
  <1> DEFINE Bad(m) == \E i \in DOMAIN posted[m] :
                          /\ HasPredecessor(m, i)
                          /\ Decodes(Predecessor(m, i).transition)
                          /\ ~Follows(Predecessor(m, i).transition.root,
                                      posted[m][i])
  <1>1. pruned \subseteq DOMAIN posted
    BY DEF ChainType
  <1>0. ~misled
    BY DEF ProveTransitionInvalid
  <1>2. \A n \in pruned : \E m \in 1..n : m..n \subseteq pruned /\ Bad(m)
    BY <1>0 DEF PrunedOnlyForFraud
  <1>3. PrunedOnlyForFraud' <=>
            \A n \in pruned' : \E m \in 1..n : m..n \subseteq pruned' /\ Bad(m)
    BY DEF PrunedOnlyForFraud, Predecessor, Element
  <1>4. CASE ~ProvesInvalid(pre, t, slots)
    <2>1. pruned' = pruned
      BY <1>4 DEF ProveTransitionInvalid
    <2> HIDE DEF Bad
    <2>2. QED
      BY <1>1, <1>2, <1>3, <2>1
  <1>5. CASE ProvesInvalid(pre, t, slots)
    <2> DEFINE b == t.block + 1
    <2>1. pruned' = pruned \cup {n \in DOMAIN posted : n > t.block}
      BY <1>5 DEF ProveTransitionInvalid, PruneBlocksAfter
    <2>0. AtItsPlace(pre) /\ AtItsPlace(t)
      BY <1>5 DEF ProveTransitionInvalid
    <2>2. Fraudulent(b, t.index + 1)
      BY <1>5, <2>0, InvalidIsFraudulent
    <2>3. Bad(b) /\ b \in DOMAIN posted
      BY <2>2 DEF Fraudulent
    <2> HIDE DEF Bad
    <2>4. \A n \in DOMAIN posted : n \in Nat /\ n >= 1
      BY ChainFacts
    <2>5. ASSUME NEW n \in pruned'
          PROVE  \E m \in 1..n : m..n \subseteq pruned' /\ Bad(m)
      <3>1. CASE n \in pruned
        BY <1>2, <2>1, <3>1
      <3>2. CASE n \in DOMAIN posted /\ n > t.block
        <4>1. b \in 1..n
          BY <2>3, <2>4, <3>2
        <4>2. b..n \subseteq pruned'
          <5> SUFFICES ASSUME NEW k \in b..n PROVE k \in pruned'
            OBVIOUS
          <5>1. k \in DOMAIN posted
            BY <2>3, <2>4, <3>2, ChainFacts
          <5>2. k > t.block
            OBVIOUS
          <5>3. QED
            BY <2>1, <5>1, <5>2
        <4>3. QED
          BY <2>3, <4>1, <4>2
      <3>3. QED
        BY <2>1, <3>1, <3>2
    <2>6. QED
      BY <1>1, <1>3, <2>1, <2>5
  <1>6. QED
    BY <1>4, <1>5

\* Posting a block changes none of those before it.
LEMMA PrunedStays ==
  ASSUME ChainType, PrunedOnlyForFraud, NEW block, SubmitBlock(block),
         UNCHANGED <<pruned, misled>>, ~misled, block \in Seq(Transitions)
  PROVE  PrunedOnlyForFraud'
  <1> DEFINE Bad(m, i) == /\ HasPredecessor(m, i)
                          /\ Decodes(Predecessor(m, i).transition)
                          /\ ~Follows(Predecessor(m, i).transition.root,
                                      posted[m][i])
  <1>1. pruned \subseteq DOMAIN posted /\ posted \in Seq(Seq(Transitions))
    BY DEF ChainType
  <1>2. posted' = Append(posted, block)
    BY DEF SubmitBlock
  <1>3. \A n \in DOMAIN posted : posted'[n] = posted[n]
    BY <1>1, <1>2
  <1>4. \A m \in DOMAIN posted : \A i \in DOMAIN posted[m] :
            HasPredecessor(m, i) => Predecessor(m, i)' = Predecessor(m, i)
    <2> SUFFICES ASSUME NEW m \in DOMAIN posted, NEW i \in DOMAIN posted[m],
                        HasPredecessor(m, i)
                 PROVE  Predecessor(m, i)' = Predecessor(m, i)
      OBVIOUS
    <2>1. CASE i > 1
      BY <1>3, <2>1 DEF Predecessor, Element
    <2>2. CASE ~(i > 1)
      <3>1. m > 1
        BY <2>2 DEF HasPredecessor
      <3>2. m - 1 \in DOMAIN posted
        BY <3>1, ChainFacts
      <3>3. QED
        BY <1>3, <2>2, <3>2 DEF Predecessor, Element
    <2>3. QED
      BY <2>1, <2>2
  <1>5. SUFFICES ASSUME NEW n \in pruned
                 PROVE  \E m \in 1..n :
                           /\ m..n \subseteq pruned'
                           /\ \E i \in DOMAIN posted'[m] : Bad(m, i)'
    BY DEF PrunedOnlyForFraud
  <1>6. PICK m \in 1..n : /\ m..n \subseteq pruned
                          /\ \E i \in DOMAIN posted[m] : Bad(m, i)
    BY DEF PrunedOnlyForFraud
  <1>7. PICK i \in DOMAIN posted[m] : Bad(m, i)
    BY <1>6
  <1>8. m \in DOMAIN posted
    <2>1. n \in 1..Len(posted) /\ DOMAIN posted = 1..Len(posted)
      BY <1>1, ChainFacts
    <2>2. QED
      BY <2>1
  <1>9. /\ posted'[m] = posted[m] /\ Predecessor(m, i)' = Predecessor(m, i)
    BY <1>3, <1>4, <1>7, <1>8
  <1>10. Bad(m, i)'
    <2>1. Bad(m, i)' <=> /\ HasPredecessor(m, i)
                         /\ Decodes(Predecessor(m, i)'.transition)
                         /\ ~Follows(Predecessor(m, i)'.transition.root,
                                     posted'[m][i])
      OBVIOUS
    <2>2. QED
      BY <1>7, <1>9, <2>1
  <1>11. i \in DOMAIN posted'[m]
    BY <1>9
  <1>12. QED
    BY <1>6, <1>10, <1>11

-----------------------------------------------------------------------------
(***************************************************************************)
(* The initial state.                                                      *)
(***************************************************************************)
\* The genesis states are the accounts of the first slots.
LEMMA GenesisShape == MachineShape(GenesisMachine)
  <1> DEFINE key(a) == CHOOSE s \in Slots : s + 1 \in DOMAIN Genesis
                                            /\ Genesis[s + 1].pubkey = a
             names == {Genesis[i].pubkey : i \in DOMAIN Genesis}
             l == Len(Genesis) - 1
             leaves == [s \in Slots |-> IF s + 1 \in DOMAIN Genesis
                                        THEN Genesis[s + 1] ELSE Empty]
             g == Machine([a \in names |-> key(a)], l, leaves)
  <1>1. PICK n \in Nat \ {0} : Slots = 0..(n - 1)
    BY SlotsAreFirst
  <1>2. Cardinality(0..(n - 1)) = (n - 1) - 0 + 1
    <2>1. 0 \in Int /\ n - 1 \in Int /\ ~(0 > n - 1)
      OBVIOUS
    <2> HIDE DEF l
    <2>2. QED
      BY <2>1, FS_Interval
  <1>3. Genesis \in Seq(States) /\ Len(Genesis) \in 1..n
    BY <1>1, <1>2, FraudAssumption
  <1>4. /\ l \in Nat /\ l \in Slots /\ DOMAIN Genesis = 1..(l + 1)
        /\ 0..l \subseteq Slots
    BY <1>1, <1>3
  <1>5. \A i \in DOMAIN Genesis : Genesis[i] \in States
    BY <1>3
  <1>6. \A i, j \in DOMAIN Genesis : Genesis[i].pubkey = Genesis[j].pubkey => i = j
    BY FraudAssumption
  <1>7. \A s \in Slots : s \in Nat /\ (s + 1 \in DOMAIN Genesis <=> s <= l)
    BY <1>1, <1>4
  <1> HIDE DEF l
  <1>8. \A s \in 0..l : key(Genesis[s + 1].pubkey) = s
    <2> SUFFICES ASSUME NEW s \in 0..l
                 PROVE  key(Genesis[s + 1].pubkey) = s
      OBVIOUS
    <2>1. s \in Slots /\ s + 1 \in DOMAIN Genesis
      BY <1>4, <1>7
    <2>2. \A r \in Slots : r + 1 \in DOMAIN Genesis
                           /\ Genesis[r + 1].pubkey = Genesis[s + 1].pubkey
                           => r = s
      BY <1>6, <1>7, <2>1
    <2>3. QED
      BY <2>1, <2>2
  <1>9. \A a \in names : \E s \in 0..l : a = Genesis[s + 1].pubkey
    <2> SUFFICES ASSUME NEW i \in DOMAIN Genesis
                 PROVE  \E s \in 0..l : Genesis[i].pubkey = Genesis[s + 1].pubkey
      OBVIOUS
    <2>1. i - 1 \in 0..l /\ (i - 1) + 1 = i
      BY <1>4
    <2>2. QED
      BY <2>1
  <1> HIDE DEF key
  <1>10. GenesisMachine = g
    BY DEF GenesisMachine, key, l
  <1>11. /\ g.keys = [a \in names |-> key(a)] /\ g.lastOpen = l /\ g.leaves = leaves
         /\ g = Machine(g.keys, g.lastOpen, g.leaves)
    BY DEF Machine
  <1>12. \A s \in 0..l : Genesis[s + 1].pubkey \in names
                         /\ Genesis[s + 1] \in States
    BY <1>4, <1>5, <1>7
  <1>13. leaves \in Roots
    BY <1>5, EmptyIsAState DEF Roots
  <1>14. Uniswap \in names /\ key(Uniswap) = 0
    <2>1. 0 \in 0..l /\ Genesis[0 + 1].pubkey = Uniswap
      BY <1>4, FraudAssumption
    <2>2. QED
      BY <1>8, <1>12, <2>1
  <1>15. names \subseteq Addresses /\ \A a \in names : key(a) \in 0..l
    BY ZenonT(40), <1>8, <1>9, <1>12 DEF States
  <1>16. MachineType(g)
    <2>1. DOMAIN g.keys = names
      BY <1>11
    <2> HIDE DEF g, leaves, names
    <2>2. g.keys \in [DOMAIN g.keys -> 0..g.lastOpen]
      BY <1>11, <1>15, <2>1
    <2>3. QED
      BY <1>4, <1>11, <1>13, <1>15, <2>1, <2>2 DEF MachineType
  <1>17. \A s \in 0..l : leaves[s] = Genesis[s + 1]
    BY <1>4, <1>7
  <1>18. \A s \in Slots : s > l => leaves[s] = Empty
    BY <1>4, <1>7
  <1> HIDE DEF leaves, names, g
  <1>19. \A a \in DOMAIN g.keys : g.leaves[g.keys[a]].pubkey = a
    <2> SUFFICES ASSUME NEW a \in names
                 PROVE  g.leaves[g.keys[a]].pubkey = a
      BY <1>11
    <2>1. PICK s \in 0..l : a = Genesis[s + 1].pubkey
      BY <1>9
    <2>2. g.keys[a] = s
      BY <1>8, <1>11, <2>1
    <2>3. QED
      BY <1>11, <1>17, <2>1, <2>2
  <1>20. \A s \in 0..g.lastOpen : /\ g.leaves[s].pubkey \in DOMAIN g.keys
                                  /\ g.keys[g.leaves[s].pubkey] = s
    <2> SUFFICES ASSUME NEW s \in 0..l
                 PROVE  /\ g.leaves[s].pubkey \in DOMAIN g.keys
                        /\ g.keys[g.leaves[s].pubkey] = s
      BY <1>11
    <2>1. g.leaves[s].pubkey = Genesis[s + 1].pubkey
      BY <1>11, <1>17
    <2>2. QED
      BY <1>8, <1>11, <1>12, <2>1
  <1>21. QED
    BY <1>4, <1>10, <1>11, <1>14, <1>16, <1>18, <1>19, <1>20
       DEF MachineShape, UNISWAP_STORAGE_SLOT

LEMMA InitFacts ==
  ASSUME Init
  PROVE  /\ FraudType /\ ComputedChain /\ ClaimedChain /\ HonestChainStands
         /\ PrunedOnlyForFraud /\ GuardShape
         /\ ValidatorFollowsChain /\ HonestNeverAccused
  <1>1. /\ head = GenesisMachine /\ local = GenesisMachine
        /\ pending = <<>> /\ posted = <<>> /\ pruned = {} /\ stored = <<>>
        /\ conduct = "sound" /\ restarts = 0 /\ misled = FALSE
        /\ guard = Guard("waiting", NoBlock, 0, 0)
        /\ position = StartPosition
    BY DEF Init
  <1>2. /\ MaxBlocks \in Nat /\ MaxTransitions \in Nat /\ MaxRestarts \in Nat
    BY FraudAssumption
  <1>3. ChainType
    <2>1. misled \in BOOLEAN /\ pruned \subseteq DOMAIN posted
      BY <1>1, Zenon
    <2>2. /\ posted \in Seq(Seq(Transitions)) /\ pending \in Seq(Transitions)
          /\ Len(posted) <= MaxBlocks /\ Len(pending) <= MaxTransitions
          /\ \A n \in DOMAIN posted : Len(posted[n]) \in 1..MaxTransitions
      BY <1>1, <1>2
    <2>3. QED
      BY <1>1, <2>1, <2>2, Zenon DEF ChainType
  <1>4. /\ guard.doing = "waiting" /\ guard.lastBlockValidated = 0
        /\ guard.saved = 0 /\ guard \in Guards
        /\ position.blockNumber = 1 /\ position.transitionIndex = 0
        /\ position \in Positions
    BY <1>1, <1>2 DEF Guard, NoBlock, StartPosition, Position, Guards, Doings,
                      Positions
  <1>5. GuardType
    BY <1>1, <1>2, <1>4 DEF GuardType
  <1>6. MachineShape(GenesisMachine) /\ MachineType(GenesisMachine)
    BY GenesisShape, ShapeFacts
  <1>7. ComputedChain
    <2>1. Chain = << <<>> >>
      BY <1>1 DEF Chain
    <2>2. head.leaves = RootBefore(Len(posted) + 1, Len(pending) + 1)
      BY <1>1 DEF RootBefore
    <2>3. \A n \in DOMAIN Chain : DOMAIN Chain[n] = {}
      BY <2>1
    <2>4. QED
      BY <2>2, <2>3 DEF ComputedChain
  <1>10. ClaimedChain
    <2>1. Chain = << <<>> >>
      BY <1>1 DEF Chain
    <2>2. head.leaves = RootBefore(Len(posted) + 1, Len(pending) + 1)
      BY <1>1 DEF RootBefore
    <2>3. \A n \in DOMAIN Chain : DOMAIN Chain[n] = {}
      BY <2>1
    <2>4. QED
      BY <2>2, <2>3 DEF ClaimedChain
  <1>8. ~InBlock
    BY <1>4 DEF InBlock
  <1>9. QED
    BY <1>1, <1>3, <1>4, <1>5, <1>6, <1>7, <1>8, <1>10
       DEF FraudType, HonestChainStands, PrunedOnlyForFraud, GuardShape,
           ValidatorFollowsChain, HonestNeverAccused

-----------------------------------------------------------------------------
(***************************************************************************)
(* The variables keep their types.                                         *)
(***************************************************************************)
LEMMA HeadStep ==
  ASSUME FraudType, [Next]_vars
  PROVE  MachineShape(head')
  <1>1. head' = head \/ \E tx \in Transactions : Aggregate(tx)
    BY ZenonT(40) DEF Next, vars, Cheat, Post, Receive, OutOfOrder, CheckNextTransition,
           CheckFails, DetectFraud, BlockChecked, Saved, Restart, Challenge
  <1>2. MachineShape(head)
    BY DEF FraudType
  <1>3. ASSUME NEW tx \in Transactions, Aggregate(tx)
        PROVE  MachineShape(head')
    <2>1. Accepted(head, tx) /\ head' = ApplyTransaction(head, tx)
      BY <1>3 DEF Aggregate
    <2>2. SignedTransaction(tx) /\ ~Refused(head, tx)
      BY <2>1, FraudAssumption DEF Accepted
    <2>3. TransactionType(tx)
      BY <2>2, NotRefusedType
    <2>4. QED
      BY <1>2, <2>1, <2>3, AcceptedShape
  <1>4. QED
    BY <1>1, <1>2, <1>3

\* The transition that the guard checks next is on the chain.
LEMMA NextIsOnChain ==
  ASSUME FraudType, InBlock
  PROVE  LET n == guard.block
             i == position.transitionIndex + 1
         IN  /\ n \in DOMAIN posted /\ n \in Nat /\ n >= 1
             /\ n = guard.lastBlockValidated + 1
             /\ i \in DOMAIN posted[n] /\ i \in Nat /\ i >= 1
             /\ stored[n] = posted[n]
             /\ NextTransition = posted[n][i]
             /\ NextTransition \in Transitions /\ Decodes(NextTransition)
  <1> DEFINE n == guard.block
             i == position.transitionIndex + 1
  <1>1. /\ guard.doing = "validating"
        /\ position.transitionIndex < Len(stored[n])
    BY DEF InBlock
  <1>2. /\ n \in DOMAIN stored /\ n = guard.lastBlockValidated + 1
        /\ stored[n] = posted[n] /\ n \in DOMAIN posted
        /\ \A k \in DOMAIN stored[n] : Decodes(stored[n][k])
        /\ position.transitionIndex \in Nat
    BY <1>1, FraudAssumption DEF FraudType, GuardType, Positions
  <1>3. /\ n \in Nat /\ n >= 1 /\ DOMAIN posted[n] = 1..Len(posted[n])
        /\ Len(posted[n]) \in Nat
        /\ \A k \in DOMAIN posted[n] : posted[n][k] \in Transitions
    BY <1>2, ChainFacts DEF FraudType
  <1>4. i \in DOMAIN posted[n] /\ i \in Nat /\ i >= 1
    BY <1>1, <1>2, <1>3
  <1>5. NextTransition = posted[n][i]
    BY <1>2 DEF NextTransition
  <1>6. QED
    BY <1>2, <1>3, <1>4, <1>5

LEMMA LocalStep ==
  ASSUME FraudType, [Next]_vars
  PROVE  MachineType(local')
  <1> DEFINE t == NextTransition
             tx == TransactionOf(t)
  <1>1. \/ local' = local
        \/ InBlock /\ ~Refused(local, tx) /\ local' = ApplyTransaction(local, tx)
    BY ZenonT(40) DEF Next, vars, Aggregate, Cheat, Post, Receive, OutOfOrder,
           CheckNextTransition, CheckFails, DetectFraud, BlockChecked, Saved,
           Restart, Challenge, Accepted
  <1>2. MachineType(local)
    BY DEF FraudType
  <1>3. ASSUME InBlock, ~Refused(local, tx), local' = ApplyTransaction(local, tx)
        PROVE  MachineType(local')
    <2>1. t \in Transitions /\ Decodes(t)
      BY <1>3, NextIsOnChain
    <2> HIDE DEF t
    <2>2. TransactionType(tx)
      BY <1>2, <1>3, <2>1, RebuiltType
    <2> HIDE DEF tx
    <2>3. QED
      BY <1>2, <1>3, <2>2, ApplyType
  <1>4. QED
    BY <1>1, <1>2, <1>3

LEMMA PendingGrows ==
  ASSUME ChainType, NEW t \in Transitions,
         Len(posted) < MaxBlocks, Len(pending) < MaxTransitions,
         pending' = Append(pending, t), UNCHANGED <<posted, pruned, misled>>,
         conduct' \in {"sound", "divergent", "false"}
  PROVE  ChainType'
  <1> HIDE DEF Transitions
  <1>1. pending \in Seq(Transitions) /\ Len(pending) \in Nat
    BY DEF ChainType
  <1>2. pending' \in Seq(Transitions) /\ Len(pending') = Len(pending) + 1
    BY <1>1
  <1>3. Len(pending') <= MaxTransitions
    BY <1>1, <1>2, FraudAssumption
  <1>4. QED
    BY <1>2, <1>3 DEF ChainType

LEMMA BlockPosted ==
  ASSUME ChainType, Post
  PROVE  ChainType' /\ DOMAIN posted \subseteq DOMAIN posted'
         /\ \A n \in DOMAIN posted : posted'[n] = posted[n]
  <1> HIDE DEF Transitions
  <1>1. /\ pending # <<>> /\ posted' = Append(posted, pending)
        /\ pending' = <<>> /\ UNCHANGED <<conduct, pruned, misled>>
    BY DEF Post, SubmitBlock
  <1>2. /\ posted \in Seq(Seq(Transitions)) /\ pending \in Seq(Transitions)
        /\ Len(pending) <= MaxTransitions /\ Len(posted) < MaxBlocks
    BY <1>1 DEF ChainType
  <1>3. Len(pending) \in 1..MaxTransitions
    BY <1>1, <1>2, FraudAssumption
  <1>4. /\ posted' \in Seq(Seq(Transitions)) /\ Len(posted') = Len(posted) + 1
        /\ DOMAIN posted' = 1..(Len(posted) + 1) /\ DOMAIN posted = 1..Len(posted)
        /\ \A n \in DOMAIN posted : posted'[n] = posted[n]
        /\ posted'[Len(posted) + 1] = pending /\ Len(posted) \in Nat
    BY <1>1, <1>2
  <1>5. \A n \in DOMAIN posted : Len(posted[n]) \in 1..MaxTransitions
    BY DEF ChainType
  <1>6. \A n \in DOMAIN posted' : Len(posted'[n]) \in 1..MaxTransitions
    <2> SUFFICES ASSUME NEW n \in DOMAIN posted'
                 PROVE  Len(posted'[n]) \in 1..MaxTransitions
      OBVIOUS
    <2>1. n \in DOMAIN posted \/ n = Len(posted) + 1
      BY <1>4
    <2>2. QED
      BY <1>3, <1>4, <1>5, <2>1
  <1>7. Len(posted') <= MaxBlocks
    BY <1>2, <1>4, FraudAssumption
  <1>8. DOMAIN posted \subseteq DOMAIN posted'
    BY <1>4
  <1>9. QED
    BY <1>1, <1>4, <1>6, <1>7, <1>8, FraudAssumption DEF ChainType

\* The transition of a transaction of the machine, or a false one.
LEMMA Appended ==
  ASSUME FraudType, NEW tx \in Transactions, Aggregate(tx) \/ Cheat(tx)
  PROVE  \E t \in Transitions : pending' = Append(pending, t)
  <1> HIDE DEF Transitions
  <1>1. MachineShape(head)
    BY DEF FraudType
  <1>2. CASE Aggregate(tx)
    <2>1. Accepted(head, tx) /\ pending' = Append(pending, TransitionOf(head, tx))
      BY <1>2 DEF Aggregate
    <2>2. TransitionOf(head, tx) \in Transitions
      BY <1>1, <2>1, AcceptedTransition
    <2>3. QED
      BY <2>1, <2>2
  <1>3. CASE Cheat(tx)
    <2>1. PICK t \in FalseTransitions(tx) : pending' = Append(pending, t)
      BY <1>3 DEF Cheat
    <2>2. \/ t = Garbled
          \/ /\ tx.sender \in DOMAIN head.keys
             /\ t = [TransitionOf(head, tx) EXCEPT !.root = head.leaves]
      BY DEF FalseTransitions
    <2>3. head.leaves \in Roots
      BY <1>1, ShapeFacts, MachineFacts
    <2>4. t \in Transitions
      <3>1. CASE t = Garbled
        BY <3>1 DEF Transitions
      <3>2. CASE /\ tx.sender \in DOMAIN head.keys
                 /\ t = [TransitionOf(head, tx) EXCEPT !.root = head.leaves]
        BY <1>1, <2>3, <3>2, TransitionShape
      <3>3. QED
        BY <2>2, <3>1, <3>2
    <2>5. QED
      BY <2>1, <2>4
  <1>4. QED
    BY <1>2, <1>3

\* A step that prunes is the guard's proof or another's.
LEMMA WhatPrunes ==
  ASSUME FraudType, [Next]_vars
  PROVE  \/ UNCHANGED <<pruned, misled>>
         \/ /\ UNCHANGED <<posted, pending, conduct, head>>
            /\ \E pre, t, slots : t.block \in Int
                                  /\ ProveTransitionInvalid(pre, t, slots)
  <1>1. \/ UNCHANGED <<pruned, misled>>
        \/ InBlock /\ DetectFraud
        \/ \E pre, t \in Inclusions : Challenge(pre, t)
    BY DEF Next, vars, Aggregate, Cheat, Post, Receive, OutOfOrder,
           CheckNextTransition, CheckFails, DetectFraud, BlockChecked, Saved,
           Restart
  <1>2. ASSUME InBlock, DetectFraud
        PROVE  \/ UNCHANGED <<pruned, misled>>
               \/ /\ UNCHANGED <<posted, pending, conduct, head>>
                  /\ \E pre, t, slots : t.block \in Int
                                        /\ ProveTransitionInvalid(pre, t, slots)
    <2> DEFINE proof == ContractFraudProof
    <2>1. UNCHANGED <<posted, pending, conduct, head>>
          /\ (UNCHANGED <<pruned, misled>>
              \/ ProveTransitionInvalid(proof.pre, proof.t, proof.slots))
      BY <1>2 DEF DetectFraud
    <2>2. proof.t.block = guard.block
      BY DEF ContractFraudProof, GetIncludedTransition, IncludedTransition
    <2>3. guard.block \in Int
      BY <1>2, NextIsOnChain
    <2> HIDE DEF proof
    <2>4. QED
      BY <2>1, <2>2, <2>3
  <1>3. ASSUME NEW pre \in Inclusions, NEW t \in Inclusions, Challenge(pre, t)
        PROVE  /\ UNCHANGED <<posted, pending, conduct, head>>
               /\ \E p, u, slots : u.block \in Int
                                   /\ ProveTransitionInvalid(p, u, slots)
    <2>1. PICK root : /\ UNCHANGED <<posted, pending, conduct, head>>
                      /\ ProveTransitionInvalid(pre, t, SlotsOf(t.transition, root))
      BY <1>3 DEF Challenge
    <2>2. \E n \in DOMAIN posted : t.block = n - 1
      BY DEF Inclusions, IncludedTransition
    <2>3. t.block \in Int
      BY <2>2, ChainFacts DEF FraudType
    <2>4. QED
      BY <2>1, <2>3
  <1>4. QED
    BY <1>1, <1>2, <1>3

LEMMA PrunedType ==
  ASSUME FraudType, [Next]_vars
  PROVE  pruned' \subseteq DOMAIN posted' /\ misled' \in BOOLEAN
  <1>1. ChainType /\ pruned \subseteq DOMAIN posted /\ misled \in BOOLEAN
    BY DEF FraudType, ChainType
  <1>2. CASE UNCHANGED <<pruned, misled>>
    <2>1. UNCHANGED posted \/ Post
      BY ZenonT(40) DEF Next, vars, Aggregate, Cheat, Receive, OutOfOrder,
             CheckNextTransition, CheckFails, DetectFraud, BlockChecked, Saved,
             Restart, Challenge
    <2>2. QED
      BY <1>1, <1>2, <2>1, BlockPosted
  <1>3. CASE ~UNCHANGED <<pruned, misled>>
    <2>1. PICK pre, t, slots : ProveTransitionInvalid(pre, t, slots)
      BY <1>3, WhatPrunes
    <2>2. UNCHANGED posted
      BY <1>3, WhatPrunes
    <2>3. QED
      BY <1>1, <2>1, <2>2 DEF ProveTransitionInvalid, PruneBlocksAfter
  <1>4. QED
    BY <1>2, <1>3

LEMMA PrunedStep ==
  ASSUME HeightsAgree, FraudType, PrunedOnlyForFraud, [Next]_vars
  PROVE  PrunedOnlyForFraud'
  <1> SUFFICES ASSUME ~misled' PROVE PrunedOnlyForFraud'
    BY DEF PrunedOnlyForFraud
  <1>1. ChainType
    BY DEF FraudType
  <1>2. CASE UNCHANGED <<posted, pruned, misled>>
    BY <1>1, <1>2 DEF PrunedOnlyForFraud, Predecessor, Element
  <1>3. CASE Post
    <2>1. SubmitBlock(pending) /\ UNCHANGED <<pruned, misled>>
      BY <1>3 DEF Post
    <2>2. pending \in Seq(Transitions)
      BY <1>1 DEF ChainType
    <2>3. QED
      BY <1>1, <2>1, <2>2, PrunedStays
  <1>4. CASE ~UNCHANGED <<pruned, misled>>
    <2>1. PICK pre, t, slots : t.block \in Int
                               /\ ProveTransitionInvalid(pre, t, slots)
      BY <1>4, WhatPrunes
    <2>2. UNCHANGED posted
      BY <1>4, WhatPrunes
    <2>3. QED
      BY <1>1, <2>1, <2>2, PrunedAgain
  <1>5. UNCHANGED posted \/ Post
    BY ZenonT(40) DEF Next, vars, Aggregate, Cheat, Receive, OutOfOrder,
           CheckNextTransition, CheckFails, DetectFraud, BlockChecked, Saved,
           Restart, Challenge
  <1>6. QED
    BY <1>2, <1>3, <1>4, <1>5

LEMMA ChainStep ==
  ASSUME FraudType, [Next]_vars
  PROVE  ChainType'
  <1>1. ChainType
    BY DEF FraudType
  <1>2. \/ \E tx \in Transactions : Aggregate(tx) \/ Cheat(tx)
        \/ Post
        \/ UNCHANGED <<posted, pending, conduct>>
    <2>1. ASSUME \/ OutOfOrder \/ CheckNextTransition \/ CheckFails
                 \/ DetectFraud \/ BlockChecked \/ Saved \/ Restart
          PROVE  UNCHANGED <<posted, pending, conduct>>
      BY <2>1 DEF OutOfOrder, CheckNextTransition, CheckFails, DetectFraud,
                  BlockChecked, Saved, Restart
    <2>2. ASSUME NEW n \in DOMAIN posted, Receive(n)
          PROVE  UNCHANGED <<posted, pending, conduct>>
      BY <2>2 DEF Receive
    <2>3. ASSUME NEW pre, NEW t, Challenge(pre, t)
          PROVE  UNCHANGED <<posted, pending, conduct>>
      BY <2>3 DEF Challenge
    <2>4. UNCHANGED vars => UNCHANGED <<posted, pending, conduct>>
      BY DEF vars
    <2>5. QED
      BY <2>1, <2>2, <2>3, <2>4 DEF Next
  <1>3. ASSUME NEW tx \in Transactions, Aggregate(tx) \/ Cheat(tx)
        PROVE  ChainType'
    <2>1. PICK t \in Transitions : pending' = Append(pending, t)
      BY <1>3, Appended
    <2>2. conduct \in {"sound", "divergent", "false"}
      BY <1>1 DEF ChainType
    <2>3. /\ Len(posted) < MaxBlocks /\ Len(pending) < MaxTransitions
          /\ UNCHANGED <<posted, pruned, misled>>
          /\ conduct' \in {"sound", "divergent", "false"}
      BY <1>3, <2>2 DEF Aggregate, Cheat
    <2>4. QED
      BY <1>1, <2>1, <2>3, PendingGrows
  <1>4. ASSUME UNCHANGED <<posted, pending, conduct>>
        PROVE  ChainType'
    BY <1>1, <1>4, PrunedType DEF ChainType
  <1>5. QED
    BY <1>1, <1>2, <1>3, <1>4, BlockPosted

\* Posting a block changes nothing for the guard.
LEMMA GuardTypeKept ==
  ASSUME GuardType, UNCHANGED <<guard, position, stored, restarts>>,
         DOMAIN posted \subseteq DOMAIN posted',
         \A n \in DOMAIN posted : posted'[n] = posted[n]
  PROVE  GuardType'
  <1> USE DEF GuardType
  <1> HIDE DEF Transitions, Guards, Positions
  <1>1. /\ guard' = guard /\ position' = position /\ stored' = stored
        /\ restarts' = restarts
    OBVIOUS
  <1>2. /\ DOMAIN stored \subseteq DOMAIN posted'
        /\ \A n \in DOMAIN stored : stored[n] = posted'[n]
    OBVIOUS
  <1>3. QED
    BY <1>1, <1>2

LEMMA GuardStep ==
  ASSUME FraudType, [Next]_vars
  PROVE  GuardType'
  <1>1. GuardType /\ ChainType
    BY DEF FraudType
  <1>2. CASE UNCHANGED <<guard, position, stored, restarts>>
    <2>1. UNCHANGED posted \/ Post
      BY ZenonT(40) DEF Next, vars, Aggregate, Cheat, Receive, OutOfOrder,
             CheckNextTransition, CheckFails, DetectFraud, BlockChecked, Saved,
             Restart, Challenge
    <2>2. QED
      BY <1>1, <1>2, <2>1, BlockPosted, GuardTypeKept
  <1>3. \/ UNCHANGED <<guard, position, stored, restarts>>
        \/ \E n \in DOMAIN posted : Receive(n)
        \/ OutOfOrder \/ CheckNextTransition \/ CheckFails \/ DetectFraud
        \/ BlockChecked \/ Saved \/ Restart
    BY DEF Next, vars, Aggregate, Cheat, Post, Challenge
  <1>4. /\ guard \in Guards /\ guard.saved <= guard.lastBlockValidated
        /\ position \in Positions /\ restarts \in 0..MaxRestarts
        /\ stored \in [DOMAIN stored -> Seq(Transitions)]
        /\ DOMAIN stored \subseteq DOMAIN posted
        /\ \A n \in DOMAIN stored :
              /\ stored[n] = posted[n]
              /\ \A i \in DOMAIN stored[n] : Decodes(stored[n][i])
        /\ guard.doing = "validating" =>
              /\ guard.block \in DOMAIN stored
              /\ guard.block = guard.lastBlockValidated + 1
    BY <1>1 DEF GuardType
  <1>5. /\ guard.doing \in Doings /\ guard.block \in Nat
        /\ guard.lastBlockValidated \in Nat /\ guard.saved \in Nat
        /\ guard = Guard(guard.doing, guard.block, guard.lastBlockValidated,
                         guard.saved)
        /\ position.blockNumber \in 1..(MaxBlocks + 1)
        /\ position.transitionIndex \in 0..MaxTransitions
        /\ position = Position(position.blockNumber, position.transitionIndex)
    BY <1>4 DEF Guards, Guard, Positions, Position
  <1>6. ASSUME Exit, UNCHANGED <<posted, position, stored, restarts>>
        PROVE  GuardType'
    <2>1. /\ guard'.doing = "exited" /\ guard'.saved = guard.saved
          /\ guard'.lastBlockValidated = guard.lastBlockValidated
          /\ guard' \in Guards
      BY <1>5, <1>6 DEF Exit, Guards, Guard, Doings
    <2>2. QED
      BY <1>4, <1>6, <2>1 DEF GuardType
  <1>7. ASSUME NEW n \in DOMAIN posted, Receive(n)
        PROVE  GuardType'
    <2>1. CASE Gap(n)
      BY <1>6, <1>7, <2>1 DEF Receive
    <2>2. CASE ~Gap(n)
      <3>1. /\ \A i \in DOMAIN posted[n] : Decodes(posted[n][i])
            /\ n > guard.lastBlockValidated
            /\ stored' = [k \in DOMAIN stored \cup {n} |->
                            IF k = n THEN posted[n] ELSE stored[k]]
            /\ guard' = [guard EXCEPT !.doing = "validating", !.block = n]
            /\ UNCHANGED <<posted, position, restarts>>
        BY <1>7, <2>2 DEF Receive
      <3>2. n \in Nat /\ posted[n] \in Seq(Transitions)
        BY <1>1, ChainFacts
      <3>3. n = guard.lastBlockValidated + 1
        BY <1>5, <2>2, <3>1, <3>2 DEF Gap
      <3>4. /\ guard'.doing = "validating" /\ guard'.block = n
            /\ guard'.saved = guard.saved
            /\ guard'.lastBlockValidated = guard.lastBlockValidated
            /\ guard' \in Guards
        BY <1>5, <3>1, <3>2 DEF Guards, Guard, Doings
      <3>5. /\ DOMAIN stored' = DOMAIN stored \cup {n}
            /\ \A k \in DOMAIN stored' :
                  stored'[k] = IF k = n THEN posted[n] ELSE stored[k]
            /\ stored' = [k \in DOMAIN stored' |-> stored'[k]]
        BY <3>1
      <3>6. \A k \in DOMAIN stored' :
               /\ stored'[k] \in Seq(Transitions)
               /\ stored'[k] = posted[k]
               /\ \A i \in DOMAIN stored'[k] : Decodes(stored'[k][i])
        <4> HIDE DEF Transitions
        <4> SUFFICES ASSUME NEW k \in DOMAIN stored'
                     PROVE  /\ stored'[k] \in Seq(Transitions)
                            /\ stored'[k] = posted[k]
                            /\ \A i \in DOMAIN stored'[k] :
                                  Decodes(stored'[k][i])
          OBVIOUS
        <4>1. CASE k = n
          BY <3>1, <3>2, <3>5, <4>1
        <4>2. CASE k # n
          <5>1. k \in DOMAIN stored /\ stored'[k] = stored[k]
            BY <3>5, <4>2
          <5>2. QED
            BY <1>4, <5>1
        <4>3. QED
          BY <4>1, <4>2
      <3>7. stored' \in [DOMAIN stored' -> Seq(Transitions)]
        BY <3>5, <3>6
      <3>8. QED
        BY <1>4, <3>1, <3>3, <3>4, <3>5, <3>6, <3>7 DEF GuardType
    <2>3. QED
      BY <2>1, <2>2
  <1>8. ASSUME OutOfOrder \/ CheckFails
        PROVE  GuardType'
    BY <1>6, <1>8 DEF OutOfOrder, CheckFails
  <1>9. ASSUME CheckNextTransition
        PROVE  GuardType'
    <2>1. /\ InBlock /\ position' = [position EXCEPT !.transitionIndex = @ + 1]
          /\ UNCHANGED <<guard, posted, stored, restarts>>
      BY <1>9 DEF CheckNextTransition
    <2>2. /\ guard.block \in DOMAIN posted
          /\ position.transitionIndex + 1 \in DOMAIN posted[guard.block]
      BY <2>1, NextIsOnChain
    <2>3. position.transitionIndex + 1 \in 0..MaxTransitions
      BY <1>1, <2>2, ChainFacts, FraudAssumption
    <2>4. position' \in Positions
      BY <1>5, <2>1, <2>3 DEF Positions, Position
    <2>5. QED
      BY <1>4, <2>1, <2>4 DEF GuardType
  <1>10. ASSUME DetectFraud
         PROVE  GuardType'
    <2>1. UNCHANGED <<posted, position, stored, restarts>>
          /\ (Exit \/ guard' = [guard EXCEPT !.doing = "proved"])
      BY <1>10 DEF DetectFraud
    <2>2. CASE guard' = [guard EXCEPT !.doing = "proved"]
      <3>1. /\ guard'.doing = "proved" /\ guard'.saved = guard.saved
            /\ guard'.lastBlockValidated = guard.lastBlockValidated
            /\ guard' \in Guards
        BY <1>5, <2>2 DEF Guards, Guard, Doings
      <3>2. QED
        BY <1>4, <2>1, <3>1 DEF GuardType
    <2>3. QED
      BY <1>6, <2>1, <2>2
  <1>11. ASSUME BlockChecked
         PROVE  GuardType'
    <2>1. /\ guard.doing = "validating" /\ guard.block = position.blockNumber
          /\ position' = Position(position.blockNumber + 1, 0)
          /\ guard' = [guard EXCEPT !.doing = "saving",
                                    !.lastBlockValidated = guard.block]
          /\ UNCHANGED <<posted, stored, restarts>>
      BY <1>11 DEF BlockChecked
    <2>2. guard.block \in DOMAIN posted /\ guard.block = guard.lastBlockValidated + 1
      BY <1>4, <2>1
    <2>3. guard.block \in 1..MaxBlocks
      <3>1. Len(posted) <= MaxBlocks
        BY <1>1 DEF ChainType
      <3>2. QED
        BY <1>1, <2>2, <3>1, ChainFacts, FraudAssumption
    <2>4. position' \in Positions
      BY <2>1, <2>3, FraudAssumption DEF Positions, Position
    <2>5. /\ guard'.doing = "saving" /\ guard'.saved = guard.saved
          /\ guard'.lastBlockValidated = guard.block
          /\ guard' \in Guards
      BY <1>5, <2>1 DEF Guards, Guard, Doings
    <2>6. guard'.saved <= guard'.lastBlockValidated
      BY <1>4, <1>5, <2>2, <2>5
    <2>7. QED
      BY <1>4, <2>1, <2>4, <2>5, <2>6 DEF GuardType
  <1>12. ASSUME Saved
         PROVE  GuardType'
    <2>1. /\ guard' = Guard("waiting", NoBlock, guard.lastBlockValidated,
                            guard.lastBlockValidated)
          /\ UNCHANGED <<posted, position, stored, restarts>>
      BY <1>12 DEF Saved
    <2>2. /\ guard'.doing = "waiting" /\ guard'.saved <= guard'.lastBlockValidated
          /\ guard' \in Guards
      BY <1>5, <2>1 DEF Guards, Guard, Doings, NoBlock
    <2>3. QED
      BY <1>4, <2>1, <2>2 DEF GuardType
  <1>13. ASSUME Restart
         PROVE  GuardType'
    <2>1. /\ restarts < MaxRestarts /\ restarts' = restarts + 1
          /\ guard' = Guard("waiting", NoBlock, guard.saved, guard.saved)
          /\ position' = StartPosition /\ stored' = <<>> /\ UNCHANGED posted
      BY <1>13 DEF Restart
    <2>2. /\ guard'.doing = "waiting" /\ guard'.saved <= guard'.lastBlockValidated
          /\ guard' \in Guards
      BY <1>5, <2>1 DEF Guards, Guard, Doings, NoBlock
    <2>3. position' \in Positions /\ restarts' \in 0..MaxRestarts
      BY <1>4, <2>1, FraudAssumption DEF Positions, Position, StartPosition
    <2>4. DOMAIN stored' = {} /\ stored' \in [DOMAIN stored' -> Seq(Transitions)]
      BY <2>1
    <2>5. QED
      BY <2>2, <2>3, <2>4 DEF GuardType
  <1>14. QED
    BY <1>2, <1>3, <1>7, <1>8, <1>9, <1>10, <1>11, <1>12, <1>13

LEMMA TypeStep ==
  ASSUME FraudType, [Next]_vars
  PROVE  FraudType'
  BY HeadStep, LocalStep, ChainStep, GuardStep DEF FraudType

-----------------------------------------------------------------------------
(***************************************************************************)
(* What a sound aggregator posts is what its machine computes.             *)
(***************************************************************************)
LEMMA AppendedPlaces ==
  ASSUME NEW S, NEW p \in Seq(S), NEW q \in S
  PROVE  /\ DOMAIN Append(p, q) = 1..(Len(p) + 1)
         /\ \A n \in DOMAIN p : Append(p, q)[n] = p[n]
         /\ Append(p, q)[Len(p) + 1] = q
         /\ DOMAIN p = 1..Len(p) /\ Len(p) \in Nat
  OBVIOUS

LEMMA ChainPlaces ==
  ASSUME ChainType
  PROVE  /\ DOMAIN Chain = 1..(Len(posted) + 1)
         /\ \A n \in DOMAIN posted : n \in DOMAIN Chain /\ Chain[n] = posted[n]
         /\ Chain[Len(posted) + 1] = pending
         /\ \A n \in DOMAIN Chain : /\ n \in Nat /\ n >= 1
                                    /\ Chain[n] \in Seq(Transitions)
                                    /\ n > 1 => n - 1 \in DOMAIN posted
  <1> HIDE DEF Transitions
  <1>1. /\ posted \in Seq(Seq(Transitions)) /\ pending \in Seq(Transitions)
    BY DEF ChainType
  <1>2. Chain = Append(posted, pending) /\ Chain \in Seq(Seq(Transitions))
    BY <1>1 DEF Chain
  <1>3. /\ DOMAIN Chain = 1..(Len(posted) + 1)
        /\ \A n \in DOMAIN posted : n \in DOMAIN Chain /\ Chain[n] = posted[n]
        /\ Chain[Len(posted) + 1] = pending
        /\ Len(posted) \in Nat /\ DOMAIN posted = 1..Len(posted)
    BY <1>1, <1>2
  <1>4. \A n \in DOMAIN Chain : Chain[n] \in Seq(Transitions)
    BY <1>2
  <1>5. QED
    BY <1>3, <1>4

\* A chain that only gets longer keeps what is before its places.
LEMMA RootsStay ==
  ASSUME ChainType, DOMAIN Chain \subseteq DOMAIN Chain',
         \A n \in DOMAIN posted : Chain'[n] = Chain[n],
         \A i \in DOMAIN pending :
            Chain'[Len(posted) + 1][i] = pending[i]
  PROVE  \A n \in DOMAIN Chain : \A i \in 1..(Len(Chain[n]) + 1) :
            /\ RootBefore(n, i)' = RootBefore(n, i)
            /\ Rooted(n, i)' <=> Rooted(n, i)
  <1> SUFFICES ASSUME NEW n \in DOMAIN Chain, NEW i \in 1..(Len(Chain[n]) + 1)
               PROVE  /\ RootBefore(n, i)' = RootBefore(n, i)
                      /\ Rooted(n, i)' <=> Rooted(n, i)
    OBVIOUS
  <1> HIDE DEF Transitions
  <1>1. /\ n \in Nat /\ n >= 1 /\ Chain[n] \in Seq(Transitions)
        /\ n > 1 => n - 1 \in DOMAIN posted
    BY ChainPlaces
  <1>2. CASE i > 1
    <2>1. i - 1 \in DOMAIN Chain[n]
      BY <1>1, <1>2
    <2>2. Chain'[n][i - 1] = Chain[n][i - 1]
      <3>1. CASE n \in DOMAIN posted
        BY <3>1
      <3>2. CASE n \notin DOMAIN posted
        <4>1. n = Len(posted) + 1
          BY <3>2, ChainPlaces, ChainFacts
        <4>2. Chain[n] = pending
          BY <4>1, ChainPlaces
        <4>3. QED
          BY <2>1, <4>1, <4>2
      <3>3. QED
        BY <3>1, <3>2
    <2>3. QED
      BY <1>2, <2>2 DEF RootBefore, Rooted
  <1>3. CASE ~(i > 1)
    <2>1. n > 1 => Chain'[n - 1] = Chain[n - 1]
      BY <1>1
    <2>2. QED
      BY <1>3, <2>1 DEF RootBefore, Rooted
  <1>4. QED
    BY <1>2, <1>3

LEMMA ComputedAggregate ==
  ASSUME FraudType, ComputedChain, ChainType', NEW tx \in Transactions, Aggregate(tx)
  PROVE  ComputedChain'
  <1> DEFINE t == TransitionOf(head, tx)
  <1> HIDE DEF Transitions
  <1>1. /\ Accepted(head, tx) /\ pending' = Append(pending, t)
        /\ head' = ApplyTransaction(head, tx)
        /\ conduct' = IF conduct = "sound" /\ Divergent(head, tx)
                      THEN "divergent" ELSE conduct
        /\ posted' = posted
    BY DEF Aggregate
  <1>2. ChainType /\ MachineShape(head)
    BY DEF FraudType
  <1>3. /\ posted \in Seq(Seq(Transitions)) /\ pending \in Seq(Transitions)
    BY <1>2 DEF ChainType
  <1>0. PICK l, p : l = Len(posted) + 1 /\ p = Len(pending) + 1
    OBVIOUS
  <1>4. SUFFICES ASSUME conduct' # "false"
                 PROVE  /\ \A n \in DOMAIN Chain' : \A i \in DOMAIN Chain'[n] :
                              /\ Computed(RootBefore(n, i)', Chain'[n][i])
                              /\ conduct' = "sound" =>
                                    Follows(RootBefore(n, i)', Chain'[n][i])
                        /\ head'.leaves =
                              RootBefore(Len(posted) + 1, Len(pending) + 1)'
    BY DEF ComputedChain
  <1>5. /\ \A n \in DOMAIN Chain : \A i \in DOMAIN Chain[n] :
              /\ Computed(RootBefore(n, i), Chain[n][i])
              /\ conduct = "sound" => Follows(RootBefore(n, i), Chain[n][i])
        /\ head.leaves = RootBefore(l, p)
    BY <1>0, <1>1, <1>4 DEF ComputedChain
  <1>6. /\ DOMAIN Chain = 1..l /\ Chain[l] = pending
        /\ \A n \in DOMAIN posted : n \in DOMAIN Chain /\ Chain[n] = posted[n]
        /\ \A n \in DOMAIN Chain : n \in Nat /\ n >= 1 /\ Chain[n] \in Seq(Transitions)
        /\ DOMAIN posted = 1..Len(posted) /\ Len(posted) \in Nat
    BY <1>0, <1>2, ChainPlaces, ChainFacts
  <1>7. /\ DOMAIN Chain' = 1..l /\ Chain'[l] = pending'
        /\ \A n \in DOMAIN posted : Chain'[n] = posted[n]
    <2> DEFINE q == pending'
    <2>1. q \in Seq(Transitions) /\ Chain' = Append(posted, q)
      BY <1>1 DEF ChainType, Chain
    <2> HIDE DEF q
    <2>2. /\ DOMAIN Chain' = 1..l /\ Chain'[l] = q
          /\ \A n \in DOMAIN posted : Chain'[n] = posted[n]
      BY <1>0, <1>3, <2>1, AppendedPlaces
    <2>3. QED
      BY <2>2 DEF q
  <1> HIDE DEF t
  <1>8. /\ DOMAIN pending' = 1..p /\ pending'[p] = t /\ Len(pending') = p
        /\ DOMAIN pending = 1..Len(pending) /\ Len(pending) \in Nat
        /\ \A i \in DOMAIN pending : pending'[i] = pending[i]
    BY <1>0, <1>1, <1>3
  <1>9. \A n \in DOMAIN Chain : \A i \in 1..(Len(Chain[n]) + 1) :
           RootBefore(n, i)' = RootBefore(n, i)
    <2>1. /\ DOMAIN Chain \subseteq DOMAIN Chain'
          /\ \A n \in DOMAIN posted : Chain'[n] = Chain[n]
          /\ \A i \in DOMAIN pending : Chain'[Len(posted) + 1][i] = pending[i]
      BY <1>0, <1>6, <1>7, <1>8
    <2>2. QED
      BY <1>2, <2>1, RootsStay
  <1>10. RootBefore(l, p)' = head.leaves
    <2>1. l \in DOMAIN Chain /\ p \in 1..(Len(Chain[l]) + 1)
      BY <1>0, <1>6, <1>8
    <2>2. RootBefore(l, p)' = RootBefore(l, p)
      BY <1>9, <2>1
    <2>3. QED
      BY <1>5, <2>2
  <1>11. Computed(head.leaves, t)
    BY <1>1, <1>2, AcceptedIsComputed DEF t
  <1>12. conduct' = "sound" => Follows(head.leaves, t)
    <2> SUFFICES ASSUME conduct' = "sound" PROVE Follows(head.leaves, t)
      OBVIOUS
    <2>1. ~Divergent(head, tx)
      BY <1>1
    <2>2. SignedTransaction(tx)
      BY FraudAssumption
    <2>3. QED
      BY <1>1, <1>2, <2>1, <2>2, AcceptedFollows DEF t
  <1>13. ASSUME NEW n \in DOMAIN Chain', NEW i \in DOMAIN Chain'[n]
         PROVE  /\ Computed(RootBefore(n, i)', Chain'[n][i])
                /\ conduct' = "sound" => Follows(RootBefore(n, i)', Chain'[n][i])
    <2>1. CASE n = l /\ i = p
      BY <1>7, <1>8, <1>10, <1>11, <1>12, <2>1
    <2>2. CASE ~(n = l /\ i = p)
      <3>1. n \in DOMAIN Chain /\ i \in DOMAIN Chain[n] /\ Chain'[n][i] = Chain[n][i]
        <4>1. CASE n = l
          BY <1>0, <1>6, <1>7, <1>8, <2>2, <4>1
        <4>2. CASE n # l
          <5>1. n \in DOMAIN posted
            BY <1>0, <1>6, <1>7, <4>2
          <5>2. QED
            BY <1>6, <1>7, <5>1
        <4>3. QED
          BY <4>1, <4>2
      <3>2. i \in 1..(Len(Chain[n]) + 1)
        BY <1>6, <3>1
      <3>3. RootBefore(n, i)' = RootBefore(n, i)
        BY <1>9, <3>1, <3>2
      <3>4. conduct' = "sound" => conduct = "sound"
        BY <1>1
      <3>5. QED
        BY <1>5, <3>1, <3>3, <3>4
    <2>3. QED
      BY <2>1, <2>2
  <1>14. head'.leaves = RootBefore(Len(posted) + 1, Len(pending) + 1)'
    <2>1. Len(posted') + 1 = l /\ Len(pending') + 1 > 1
          /\ (Len(pending') + 1) - 1 = p
      BY <1>0, <1>1, <1>8
    <2>2. Chain'[l][p] = t
      BY <1>7, <1>8
    <2>3. t.root = head'.leaves
      BY <1>1, <1>2, AcceptedTransition DEF t
    <2>4. RootBefore(Len(posted) + 1, Len(pending) + 1)'
            = Chain'[Len(posted') + 1][(Len(pending') + 1) - 1].root
      BY <2>1 DEF RootBefore
    <2>5. QED
      BY <2>1, <2>2, <2>3, <2>4
  <1>15. QED
    BY <1>13, <1>14

LEMMA ComputedPost ==
  ASSUME ChainType, ChainType', ComputedChain, Post
  PROVE  ComputedChain'
  <1> HIDE DEF Transitions
  <1>1. /\ pending # <<>> /\ posted' = Append(posted, pending)
        /\ pending' = <<>> /\ UNCHANGED <<head, conduct>>
    BY DEF Post, SubmitBlock
  <1>0. PICK l, p : l = Len(posted) + 1 /\ p = Len(pending) + 1
    OBVIOUS
  <1>2. SUFFICES ASSUME conduct # "false"
                 PROVE  /\ \A n \in DOMAIN Chain' : \A i \in DOMAIN Chain'[n] :
                              /\ Computed(RootBefore(n, i)', Chain'[n][i])
                              /\ conduct' = "sound" =>
                                    Follows(RootBefore(n, i)', Chain'[n][i])
                        /\ head'.leaves =
                              RootBefore(Len(posted) + 1, Len(pending) + 1)'
    BY <1>1 DEF ComputedChain
  <1>3. /\ \A n \in DOMAIN Chain : \A i \in DOMAIN Chain[n] :
              /\ Computed(RootBefore(n, i), Chain[n][i])
              /\ conduct = "sound" => Follows(RootBefore(n, i), Chain[n][i])
        /\ head.leaves = RootBefore(l, p)
    BY <1>0, <1>2 DEF ComputedChain
  <1>4. /\ DOMAIN Chain = 1..l /\ Chain[l] = pending
        /\ \A n \in DOMAIN posted : n \in DOMAIN Chain /\ Chain[n] = posted[n]
        /\ \A n \in DOMAIN Chain : n \in Nat /\ n >= 1 /\ Chain[n] \in Seq(Transitions)
        /\ DOMAIN posted = 1..Len(posted) /\ Len(posted) \in Nat
    BY <1>0, ChainPlaces, ChainFacts
  <1>5. /\ posted \in Seq(Seq(Transitions)) /\ pending \in Seq(Transitions)
    BY DEF ChainType
  <1>6. /\ Len(posted') = l /\ DOMAIN posted' = 1..l
        /\ \A n \in DOMAIN posted : posted'[n] = posted[n]
        /\ posted'[l] = pending
    BY <1>0, <1>1, <1>5
  <1>7. /\ DOMAIN Chain' = 1..(l + 1) /\ Chain'[l + 1] = <<>>
        /\ \A n \in 1..l : Chain'[n] = Chain[n]
    <2> DEFINE b == posted'
    <2>1. /\ b \in Seq(Seq(Transitions)) /\ <<>> \in Seq(Transitions)
          /\ Chain' = Append(b, <<>>)
      BY <1>1 DEF ChainType, Chain
    <2>2. /\ Len(b) = l /\ \A n \in DOMAIN posted : b[n] = posted[n]
          /\ b[l] = pending /\ DOMAIN b = 1..l
      BY <1>6
    <2> HIDE DEF b
    <2>3. /\ DOMAIN Chain' = 1..(l + 1) /\ Chain'[l + 1] = <<>>
          /\ \A n \in 1..l : Chain'[n] = b[n]
      BY <2>1, <2>2, AppendedPlaces
    <2>4. \A n \in 1..l : n \in DOMAIN posted \/ n = l
      BY <1>0, <1>4
    <2>5. QED
      BY <1>4, <2>2, <2>3, <2>4
  <1>8. \A n \in DOMAIN Chain : \A i \in 1..(Len(Chain[n]) + 1) :
           RootBefore(n, i)' = RootBefore(n, i)
    <2>1. l \in 1..l
      BY <1>0, <1>4
    <2>2. /\ DOMAIN Chain \subseteq DOMAIN Chain'
          /\ \A n \in DOMAIN posted : Chain'[n] = Chain[n]
          /\ \A i \in DOMAIN pending : Chain'[Len(posted) + 1][i] = pending[i]
      BY <1>0, <1>4, <1>7, <2>1
    <2>3. QED
      BY <2>2, RootsStay
  <1>9. ASSUME NEW n \in DOMAIN Chain', NEW i \in DOMAIN Chain'[n]
        PROVE  /\ Computed(RootBefore(n, i)', Chain'[n][i])
               /\ conduct' = "sound" => Follows(RootBefore(n, i)', Chain'[n][i])
    <2>1. n # l + 1
      BY <1>7
    <2>2. n \in 1..l
      BY <1>0, <1>4, <1>7, <2>1
    <2>3. n \in DOMAIN Chain /\ Chain'[n] = Chain[n] /\ i \in DOMAIN Chain[n]
      BY <1>4, <1>7, <2>2
    <2>4. i \in 1..(Len(Chain[n]) + 1)
      BY <1>4, <2>3
    <2>5. RootBefore(n, i)' = RootBefore(n, i)
      BY <1>8, <2>3, <2>4
    <2>6. QED
      BY <1>1, <1>3, <2>3, <2>5
  <1>10. head'.leaves = RootBefore(Len(posted) + 1, Len(pending) + 1)'
    <2>1. /\ Len(pending) \in Nat /\ Len(pending) >= 1
      BY <1>1, <1>5
    <2>2. /\ Len(posted') + 1 > 1 /\ ~(Len(pending') + 1 > 1)
          /\ (Len(posted') + 1) - 1 = l /\ l \in 1..l
      BY <1>0, <1>1, <1>4, <1>6
    <2>3. head.leaves = Chain[l][Len(pending)].root
      <3>1. p > 1 /\ p - 1 = Len(pending)
        BY <1>0, <2>1
      <3>2. QED
        BY <1>3, <3>1 DEF RootBefore
    <2>4. RootBefore(Len(posted) + 1, Len(pending) + 1)'
            = Last(Chain'[(Len(posted') + 1) - 1]).root
      BY <2>2 DEF RootBefore
    <2>5. Last(Chain'[l]) = Chain[l][Len(pending)]
      BY <1>4, <1>7, <2>2 DEF Last
    <2>6. QED
      BY <1>1, <2>2, <2>3, <2>4, <2>5
  <1>11. QED
    BY <1>9, <1>10

LEMMA ComputedStep ==
  ASSUME FraudType, FraudType', ComputedChain, [Next]_vars
  PROVE  ComputedChain'
  <1>1. \/ \E tx \in Transactions : Aggregate(tx) \/ Cheat(tx)
        \/ Post
        \/ UNCHANGED <<head, posted, pending, conduct>>
    <2>1. ASSUME \/ OutOfOrder \/ CheckNextTransition \/ CheckFails
                 \/ DetectFraud \/ BlockChecked \/ Saved \/ Restart
          PROVE  UNCHANGED <<head, posted, pending, conduct>>
      BY <2>1 DEF OutOfOrder, CheckNextTransition, CheckFails, DetectFraud,
                  BlockChecked, Saved, Restart
    <2>2. ASSUME NEW n \in DOMAIN posted, Receive(n)
          PROVE  UNCHANGED <<head, posted, pending, conduct>>
      BY <2>2 DEF Receive
    <2>3. ASSUME NEW pre, NEW t, Challenge(pre, t)
          PROVE  UNCHANGED <<head, posted, pending, conduct>>
      BY <2>3 DEF Challenge
    <2>4. UNCHANGED vars => UNCHANGED <<head, posted, pending, conduct>>
      BY DEF vars
    <2>5. QED
      BY <2>1, <2>2, <2>3, <2>4 DEF Next
  <1>2. ChainType /\ ChainType'
    BY DEF FraudType
  <1>3. ASSUME NEW tx \in Transactions, Cheat(tx)
        PROVE  ComputedChain'
    <2>1. conduct' = "false"
      BY <1>3 DEF Cheat
    <2>2. QED
      BY <2>1 DEF ComputedChain
  <1>4. ASSUME UNCHANGED <<head, posted, pending, conduct>>
        PROVE  ComputedChain'
    BY <1>4 DEF ComputedChain, RootBefore, Chain
  <1>5. QED
    BY <1>1, <1>2, <1>3, <1>4, ComputedAggregate, ComputedPost

-----------------------------------------------------------------------------
(***************************************************************************)
(* Whatever is on the chain after a root was made by the machine that led  *)
(* to the root.                                                            *)
(***************************************************************************)
LEMMA ClaimedOfHead ==
  ASSUME FraudType, NEW tx \in Transactions, tx.sender \in DOMAIN head.keys,
         NEW t,
         \/ Accepted(head, tx) /\ t = TransitionOf(head, tx)
         \/ t = [TransitionOf(head, tx) EXCEPT !.root = head.leaves]
  PROVE  Claimed(head.leaves, t)
  <1> DEFINE m == MachineOf(head.leaves)
  <1>1. MachineShape(head) /\ head = m
    BY MachineFromLeaves DEF FraudType
  <1> HIDE DEF m
  <1>2. /\ MachineShape(m) /\ tx.sender \in DOMAIN m.keys
        /\ \/ Accepted(m, tx) /\ t = TransitionOf(m, tx)
           \/ t = [TransitionOf(m, tx) EXCEPT !.root = head.leaves]
    BY <1>1
  <1>3. QED
    BY <1>2 DEF Claimed, m

\* What the aggregator appends, if it decodes.
LEMMA ClaimedNext ==
  ASSUME FraudType, NEW tx \in Transactions, Aggregate(tx) \/ Cheat(tx)
  PROVE  \E t \in Transitions :
            /\ pending' = Append(pending, t) /\ posted' = posted
            /\ Decodes(t) => Claimed(head.leaves, t) /\ head'.leaves = t.root
  <1> HIDE DEF Transitions
  <1>1. PICK t \in Transitions :
            /\ pending' = Append(pending, t) /\ posted' = posted
            /\ \/ /\ Accepted(head, tx) /\ t = TransitionOf(head, tx)
                  /\ head' = ApplyTransaction(head, tx)
               \/ t = Garbled
               \/ /\ tx.sender \in DOMAIN head.keys /\ head' = head
                  /\ t = [TransitionOf(head, tx) EXCEPT !.root = head.leaves]
    <2>1. PICK t : /\ pending' = Append(pending, t) /\ posted' = posted
                   /\ \/ /\ Accepted(head, tx) /\ t = TransitionOf(head, tx)
                         /\ head' = ApplyTransaction(head, tx)
                      \/ t = Garbled
                      \/ /\ tx.sender \in DOMAIN head.keys /\ head' = head
                         /\ t = [TransitionOf(head, tx) EXCEPT !.root = head.leaves]
      BY DEF Aggregate, Cheat, FalseTransitions
    <2>2. MachineShape(head)
      BY DEF FraudType
    <2>3. head.leaves \in Roots
      BY <2>2, ShapeFacts, MachineFacts
    <2>4. Garbled \in Transitions
      BY DEF Transitions
    <2>5. t \in Transitions
      BY <2>1, <2>2, <2>3, <2>4, AcceptedTransition, TransitionShape
    <2>6. QED
      BY <2>1, <2>5
  <1>2. MachineShape(head) /\ SignedTransaction(tx)
    BY FraudAssumption DEF FraudType
  <1>3. CASE t = Garbled
    BY <1>1, <1>3 DEF Decodes, Garbled
  <1>4. CASE /\ Accepted(head, tx) /\ t = TransitionOf(head, tx)
             /\ head' = ApplyTransaction(head, tx)
    <2>1. t.root = head'.leaves
      BY <1>2, <1>4, AcceptedTransition
    <2>2. tx.sender \in DOMAIN head.keys
      BY <1>4 DEF Accepted, Sound
    <2>3. QED
      BY <1>1, <1>4, <2>1, <2>2, ClaimedOfHead
  <1>5. CASE /\ tx.sender \in DOMAIN head.keys /\ head' = head
             /\ t = [TransitionOf(head, tx) EXCEPT !.root = head.leaves]
    <2>1. t.root = head.leaves
      <3>1. PICK leaves, from, to :
               TransitionOf(head, tx) \in
                  {SwapTransition(leaves, from, tx),
                   TransferTransition(leaves, from, to, tx),
                   CreateAndTransferTransition(leaves, from, to, tx)}
        BY <1>2, <1>5, TransitionFields
      <3> DEFINE u == TransitionOf(head, tx)
      <3> HIDE DEF u
      <3>2. [u EXCEPT !.root = head.leaves].root = head.leaves
        BY <3>1 DEF SwapTransition, TransferTransition,
                    CreateAndTransferTransition, u
      <3>3. QED
        BY <1>5, <3>2 DEF u
    <2>2. QED
      BY <1>1, <1>5, <2>1, ClaimedOfHead
  <1>6. QED
    BY <1>1, <1>3, <1>4, <1>5

LEMMA ClaimedAppend ==
  ASSUME ChainType, ChainType', ClaimedChain, NEW t \in Transitions,
         pending' = Append(pending, t), posted' = posted,
         Decodes(t) => Claimed(head.leaves, t) /\ head'.leaves = t.root
  PROVE  ClaimedChain'
  <1> HIDE DEF Transitions
  <1>1. /\ posted \in Seq(Seq(Transitions)) /\ pending \in Seq(Transitions)
    BY DEF ChainType
  <1>0. PICK l, p : l = Len(posted) + 1 /\ p = Len(pending) + 1
    OBVIOUS
  <1>2. /\ \A n \in DOMAIN Chain : \A i \in DOMAIN Chain[n] :
              Rooted(n, i) /\ Decodes(Chain[n][i]) =>
                 Claimed(RootBefore(n, i), Chain[n][i])
        /\ Rooted(l, p) => head.leaves = RootBefore(l, p)
    BY <1>0 DEF ClaimedChain
  <1>3. SUFFICES
          /\ \A n \in DOMAIN Chain' : \A i \in DOMAIN Chain'[n] :
                Rooted(n, i)' /\ Decodes(Chain'[n][i]) =>
                   Claimed(RootBefore(n, i)', Chain'[n][i])
          /\ Rooted(Len(posted) + 1, Len(pending) + 1)' =>
                head'.leaves = RootBefore(Len(posted) + 1, Len(pending) + 1)'
    BY DEF ClaimedChain
  <1>6. /\ DOMAIN Chain = 1..l /\ Chain[l] = pending
        /\ \A n \in DOMAIN posted : n \in DOMAIN Chain /\ Chain[n] = posted[n]
        /\ \A n \in DOMAIN Chain : n \in Nat /\ n >= 1 /\ Chain[n] \in Seq(Transitions)
        /\ DOMAIN posted = 1..Len(posted) /\ Len(posted) \in Nat
    BY <1>0, ChainPlaces, ChainFacts
  <1>7. /\ DOMAIN Chain' = 1..l /\ Chain'[l] = pending'
        /\ \A n \in DOMAIN posted : Chain'[n] = posted[n]
    <2> DEFINE q == pending'
    <2>1. q \in Seq(Transitions) /\ Chain' = Append(posted, q)
      BY DEF ChainType, Chain
    <2> HIDE DEF q
    <2>2. /\ DOMAIN Chain' = 1..l /\ Chain'[l] = q
          /\ \A n \in DOMAIN posted : Chain'[n] = posted[n]
      BY <1>0, <1>1, <2>1, AppendedPlaces
    <2>3. QED
      BY <2>2 DEF q
  <1>8. /\ DOMAIN pending' = 1..p /\ pending'[p] = t /\ Len(pending') = p
        /\ DOMAIN pending = 1..Len(pending) /\ Len(pending) \in Nat
        /\ \A i \in DOMAIN pending : pending'[i] = pending[i]
    BY <1>0, <1>1
  <1>9. \A n \in DOMAIN Chain : \A i \in 1..(Len(Chain[n]) + 1) :
           /\ RootBefore(n, i)' = RootBefore(n, i)
           /\ Rooted(n, i)' <=> Rooted(n, i)
    <2>1. /\ DOMAIN Chain \subseteq DOMAIN Chain'
          /\ \A n \in DOMAIN posted : Chain'[n] = Chain[n]
          /\ \A i \in DOMAIN pending : Chain'[Len(posted) + 1][i] = pending[i]
      BY <1>0, <1>6, <1>7, <1>8
    <2>2. QED
      BY <2>1, RootsStay
  <1>10. /\ RootBefore(l, p)' = RootBefore(l, p)
         /\ Rooted(l, p)' <=> Rooted(l, p)
    <2>1. l \in DOMAIN Chain /\ p \in 1..(Len(Chain[l]) + 1)
      BY <1>0, <1>6, <1>8
    <2>2. QED
      BY <1>9, <2>1
  <1>11. ASSUME NEW n \in DOMAIN Chain', NEW i \in DOMAIN Chain'[n],
                Rooted(n, i)', Decodes(Chain'[n][i])
         PROVE  Claimed(RootBefore(n, i)', Chain'[n][i])
    <2>1. CASE n = l /\ i = p
      <3>1. Chain'[n][i] = t
        BY <1>7, <1>8, <2>1
      <3>2. Claimed(head.leaves, t)
        BY <1>11, <3>1
      <3>3. head.leaves = RootBefore(n, i)'
        BY <1>2, <1>10, <1>11, <2>1
      <3>4. QED
        BY <3>1, <3>2, <3>3
    <2>2. CASE ~(n = l /\ i = p)
      <3>1. n \in DOMAIN Chain /\ i \in DOMAIN Chain[n] /\ Chain'[n][i] = Chain[n][i]
        <4>1. CASE n = l
          BY <1>0, <1>6, <1>7, <1>8, <2>2, <4>1
        <4>2. CASE n # l
          <5>1. n \in DOMAIN posted
            BY <1>0, <1>6, <1>7, <4>2
          <5>2. QED
            BY <1>6, <1>7, <5>1
        <4>3. QED
          BY <4>1, <4>2
      <3>2. i \in 1..(Len(Chain[n]) + 1)
        BY <1>6, <3>1
      <3>3. RootBefore(n, i)' = RootBefore(n, i) /\ Rooted(n, i)
        BY <1>9, <1>11, <3>1, <3>2
      <3>4. QED
        BY <1>2, <1>11, <3>1, <3>3
    <2>3. QED
      BY <2>1, <2>2
  <1>14. Rooted(Len(posted) + 1, Len(pending) + 1)' =>
            head'.leaves = RootBefore(Len(posted) + 1, Len(pending) + 1)'
    <2>1. Len(posted') + 1 = l /\ Len(pending') + 1 > 1
          /\ (Len(pending') + 1) - 1 = p
      BY <1>0, <1>8
    <2>2. Chain'[l][p] = t
      BY <1>7, <1>8
    <2>3. RootBefore(Len(posted) + 1, Len(pending) + 1)'
            = Chain'[Len(posted') + 1][(Len(pending') + 1) - 1].root
      BY <2>1 DEF RootBefore
    <2>4. Rooted(Len(posted) + 1, Len(pending) + 1)'
            <=> Decodes(Chain'[Len(posted') + 1][(Len(pending') + 1) - 1])
      BY <2>1 DEF Rooted
    <2>5. QED
      BY <2>1, <2>2, <2>3, <2>4
  <1>15. QED
    BY <1>11, <1>14

LEMMA ClaimedPost ==
  ASSUME ChainType, ChainType', ClaimedChain, Post
  PROVE  ClaimedChain'
  <1> HIDE DEF Transitions
  <1>1. /\ pending # <<>> /\ posted' = Append(posted, pending)
        /\ pending' = <<>> /\ UNCHANGED head
    BY DEF Post, SubmitBlock
  <1>0. PICK l, p : l = Len(posted) + 1 /\ p = Len(pending) + 1
    OBVIOUS
  <1>2. SUFFICES
          /\ \A n \in DOMAIN Chain' : \A i \in DOMAIN Chain'[n] :
                Rooted(n, i)' /\ Decodes(Chain'[n][i]) =>
                   Claimed(RootBefore(n, i)', Chain'[n][i])
          /\ Rooted(Len(posted) + 1, Len(pending) + 1)' =>
                head'.leaves = RootBefore(Len(posted) + 1, Len(pending) + 1)'
    BY DEF ClaimedChain
  <1>3. /\ \A n \in DOMAIN Chain : \A i \in DOMAIN Chain[n] :
              Rooted(n, i) /\ Decodes(Chain[n][i]) =>
                 Claimed(RootBefore(n, i), Chain[n][i])
        /\ Rooted(l, p) => head.leaves = RootBefore(l, p)
    BY <1>0 DEF ClaimedChain
  <1>4. /\ DOMAIN Chain = 1..l /\ Chain[l] = pending
        /\ \A n \in DOMAIN posted : n \in DOMAIN Chain /\ Chain[n] = posted[n]
        /\ \A n \in DOMAIN Chain : n \in Nat /\ n >= 1 /\ Chain[n] \in Seq(Transitions)
        /\ DOMAIN posted = 1..Len(posted) /\ Len(posted) \in Nat
    BY <1>0, ChainPlaces, ChainFacts
  <1>5. /\ posted \in Seq(Seq(Transitions)) /\ pending \in Seq(Transitions)
    BY DEF ChainType
  <1>6. /\ Len(posted') = l /\ DOMAIN posted' = 1..l
        /\ \A n \in DOMAIN posted : posted'[n] = posted[n]
        /\ posted'[l] = pending
    BY <1>0, <1>1, <1>5
  <1>7. /\ DOMAIN Chain' = 1..(l + 1) /\ Chain'[l + 1] = <<>>
        /\ \A n \in 1..l : Chain'[n] = Chain[n]
    <2> DEFINE b == posted'
    <2>1. /\ b \in Seq(Seq(Transitions)) /\ <<>> \in Seq(Transitions)
          /\ Chain' = Append(b, <<>>)
      BY <1>1 DEF ChainType, Chain
    <2>2. /\ Len(b) = l /\ \A n \in DOMAIN posted : b[n] = posted[n]
          /\ b[l] = pending /\ DOMAIN b = 1..l
      BY <1>6
    <2> HIDE DEF b
    <2>3. /\ DOMAIN Chain' = 1..(l + 1) /\ Chain'[l + 1] = <<>>
          /\ \A n \in 1..l : Chain'[n] = b[n]
      BY <2>1, <2>2, AppendedPlaces
    <2>4. \A n \in 1..l : n \in DOMAIN posted \/ n = l
      BY <1>0, <1>4
    <2>5. QED
      BY <1>4, <2>2, <2>3, <2>4
  <1>8. \A n \in DOMAIN Chain : \A i \in 1..(Len(Chain[n]) + 1) :
           /\ RootBefore(n, i)' = RootBefore(n, i)
           /\ Rooted(n, i)' <=> Rooted(n, i)
    <2>1. l \in 1..l
      BY <1>0, <1>4
    <2>2. /\ DOMAIN Chain \subseteq DOMAIN Chain'
          /\ \A n \in DOMAIN posted : Chain'[n] = Chain[n]
          /\ \A i \in DOMAIN pending : Chain'[Len(posted) + 1][i] = pending[i]
      BY <1>0, <1>4, <1>7, <2>1
    <2>3. QED
      BY <2>2, RootsStay
  <1>9. ASSUME NEW n \in DOMAIN Chain', NEW i \in DOMAIN Chain'[n],
               Rooted(n, i)', Decodes(Chain'[n][i])
        PROVE  Claimed(RootBefore(n, i)', Chain'[n][i])
    <2>1. n # l + 1
      BY <1>7
    <2>2. n \in 1..l
      BY <1>0, <1>4, <1>7, <2>1
    <2>3. n \in DOMAIN Chain /\ Chain'[n] = Chain[n] /\ i \in DOMAIN Chain[n]
      BY <1>4, <1>7, <2>2
    <2>4. i \in 1..(Len(Chain[n]) + 1)
      BY <1>4, <2>3
    <2>5. RootBefore(n, i)' = RootBefore(n, i) /\ Rooted(n, i)
      BY <1>8, <1>9, <2>3, <2>4
    <2>6. QED
      BY <1>3, <1>9, <2>3, <2>5
  <1>10. ASSUME Rooted(Len(posted) + 1, Len(pending) + 1)'
         PROVE  head'.leaves = RootBefore(Len(posted) + 1, Len(pending) + 1)'
    <2>1. /\ Len(pending) \in Nat /\ Len(pending) >= 1
          /\ p > 1 /\ p - 1 = Len(pending)
      BY <1>0, <1>1, <1>5
    <2>2. /\ Len(posted') + 1 > 1 /\ ~(Len(pending') + 1 > 1)
          /\ (Len(posted') + 1) - 1 = l /\ l \in 1..l
      BY <1>0, <1>1, <1>4, <1>6
    <2>5. Last(Chain'[l]) = Chain[l][Len(pending)]
      BY <1>4, <1>7, <2>2 DEF Last
    <2>3. Rooted(l, p)
      <3>1. Decodes(Last(Chain'[(Len(posted') + 1) - 1]))
        BY <1>10, <2>2 DEF Rooted
      <3>2. QED
        BY <2>1, <2>2, <2>5, <3>1 DEF Rooted
    <2>4. head.leaves = Chain[l][Len(pending)].root
      BY <1>3, <2>1, <2>3 DEF RootBefore
    <2>6. RootBefore(Len(posted) + 1, Len(pending) + 1)'
            = Last(Chain'[(Len(posted') + 1) - 1]).root
      BY <2>2 DEF RootBefore
    <2>7. QED
      BY <1>1, <2>2, <2>4, <2>5, <2>6
  <1>11. QED
    BY <1>9, <1>10

LEMMA ClaimedStep ==
  ASSUME FraudType, FraudType', ClaimedChain, [Next]_vars
  PROVE  ClaimedChain'
  <1>1. \/ \E tx \in Transactions : Aggregate(tx) \/ Cheat(tx)
        \/ Post
        \/ UNCHANGED <<head, posted, pending>>
    <2>1. ASSUME \/ OutOfOrder \/ CheckNextTransition \/ CheckFails
                 \/ DetectFraud \/ BlockChecked \/ Saved \/ Restart
          PROVE  UNCHANGED <<head, posted, pending>>
      BY <2>1 DEF OutOfOrder, CheckNextTransition, CheckFails, DetectFraud,
                  BlockChecked, Saved, Restart
    <2>2. ASSUME NEW n \in DOMAIN posted, Receive(n)
          PROVE  UNCHANGED <<head, posted, pending>>
      BY <2>2 DEF Receive
    <2>3. ASSUME NEW pre, NEW t, Challenge(pre, t)
          PROVE  UNCHANGED <<head, posted, pending>>
      BY <2>3 DEF Challenge
    <2>4. UNCHANGED vars => UNCHANGED <<head, posted, pending>>
      BY DEF vars
    <2>5. QED
      BY <2>1, <2>2, <2>3, <2>4 DEF Next
  <1>2. ChainType /\ ChainType'
    BY DEF FraudType
  <1>3. ASSUME NEW tx \in Transactions, Aggregate(tx) \/ Cheat(tx)
        PROVE  ClaimedChain'
    <2> HIDE DEF Transitions
    <2>1. PICK t \in Transitions :
            /\ pending' = Append(pending, t) /\ posted' = posted
            /\ Decodes(t) => Claimed(head.leaves, t) /\ head'.leaves = t.root
      BY <1>3, ClaimedNext
    <2>2. QED
      BY <1>2, <2>1, ClaimedAppend
  <1>4. ASSUME UNCHANGED <<head, posted, pending>>
        PROVE  ClaimedChain'
    BY <1>4 DEF ClaimedChain, RootBefore, Rooted, Chain
  <1>5. QED
    BY <1>1, <1>2, <1>3, <1>4, ClaimedPost

-----------------------------------------------------------------------------
(***************************************************************************)
(* No call prunes what a sound aggregator posted.                          *)
(***************************************************************************)
LEMMA PredecessorRoot ==
  ASSUME ChainType, NEW n \in DOMAIN posted, NEW i \in DOMAIN posted[n],
         HasPredecessor(n, i)
  PROVE  Predecessor(n, i).transition.root = RootBefore(n, i)
  <1>1. /\ n \in DOMAIN Chain /\ Chain[n] = posted[n]
        /\ n > 1 => n - 1 \in DOMAIN posted /\ Chain[n - 1] = posted[n - 1]
    BY ChainPlaces
  <1>2. CASE i > 1
    BY <1>1, <1>2 DEF Predecessor, Element, IncludedTransition, RootBefore
  <1>3. CASE ~(i > 1)
    <2>1. n > 1
      BY <1>3 DEF HasPredecessor
    <2>2. QED
      BY <1>1, <1>3, <2>1 DEF Predecessor, Element, IncludedTransition, RootBefore, Last
  <1>4. QED
    BY <1>2, <1>3

LEMMA NoFraud ==
  ASSUME FraudType, ComputedChain, conduct = "sound", NEW n, NEW i
  PROVE  ~Fraudulent(n, i)
  <1> SUFFICES ASSUME Fraudulent(n, i) PROVE FALSE
    OBVIOUS
  <1>1. ChainType
    BY DEF FraudType
  <1>2. /\ n \in DOMAIN posted /\ i \in DOMAIN posted[n] /\ HasPredecessor(n, i)
        /\ ~Follows(Predecessor(n, i).transition.root, posted[n][i])
    BY DEF Fraudulent
  <1>3. ~Follows(RootBefore(n, i), posted[n][i])
    BY <1>1, <1>2, PredecessorRoot
  <1>4. n \in DOMAIN Chain /\ Chain[n] = posted[n]
    BY <1>1, <1>2, ChainPlaces
  <1>5. Follows(RootBefore(n, i), Chain[n][i])
    BY <1>2, <1>4 DEF ComputedChain
  <1>6. QED
    BY <1>3, <1>4, <1>5

LEMMA StandsStep ==
  ASSUME HeightsAgree, FraudType, ComputedChain, HonestChainStands,
         [Next]_vars
  PROVE  HonestChainStands'
  <1> SUFFICES ASSUME conduct' = "sound", ~misled'
               PROVE  pruned' = {}
    BY DEF HonestChainStands
  <1>1. conduct = "sound"
    <2>1. \/ \E tx \in Transactions : Aggregate(tx) \/ Cheat(tx)
          \/ UNCHANGED conduct
      BY ZenonT(40) DEF Next, vars, Post, Receive, OutOfOrder, CheckNextTransition,
             CheckFails, DetectFraud, BlockChecked, Saved, Restart, Challenge
    <2>2. QED
      BY <2>1 DEF Aggregate, Cheat
  <1>2. ~misled => pruned = {}
    BY <1>1 DEF HonestChainStands
  <1>3. ASSUME NEW pre, NEW t, NEW slots, t.block \in Int,
               ProveTransitionInvalid(pre, t, slots)
        PROVE  UNCHANGED <<pruned, misled>>
    <2>1. ChainType
      BY DEF FraudType
    <2>2. ASSUME ProvesInvalid(pre, t, slots) PROVE FALSE
      <3>1. AtItsPlace(pre) /\ AtItsPlace(t)
        BY <1>3, <2>2 DEF ProveTransitionInvalid
      <3>2. QED
        BY <1>1, <1>3, <2>1, <2>2, <3>1, NoFraud, InvalidIsFraudulent
    <2>3. QED
      BY <1>3, <2>2 DEF ProveTransitionInvalid
  <1>4. UNCHANGED <<pruned, misled>>
    BY <1>3, WhatPrunes
  <1>5. QED
    BY <1>2, <1>4

-----------------------------------------------------------------------------
(***************************************************************************)
(* A guard that was not restarted follows the chain.                       *)
(***************************************************************************)
Going == restarts = 0 /\ guard.doing \in {"waiting", "validating", "saving"}

LEMMA AtPosition ==
  ASSUME FraudType, GuardShape, ValidatorFollowsChain, restarts = 0, InBlock
  PROVE  /\ MachineShape(local)
         /\ local.leaves = RootBefore(guard.block, position.transitionIndex + 1)
  <1> DEFINE n == guard.block
             i == position.transitionIndex + 1
  <1>1. Going /\ guard.doing = "validating"
    BY DEF Going, InBlock
  <1>2. MachineShape(local)
    BY <1>1 DEF GuardShape, Going
  <1>3. /\ n \in DOMAIN posted /\ n \in Nat /\ n >= 1
        /\ n = guard.lastBlockValidated + 1
        /\ i \in Nat /\ i >= 1 /\ position.transitionIndex = i - 1
    BY NextIsOnChain DEF FraudType, GuardType, Positions
  <1>4. IF position.transitionIndex > 0
        THEN local.leaves = posted[n][position.transitionIndex].root
        ELSE local.leaves = IF guard.lastBlockValidated = 0
                            THEN GenesisMachine.leaves
                            ELSE Last(posted[guard.lastBlockValidated]).root
    BY <1>1 DEF ValidatorFollowsChain, Going
  <1>5. /\ Chain[n] = posted[n]
        /\ n > 1 => Chain[n - 1] = posted[n - 1]
    BY <1>3, ChainPlaces DEF FraudType
  <1>6. guard.lastBlockValidated = n - 1
    BY <1>3 DEF FraudType, GuardType, Guards
  <1>7. local.leaves = RootBefore(n, i)
    <2>1. CASE position.transitionIndex > 0
      <3>1. i > 1 /\ i - 1 = position.transitionIndex
        BY <1>3, <2>1
      <3> HIDE DEF n, i
      <3>2. QED
        BY <1>4, <1>5, <2>1, <3>1 DEF RootBefore
    <2>2. CASE ~(position.transitionIndex > 0)
      <3>1. ~(i > 1) /\ (n > 1 <=> n - 1 # 0)
        BY <1>3, <2>2
      <3> HIDE DEF n, i
      <3>2. QED
        BY <1>4, <1>5, <1>6, <2>2, <3>1 DEF RootBefore
    <2>3. QED
      BY <2>1, <2>2
  <1>8. QED
    BY <1>2, <1>7

\* What the guard checks next, of an aggregator that posted nothing false,
\* is what the machine makes of a transaction that it accepts.
LEMMA NextIsComputed ==
  ASSUME FraudType, ComputedChain, GuardShape, ValidatorFollowsChain,
         conduct # "false", restarts = 0, InBlock
  PROVE  /\ MachineShape(local)
         /\ \E tx \in Transactions : /\ Accepted(local, tx)
                                     /\ NextTransition = TransitionOf(local, tx)
  <1> DEFINE n == guard.block
             i == position.transitionIndex + 1
             r == RootBefore(n, i)
  <1>1. MachineShape(local) /\ local.leaves = r
    BY AtPosition
  <1>2. /\ n \in DOMAIN posted /\ i \in DOMAIN posted[n]
        /\ NextTransition = posted[n][i]
    BY NextIsOnChain
  <1>3. n \in DOMAIN Chain /\ Chain[n] = posted[n]
    BY <1>2, ChainPlaces DEF FraudType
  <1>4. Computed(r, Chain[n][i])
    BY <1>2, <1>3 DEF ComputedChain
  <1> HIDE DEF n, i, r
  <1>5. local = MachineOf(r)
    BY <1>1, MachineFromLeaves
  <1>6. QED
    BY <1>1, <1>2, <1>3, <1>4, <1>5 DEF Computed

LEMMA NotAccused ==
  ASSUME FraudType, ComputedChain, GuardShape, ValidatorFollowsChain,
         conduct # "false", restarts = 0, InBlock
  PROVE  ~FraudIn(NextTransition) /\ ~Unsupported(NextTransition)
  <1>1. MachineShape(local)
    BY NextIsComputed
  <1>2. PICK tx \in Transactions : Accepted(local, tx)
                                   /\ NextTransition = TransitionOf(local, tx)
    BY NextIsComputed
  <1>3. PICK t : t = NextTransition
    OBVIOUS
  <1>4. TransactionOf(t) = tx /\ ~Unsupported(t)
    BY <1>1, <1>2, <1>3, TransactionIsRecovered
  <1>5. ApplyTransaction(local, tx).leaves = t.root
    BY <1>1, <1>2, <1>3, AcceptedTransition
  <1>6. ~FraudIn(t)
    BY <1>2, <1>4, <1>5 DEF FraudIn, Accepted, Agrees
  <1>7. QED
    BY <1>3, <1>4, <1>6

-----------------------------------------------------------------------------
(***************************************************************************)
(* The guard and the contract take the same transitions for fraud.         *)
(***************************************************************************)
\* A credit of part of the range is seen.
LEMMA CreditIsSeen ==
  ASSUME NEW leaf \in States, NEW k \in Tokens, NEW n \in 1..(Width - 1)
  PROVE  Credited(leaf, k, n).balances[k] # leaf.balances[k]
  <1>1. leaf.balances[k] \in 0..(Width - 1) /\ n \in 0..(Width - 1)
    BY DEF States
  <1>2. PICK x : x = leaf.balances[k]
    OBVIOUS
  <1>3. x \in 0..(Width - 1) /\ Width \in Nat \ {0}
    BY <1>1, <1>2, TransactionsAssumption
  <1>4. (x + n) % Width = IF x + n < Width THEN x + n ELSE x + n - Width
    BY <1>1, <1>3, Wraps
  <1>5. (x + n) % Width # x
    BY <1>3, <1>4
  <1>6. Credited(leaf, k, n).balances[k] = (x + n) % Width
    BY <1>2, CreditedType, n \in Int
  <1>7. QED
    BY <1>2, <1>5, <1>6

\* What the contract evaluates changes the second slot.
LEMMA EvaluationChanges ==
  ASSUME NEW t \in Transitions, Decodes(t), t.amount # 0,
         NEW s \in States, NEW r \in States, EvaluateTransition(t, s, r).ok
  PROVE  EvaluateTransition(t, s, r).leaves[2] # r
  <1> DEFINE result == EvaluateTransition(t, s, r)
  <1>1. t.token \in Tokens /\ t.amount \in Nat /\ t.kind \in {"create", "transfer", "swap"}
    BY DEF Transitions, Decodes, Garbled
  <1>2. s.balances[t.token] \in 0..(Width - 1)
    BY <1>1 DEF States
  <1>3. ~Revert.ok
    BY DEF Revert
  <1>4. s.balances[t.token] > t.amount => t.amount \in 1..(Width - 1)
    BY <1>1, <1>2, TransactionsAssumption
  <1>5. CASE t.kind = "transfer"
    <2>1. result = EvaluateTransfer(t, s, r)
      BY <1>5 DEF EvaluateTransition
    <2>2. /\ s.balances[t.token] > t.amount
          /\ result = Output(Debited(s, t.token, t.amount),
                             Credited(r, t.token, t.amount))
      BY <1>3, <2>1 DEF EvaluateTransfer
    <2>3. QED
      BY <1>1, <1>4, <2>2, OutputFields, CreditIsSeen
  <1>6. CASE t.kind = "create"
    <2> DEFINE new == [r EXCEPT !.pubkey = t.created]
    <2>1. r = Empty /\ result = EvaluateTransfer(t, s, new)
      BY <1>3, <1>6 DEF EvaluateTransition, EvaluateCreateAndTransfer
    <2>2. t.created \in Addresses
      BY <1>6 DEF Transitions, Garbled
    <2>3. new \in States /\ new.balances = r.balances
      BY <2>2 DEF States
    <2> HIDE DEF new
    <2>4. /\ s.balances[t.token] > t.amount
          /\ result = Output(Debited(s, t.token, t.amount),
                             Credited(new, t.token, t.amount))
      BY <1>3, <2>1 DEF EvaluateTransfer
    <2>5. QED
      BY <1>1, <1>4, <2>3, <2>4, OutputFields, CreditIsSeen
  <1>7. CASE t.kind = "swap"
    <2> DEFINE total == SwapInput(t.amount) + r.balances[t.token]
               invariant == (r.balances[0] * r.balances[1]) % Width
               output == r.balances[Other(t.token)] - invariant \div total
               c == Credited(r, t.token, t.amount)
               o == Other(t.token)
    <2>1. result = EvaluateSwap(t, s, r)
      BY <1>7 DEF EvaluateTransition
    <2>2. /\ s.balances[t.token] > t.amount /\ total # 0
          /\ result = Output(Credited(Debited(s, t.token, t.amount), o, output),
                             Debited(c, o, output))
      BY <1>3, <2>1 DEF EvaluateSwap
    <2>3. output \in Int /\ o \in Tokens /\ o # t.token
      <3>1. o \in Tokens /\ o # t.token
        BY <1>1, OtherIsAToken
      <3>2. \A k \in Tokens : r.balances[k] \in Nat
        BY TransactionsAssumption DEF States
      <3>3. r.balances[o] \in Nat /\ r.balances[t.token] \in Nat
            /\ r.balances[0] \in Nat /\ r.balances[1] \in Nat
        BY <1>1, <3>1, <3>2 DEF Tokens
      <3>4. SwapInput(t.amount) \in Int
        <4>1. t.amount * (10000 - FeeBips) \in Nat \ {0}
          BY <1>1, InputIsPositive
        <4> DEFINE fee == t.amount * (10000 - FeeBips)
        <4> HIDE DEF fee
        <4>2. fee \div 10000 \in Int
          BY <4>1 DEF fee
        <4>3. QED
          BY <4>2 DEF SwapInput, fee
      <3>5. invariant \in Nat
        <4> DEFINE product == r.balances[0] * r.balances[1]
        <4>1. product \in Nat
          BY <3>3
        <4> HIDE DEF product
        <4>2. product % Width \in Nat
          BY <4>1, TransactionsAssumption
        <4>3. QED
          BY <4>2 DEF product
      <3>6. total \in Nat
        <4>1. SwapInput(t.amount) \in Nat
          <5>1. t.amount * (10000 - FeeBips) \in Nat \ {0}
            BY <1>1, InputIsPositive
          <5> DEFINE fee == t.amount * (10000 - FeeBips)
          <5> HIDE DEF fee
          <5>2. fee \div 10000 \in Nat
            BY <5>1 DEF fee
          <5>3. QED
            BY <5>2 DEF SwapInput, fee
        <4>2. QED
          BY <3>3, <4>1
      <3> HIDE DEF invariant, total
      <3>7. invariant \div total \in Int
        BY <2>2, <3>5, <3>6
      <3>8. QED
        BY <3>1, <3>3, <3>7
    <2> HIDE DEF output, total, c, o
    <2>4. c \in States /\ -output \in Int
      BY <1>1, <2>3, CreditedType, t.amount \in Int DEF c
    <2>5. Debited(c, o, output).balances[t.token] = c.balances[t.token]
      <3>1. PICK taken : taken = -output
        OBVIOUS
      <3>2. taken \in Int
        BY <2>4, <3>1
      <3>3. Credited(c, o, taken).balances[t.token] = c.balances[t.token]
        <4>1. t.token \in Tokens /\ o \in Tokens /\ t.token # o /\ c \in States
          BY <1>1, <2>3, <2>4
        <4> HIDE DEF c, o
        <4>2. \A l \in Tokens : l # o =>
                 Credited(c, o, taken).balances[l] = c.balances[l]
          BY <3>2, <4>1, CreditedType
        <4>3. QED
          BY <4>1, <4>2
      <3>4. QED
        BY <3>1, <3>3 DEF Debited
    <2>6. c.balances[t.token] # r.balances[t.token]
      BY <1>1, <1>4, <2>2, CreditIsSeen DEF c
    <2>7. QED
      BY <2>2, <2>5, <2>6, OutputFields
  <1>8. QED
    BY <1>1, <1>5, <1>6, <1>7

\* A transition that claims the root before it can be proved invalid.
LEMMA OldRootIsInvalid ==
  ASSUME SameLeaves, ChainType, pruned = {},
         NEW n \in DOMAIN posted, NEW i \in DOMAIN posted[n],
         HasPredecessor(n, i), Decodes(Predecessor(n, i).transition),
         Predecessor(n, i).transition.root \in Roots,
         Decodes(posted[n][i]), posted[n][i].amount # 0,
         posted[n][i].from \in Slots, posted[n][i].to \in Slots,
         posted[n][i].root = Predecessor(n, i).transition.root
  PROVE  Provable(n, i)
  <1> DEFINE u == posted[n][i]
             pre == Predecessor(n, i)
             t == Element(n, i)
             r == pre.transition.root
             slots == SlotsOf(u, r)
             result == EvaluateTransition(u, slots[1].leaf, slots[2].leaf)
  <1>1. /\ n \in Nat /\ n >= 1 /\ DOMAIN posted = 1..Len(posted) /\ Len(posted) \in Nat
        /\ u \in Transitions /\ i \in Nat /\ i >= 1
        /\ \A m \in DOMAIN posted : /\ Len(posted[m]) \in Nat /\ Len(posted[m]) >= 1
                                    /\ DOMAIN posted[m] = 1..Len(posted[m])
    BY FraudAssumption, ChainFacts
  <1>2. /\ t.block = n - 1 /\ t.index = i - 1 /\ t.transition = u
        /\ t.block + 1 = n /\ t.index + 1 = i
        /\ t.siblings = Levels(Len(posted[n]))
    BY <1>1 DEF Element, IncludedTransition
  <1>3. ASSUME NEW p, p.block \in Int, p.index \in Int,
               p.block + 1 \in DOMAIN posted,
               p.index + 1 \in DOMAIN posted[p.block + 1],
               posted[p.block + 1][p.index + 1] = p.transition,
               p.siblings = Levels(Len(posted[p.block + 1]))
        PROVE  /\ CheckTransitionInclusion(p)
               /\ BlockSize(p.block) = Len(posted[p.block + 1])
    <2>1. Live(p.block)
      BY <1>3 DEF Live
    <2>2. BlockSize(p.block) = Len(posted[p.block + 1])
      BY <2>1 DEF BlockSize
    <2>3. p.index \in 0..(Len(posted[p.block + 1]) - 1)
      BY <1>1, <1>3
    <2>5. /\ p.siblings \in 0..Levels(Len(posted[p.block + 1]))
          /\ NodeOf(posted[p.block + 1], p.index, p.siblings) = p.transition
      BY <1>3, <2>3, NodeAtItsPlace
    <2>4. QED
      BY <2>1, <2>2, <2>5 DEF CheckTransitionInclusion
  <1>4. CheckTransitionInclusion(t)
    BY <1>1, <1>2, <1>3
  <1>5. VerifySequentialTransitions(pre, t)
    <2>1. CASE i > 1
      <3>1. /\ pre.block = n - 1 /\ pre.index = i - 2
            /\ pre.transition = posted[n][i - 1]
            /\ pre.siblings = Levels(Len(posted[n]))
        BY <1>1, <2>1 DEF Predecessor, Element, IncludedTransition
      <3>2. /\ pre.block \in Int /\ pre.index \in Int /\ pre.block + 1 = n
            /\ pre.index + 1 = i - 1 /\ i - 1 \in DOMAIN posted[n]
            /\ pre.block = t.block /\ pre.index = t.index - 1
        BY <1>1, <1>2, <2>1, <3>1
      <3> HIDE DEF pre, t
      <3>3. CheckTransitionInclusion(pre)
        BY <1>3, <3>1, <3>2
      <3>4. QED
        BY <1>4, <3>2, <3>3 DEF VerifySequentialTransitions
    <2>2. CASE ~(i > 1)
      <3>1. n > 1 /\ i = 1
        BY <1>1, <2>2 DEF HasPredecessor
      <3>2. /\ pre.block = n - 2 /\ pre.index = Len(posted[n - 1]) - 1
            /\ pre.transition = posted[n - 1][Len(posted[n - 1])]
            /\ pre.siblings = Levels(Len(posted[n - 1]))
        BY <1>1, <2>2 DEF Predecessor, Element, IncludedTransition
      <3>3. n - 1 \in DOMAIN posted
        BY <1>1, <3>1
      <3>4. Len(posted[n - 1]) \in Nat /\ Len(posted[n - 1]) \in DOMAIN posted[n - 1]
        BY <1>1, <3>3
      <3>5. /\ pre.block \in Int /\ pre.index \in Int /\ pre.block + 1 = n - 1
            /\ pre.index + 1 = Len(posted[n - 1])
            /\ pre.block = t.block - 1 /\ t.index = 0
        BY SMTT(30), <1>1, <1>2, <3>1, <3>2, <3>4
      <3> HIDE DEF pre, t
      <3>6. CheckTransitionInclusion(pre) /\ BlockSize(pre.block) = Len(posted[n - 1])
        BY <1>3, <3>2, <3>3, <3>4, <3>5
      <3>7. QED
        BY <1>4, <3>2, <3>5, <3>6 DEF VerifySequentialTransitions
    <2>3. QED
      BY <2>1, <2>2
  <1>6. Path(u.from) = u.from /\ Path(u.to) = u.to
    BY PathOfSlot
  <1> DEFINE levels == TreeHeight - 1
  <1>7. /\ slots = <<SlotProof(r, u.from), SlotProof(r, u.to)>>
        /\ slots[1].slot = u.from /\ slots[1].leaf = r[u.from]
        /\ slots[1].siblings = Siblings(r, u.from, levels)
        /\ slots[2].slot = u.to /\ slots[2].leaf = r[u.to]
        /\ slots[2].siblings = Siblings(r, u.to, levels)
    BY <1>6 DEF SlotsOf, SlotProof, IncludedStorageSlot
  <1>8. SlotsAreProved(r, slots)
    BY <1>7, SlotIsProved DEF SlotsAreProved
  <1>9. result.ok => PostRoot(r, slots, result.leaves) # u.root
    <2> SUFFICES ASSUME result.ok PROVE PostRoot(r, slots, result.leaves) # r
      OBVIOUS
    <2>1. r[u.from] \in States /\ r[u.to] \in States /\ u.to \in DOMAIN r
      BY DEF Roots
    <2>2. result = EvaluateTransition(u, r[u.from], r[u.to])
      BY <1>7
    <2> HIDE DEF result, u, r, slots
    <2>3. result.leaves[2] # r[u.to]
      BY <1>1, <2>1, <2>2, EvaluationChanges DEF u
    <2>4. PostRoot(r, slots, result.leaves) =
             [r EXCEPT ![u.from] = result.leaves[1], ![u.to] = result.leaves[2]]
      BY <1>6, <1>7 DEF PostRoot
    <2>5. PostRoot(r, slots, result.leaves)[u.to] = result.leaves[2]
      BY <2>1, <2>4
    <2>6. QED
      BY <2>3, <2>5
  <1> HIDE DEF slots, t, pre, u, result
  <1>10. result = EvaluateTransition(t.transition, slots[1].leaf, slots[2].leaf)
    BY <1>2 DEF result
  <1>11. ProvesInvalid(pre, t, slots)
    BY <1>2, <1>5, <1>7, <1>8, <1>9, <1>10 DEF ProvesInvalid, pre
  <1>12. QED
    BY <1>11 DEF Provable, pre, t, slots, u

\* The guard knows the transition before the one it checks.
LEMMA GuardsPredecessor ==
  ASSUME FraudType, GuardShape, restarts = 0, InBlock,
         HasPredecessor(guard.block, position.transitionIndex + 1)
  PROVE  LET n == guard.block
             i == position.transitionIndex + 1
         IN  /\ Decodes(Predecessor(n, i).transition)
             /\ Rooted(n, i)
  <1> DEFINE n == guard.block
             i == position.transitionIndex + 1
  <1>1. /\ n \in DOMAIN posted /\ n \in Nat /\ n >= 1
        /\ n = guard.lastBlockValidated + 1
        /\ i \in DOMAIN posted[n] /\ i \in Nat /\ i >= 1
        /\ stored[n] = posted[n]
    BY NextIsOnChain
  <1>2. /\ guard.doing = "validating" /\ n \in DOMAIN stored
        /\ \A m \in DOMAIN stored :
              /\ stored[m] = posted[m] /\ m \in DOMAIN posted
              /\ \A k \in DOMAIN stored[m] : Decodes(stored[m][k])
        /\ 1..guard.lastBlockValidated \subseteq DOMAIN stored
        /\ guard.lastBlockValidated \in Nat
    BY DEF InBlock, FraudType, GuardType, GuardShape, Guards
  <1>3. \A m \in DOMAIN posted : /\ Len(posted[m]) \in Nat /\ Len(posted[m]) >= 1
                                 /\ DOMAIN posted[m] = 1..Len(posted[m])
                                 /\ Chain[m] = posted[m]
    BY FraudAssumption, ChainFacts, ChainPlaces DEF FraudType
  <1> HIDE DEF n, i
  <1>4. CASE i > 1
    <2>1. i - 1 \in DOMAIN posted[n]
      BY <1>1, <1>3, <1>4
    <2>2. Decodes(posted[n][i - 1])
      BY <1>1, <1>2, <2>1
    <2>3. QED
      BY <1>1, <1>3, <1>4, <2>2
         DEF Predecessor, Element, IncludedTransition, Rooted, n, i
  <1>5. CASE ~(i > 1)
    <2>1. n > 1
      BY <1>5 DEF HasPredecessor, n, i
    <2>2. n - 1 \in DOMAIN stored
      BY <1>1, <1>2, <2>1
    <2>3. n - 1 \in DOMAIN posted /\ Len(posted[n - 1]) \in DOMAIN posted[n - 1]
          /\ stored[n - 1] = posted[n - 1]
      BY <1>2, <1>3, <2>2
    <2>4. Decodes(posted[n - 1][Len(posted[n - 1])])
      BY <1>2, <2>2, <2>3
    <2>5. Chain[n - 1] = posted[n - 1]
      BY <1>3, <2>3
    <2>6. QED
      BY <1>5, <2>1, <2>4, <2>5
         DEF Predecessor, Element, IncludedTransition, Rooted, Last, n, i
  <1>6. QED
    BY <1>4, <1>5

\* What the guard checks is of a transaction that its machine could be given,
\* with the root of the machine or the one before.
LEMMA NextIsClaimed ==
  ASSUME FraudType, ClaimedChain, GuardShape, ValidatorFollowsChain,
         restarts = 0, InBlock,
         HasPredecessor(guard.block, position.transitionIndex + 1)
  PROVE  \E tx \in Transactions :
            /\ tx.sender \in DOMAIN local.keys
            /\ \/ /\ Accepted(local, tx)
                  /\ NextTransition = TransitionOf(local, tx)
               \/ NextTransition =
                     [TransitionOf(local, tx) EXCEPT !.root = local.leaves]
  <1> DEFINE n == guard.block
             i == position.transitionIndex + 1
             r == RootBefore(n, i)
             m == MachineOf(r)
  <1>1. MachineShape(local) /\ local.leaves = r
    BY AtPosition
  <1>2. /\ n \in DOMAIN posted /\ i \in DOMAIN posted[n]
        /\ NextTransition = posted[n][i] /\ Decodes(NextTransition)
    BY NextIsOnChain
  <1>3. n \in DOMAIN Chain /\ Chain[n] = posted[n]
    BY <1>2, ChainPlaces DEF FraudType
  <1>4. Rooted(n, i)
    BY GuardsPredecessor
  <1> HIDE DEF n, i
  <1>5. Claimed(r, Chain[n][i])
    BY <1>2, <1>3, <1>4 DEF ClaimedChain
  <1>6. local = m
    BY <1>1, MachineFromLeaves
  <1> HIDE DEF r
  <1>7. PICK tx \in Transactions :
           /\ tx.sender \in DOMAIN m.keys
           /\ \/ Accepted(m, tx) /\ Chain[n][i] = TransitionOf(m, tx)
              \/ Chain[n][i] = [TransitionOf(m, tx) EXCEPT !.root = r]
    BY <1>5 DEF Claimed
  <1> HIDE DEF m
  <1>8. QED
    BY <1>1, <1>2, <1>3, <1>6, <1>7

\* The elements of the chain are what they are said to be.
LEMMA ElementsAtTheirPlace ==
  ASSUME ChainType, pruned = {}, NEW n \in DOMAIN posted,
         NEW i \in DOMAIN posted[n], HasPredecessor(n, i)
  PROVE  AtItsPlace(Predecessor(n, i)) /\ AtItsPlace(Element(n, i))
  <1>1. ASSUME NEW m \in DOMAIN posted, NEW k \in DOMAIN posted[m]
        PROVE  AtItsPlace(Element(m, k))
    <2>1. PICK e : e = Element(m, k)
      OBVIOUS
    <2>2. /\ m \in Nat /\ k \in 1..Len(posted[m]) /\ Len(posted[m]) \in Nat
      BY ChainFacts
    <2>3. /\ e.block = m - 1 /\ e.index = k - 1 /\ e.block + 1 = m
          /\ e.siblings = Levels(Len(posted[m]))
      BY <2>1, <2>2 DEF Element, IncludedTransition
    <2>4. BlockSize(e.block) = Len(posted[m])
      BY <2>3 DEF BlockSize, Live
    <2>5. e.index \in 0..(Len(posted[m]) - 1)
      BY <2>2, <2>3
    <2>6. AtItsPlace(e)
      BY <2>3, <2>4, <2>5 DEF AtItsPlace
    <2>7. QED
      BY <2>1, <2>6
  <1>2. CASE i > 1
    <2>1. i - 1 \in DOMAIN posted[n]
      BY <1>2, ChainFacts
    <2>2. QED
      BY <1>1, <1>2, <2>1 DEF Predecessor
  <1>3. CASE ~(i > 1)
    <2>1. n > 1 /\ n - 1 \in DOMAIN posted
      BY <1>3, ChainFacts DEF HasPredecessor
    <2>2. Len(posted[n - 1]) \in DOMAIN posted[n - 1]
      BY <2>1, ChainFacts
    <2>3. QED
      BY <1>1, <1>3, <2>1, <2>2 DEF Predecessor
  <1>4. QED
    BY <1>2, <1>3

\* An accepted transaction changes the leaves.
LEMMA AcceptedChanges ==
  ASSUME NEW m, MachineShape(m), NEW tx \in Transactions, Accepted(m, tx),
         ~Divergent(m, tx)
  PROVE  ApplyTransaction(m, tx).leaves # m.leaves
  <1> DEFINE u == TransitionOf(m, tx)
             r == m.leaves
             result == EvaluateTransition(u, r[u.from], r[u.to])
  <1>1. SignedTransaction(tx) /\ tx.sender \in DOMAIN m.keys /\ r \in Roots
    BY FraudAssumption, ShapeFacts, MachineFacts DEF Accepted, Sound
  <1>2. Follows(r, u)
    BY <1>1, AcceptedFollows
  <1>3. u \in Transitions /\ Decodes(u) /\ u.root = ApplyTransaction(m, tx).leaves
    BY AcceptedTransition
  <1>4. u.amount # 0
    <2>1. tx.amount # 0
      BY DEF Divergent
    <2>2. PICK leaves, from, to :
             u \in {SwapTransition(leaves, from, tx),
                    TransferTransition(leaves, from, to, tx),
                    CreateAndTransferTransition(leaves, from, to, tx)}
      BY <1>1, TransitionFields
    <2> HIDE DEF u
    <2>3. u.amount = tx.amount
      BY <2>2 DEF SwapTransition, TransferTransition, CreateAndTransferTransition
    <2>4. QED
      BY <2>1, <2>3
  <1> HIDE DEF u, r
  <1>5. /\ u.from \in DOMAIN r /\ u.to \in DOMAIN r /\ result.ok
        /\ [r EXCEPT ![u.from] = result.leaves[1], ![u.to] = result.leaves[2]]
              = u.root
    BY <1>2 DEF Follows
  <1>6. r[u.from] \in States /\ r[u.to] \in States
    BY <1>1, <1>5 DEF Roots
  <1>7. result.leaves[2] # r[u.to]
    BY <1>3, <1>4, <1>5, <1>6, EvaluationChanges
  <1> HIDE DEF result
  <1>8. u.root[u.to] = result.leaves[2]
    BY <1>5
  <1>9. u.root # r
    BY <1>7, <1>8
  <1>10. QED
    BY <1>3, <1>9 DEF r

LEMMA GuardAndContractAgree ==
  ASSUME HeightsAgree, SameLeaves, FraudType, ClaimedChain, GuardShape,
         ValidatorFollowsChain
  PROVE  GuardAgreesWithContract
  <1> DEFINE n == guard.block
             i == position.transitionIndex + 1
  <1>1. PICK t : t = NextTransition
    OBVIOUS
  <1>2. SUFFICES ASSUME restarts = 0, pruned = {}, InBlock,
                        HasPredecessor(n, i),
                        ~Unsupported(t), ~Divergent(local, TransactionOf(t)),
                        Refused(local, TransactionOf(t))
                           \/ Sound(local, TransactionOf(t))
                 PROVE  FraudIn(t) <=> Provable(n, i)
    BY <1>1 DEF GuardAgreesWithContract
  <1>3. /\ n \in DOMAIN posted /\ n \in Nat /\ i \in DOMAIN posted[n] /\ i \in Nat
        /\ t = posted[n][i] /\ t \in Transitions /\ Decodes(t)
    BY <1>1, <1>2, NextIsOnChain
  <1>4. MachineShape(local) /\ local.leaves = RootBefore(n, i)
    BY <1>2, AtPosition
  <1>5. /\ Decodes(Predecessor(n, i).transition)
        /\ Predecessor(n, i).transition.root = local.leaves
    BY <1>2, <1>3, <1>4, GuardsPredecessor, PredecessorRoot DEF FraudType
  <1>6. PICK tx \in Transactions :
           /\ tx.sender \in DOMAIN local.keys
           /\ \/ Accepted(local, tx) /\ t = TransitionOf(local, tx)
              \/ t = [TransitionOf(local, tx) EXCEPT !.root = local.leaves]
    BY <1>1, <1>2, NextIsClaimed
  <1>7. SignedTransaction(tx)
    BY FraudAssumption
  <1> HIDE DEF n, i
  <1>8. CASE Accepted(local, tx) /\ t = TransitionOf(local, tx)
    <2>1. TransactionOf(t) = tx
      BY <1>4, <1>8, TransactionIsRecovered
    <2>2. ApplyTransaction(local, tx).leaves = t.root
      BY <1>4, <1>8, AcceptedTransition
    <2>3. ~FraudIn(t)
      BY <1>8, <2>1, <2>2 DEF FraudIn, Accepted, Agrees
    <2>4. Follows(local.leaves, t)
      BY <1>2, <1>4, <1>7, <1>8, <2>1, AcceptedFollows
    <2>5. ~Provable(n, i)
      <3> SUFFICES ASSUME Provable(n, i) PROVE FALSE
        OBVIOUS
      <3> DEFINE u == Element(n, i)
      <3>1. PICK slots : ProvesInvalid(Predecessor(n, i), u, slots)
        BY DEF Provable
      <3>2. u.block \in Int /\ u.block + 1 = n /\ u.index + 1 = i
        BY <1>3 DEF Element, IncludedTransition
      <3>3. AtItsPlace(Predecessor(n, i)) /\ AtItsPlace(u)
        BY <1>2, <1>3, ElementsAtTheirPlace DEF FraudType
      <3> HIDE DEF u
      <3>4. Fraudulent(n, i)
        BY <3>1, <3>2, <3>3, InvalidIsFraudulent DEF FraudType
      <3>5. QED
        BY <1>3, <1>5, <2>4, <3>4 DEF Fraudulent
    <2>6. QED
      BY <2>3, <2>5
  <1>9. CASE t = [TransitionOf(local, tx) EXCEPT !.root = local.leaves]
    <2>1. /\ TransactionOf(t) = tx /\ t.root = local.leaves
          /\ t.amount = tx.amount
      <3> DEFINE u == TransitionOf(local, tx)
      <3> HIDE DEF u
      <3>1. t = [u EXCEPT !.root = local.leaves]
        BY <1>9 DEF u
      <3>2. "root" \in DOMAIN t
        BY <1>3 DEF Transitions, Decodes, Garbled
      <3>3. t.root = local.leaves
        BY <3>1, <3>2
      <3>4. t = [TransitionOf(local, tx) EXCEPT !.root = t.root]
        BY <3>1, <3>3 DEF u
      <3>5. TransactionOf(t) = tx /\ t.amount = tx.amount
        BY <1>4, <1>6, <1>7, <3>4, Recovered
      <3>6. QED
        BY <3>3, <3>5
    <2>2. t.amount # 0 /\ ~Divergent(local, tx)
      BY <1>2, <2>1 DEF Divergent
    <2>3. FraudIn(t)
      <3>1. CASE Refused(local, tx)
        BY <1>2, <2>1, <3>1 DEF FraudIn
      <3>2. CASE ~Refused(local, tx)
        <4>1. Sound(local, tx) /\ Accepted(local, tx)
          BY <1>2, <2>1, <3>2 DEF Accepted
        <4>2. ApplyTransaction(local, tx).leaves # local.leaves
          BY <1>4, <2>2, <4>1, AcceptedChanges
        <4>3. QED
          BY <1>2, <2>1, <4>1, <4>2 DEF FraudIn, Agrees
      <3>3. QED
        BY <3>1, <3>2
    <2>4. Provable(n, i)
      <3>1. t.from \in Slots /\ t.to \in Slots
        BY <1>2 DEF Unsupported
      <3>2. local.leaves \in Roots
        BY <1>4, ShapeFacts, MachineFacts
      <3>3. QED
        BY <1>2, <1>3, <1>5, <2>1, <2>2, <3>1, <3>2, OldRootIsInvalid DEF FraudType
    <2>5. QED
      BY <2>3, <2>4
  <1>10. QED
    BY <1>6, <1>8, <1>9

-----------------------------------------------------------------------------
(***************************************************************************)
(* How a guard goes on.                                                    *)
(***************************************************************************)
\* The steps of a guard that goes on.
LEMMA GoingSteps ==
  ASSUME FraudType, [Next]_vars, Going'
  PROVE  /\ Going
         /\ \/ UNCHANGED <<guard, position, stored, local, restarts>>
            \/ \E n \in DOMAIN posted : Receive(n) /\ ~Gap(n)
            \/ CheckNextTransition \/ BlockChecked \/ Saved
  <1>1. restarts' = 0 /\ guard'.doing \in {"waiting", "validating", "saving"}
    BY DEF Going
  <1>2. restarts \in Nat /\ guard \in Guards
    BY FraudAssumption DEF FraudType, GuardType
  <1>3. ASSUME Exit PROVE FALSE
    BY <1>1, <1>2, <1>3 DEF Exit, Guards
  <1>4. ASSUME OutOfOrder \/ CheckFails PROVE FALSE
    BY <1>3, <1>4 DEF OutOfOrder, CheckFails
  <1>5. ASSUME DetectFraud PROVE FALSE
    <2>1. Exit \/ guard' = [guard EXCEPT !.doing = "proved"]
      BY <1>5 DEF DetectFraud
    <2>2. guard'.doing = "proved"
      BY <1>2, <1>3, <2>1 DEF Guards
    <2>3. QED
      BY <1>1, <2>2
  <1>6. ASSUME Restart PROVE FALSE
    BY <1>1, <1>2, <1>6 DEF Restart
  <1>7. ASSUME UNCHANGED <<guard, position, stored, local, restarts>>
        PROVE  Going
    BY <1>7 DEF Going
  <1>8. ASSUME NEW n \in DOMAIN posted, Receive(n)
        PROVE  Going /\ ~Gap(n)
    <2>1. guard.doing = "waiting" /\ restarts' = restarts /\ (Gap(n) => Exit)
      BY <1>8 DEF Receive
    <2>2. QED
      BY <1>1, <1>3, <2>1 DEF Going
  <1>9. ASSUME CheckNextTransition \/ BlockChecked \/ Saved
        PROVE  Going
    <2>1. /\ guard.doing \in {"validating", "saving"} /\ restarts' = restarts
      BY <1>9 DEF CheckNextTransition, InBlock, BlockChecked, Saved
    <2>2. QED
      BY <1>1, <2>1 DEF Going
  <1>10. \/ UNCHANGED <<guard, position, stored, local, restarts>>
         \/ \E n \in DOMAIN posted : Receive(n)
         \/ OutOfOrder \/ CheckNextTransition \/ CheckFails \/ DetectFraud
         \/ BlockChecked \/ Saved \/ Restart
    BY DEF Next, vars, Aggregate, Cheat, Post, Challenge
  <1>11. QED
    BY <1>4, <1>5, <1>6, <1>7, <1>8, <1>9, <1>10

\* What the guard's shape and the chain's mean, unfolded.
Shape ==
  /\ MachineShape(local)
  /\ 1..guard.lastBlockValidated \subseteq DOMAIN stored
  /\ guard.doing # "validating" => position.transitionIndex = 0
  /\ guard.doing = "validating" =>
        position.transitionIndex <= Len(stored[guard.block])
  /\ position.blockNumber = guard.lastBlockValidated + 1
  /\ \A n \in 1..guard.lastBlockValidated : stored[n] = posted[n]
  /\ IF position.transitionIndex > 0
     THEN local.leaves = posted[guard.block][position.transitionIndex].root
     ELSE local.leaves = IF guard.lastBlockValidated = 0
                         THEN GenesisMachine.leaves
                         ELSE Last(posted[guard.lastBlockValidated]).root

LEMMA ShapeIs ==
  GuardShape /\ ValidatorFollowsChain <=> (Going => Shape)
  BY DEF GuardShape, ValidatorFollowsChain, Going, Shape

LEMMA ShapeKept ==
  ASSUME FraudType, [Next]_vars, Shape, Going,
         UNCHANGED <<guard, position, stored, local>>
  PROVE  Shape'
  <1>1. \A n \in DOMAIN posted : posted'[n] = posted[n]
    <2>1. UNCHANGED posted \/ Post
      BY ZenonT(40) DEF Next, vars, Aggregate, Cheat, Receive, OutOfOrder,
             CheckNextTransition, CheckFails, DetectFraud, BlockChecked, Saved,
             Restart, Challenge
    <2>2. QED
      BY <2>1, BlockPosted DEF FraudType
  <1>2. /\ DOMAIN stored \subseteq DOMAIN posted
        /\ guard.doing = "validating" => guard.block \in DOMAIN posted
        /\ guard.lastBlockValidated \in Nat /\ position.transitionIndex \in Nat
    BY FraudAssumption DEF FraudType, GuardType, Guards, Positions
  <1>3. \A n \in 1..guard.lastBlockValidated : n \in DOMAIN posted
                                               /\ stored[n] = posted[n]
    BY <1>2 DEF Shape
  <1>4. position.transitionIndex > 0 => guard.block \in DOMAIN posted
    BY <1>2 DEF Shape
  <1>5. guard.lastBlockValidated # 0 =>
           guard.lastBlockValidated \in 1..guard.lastBlockValidated
    BY <1>2
  <1>6. IF position.transitionIndex > 0
        THEN local.leaves = posted'[guard.block][position.transitionIndex].root
        ELSE local.leaves = IF guard.lastBlockValidated = 0
                            THEN GenesisMachine.leaves
                            ELSE Last(posted'[guard.lastBlockValidated]).root
    BY <1>1, <1>3, <1>4, <1>5 DEF Shape
  <1>7. QED
    BY <1>1, <1>3, <1>6 DEF Shape

LEMMA ShapeReceived ==
  ASSUME FraudType, Shape, NEW n \in DOMAIN posted, Receive(n), ~Gap(n)
  PROVE  Shape'
  <1>1. /\ guard.doing = "waiting" /\ n > guard.lastBlockValidated
        /\ stored' = [k \in DOMAIN stored \cup {n} |->
                            IF k = n THEN posted[n] ELSE stored[k]]
        /\ guard' = [guard EXCEPT !.doing = "validating", !.block = n]
        /\ UNCHANGED <<posted, position, local>>
    BY DEF Receive
  <1>2. /\ guard \in Guards /\ guard.lastBlockValidated \in Nat
        /\ n \in Nat /\ Len(posted[n]) \in Nat
    BY ChainFacts DEF FraudType, GuardType, Guards
  <1>3. /\ guard'.doing = "validating" /\ guard'.block = n
        /\ guard'.lastBlockValidated = guard.lastBlockValidated
    BY <1>1, <1>2 DEF Guards
  <1>4. /\ DOMAIN stored \subseteq DOMAIN stored' /\ stored'[n] = posted[n]
        /\ \A k \in DOMAIN stored : k # n => stored'[k] = stored[k]
    BY <1>1
  <1>5. position.transitionIndex = 0
    BY <1>1 DEF Shape
  <1>6. \A k \in 1..guard.lastBlockValidated : k # n
    BY <1>1, <1>2
  <1>7. \A k \in 1..guard.lastBlockValidated :
           k \in DOMAIN stored' /\ stored'[k] = posted[k]
    BY <1>4, <1>6 DEF Shape
  <1>8. 0 <= Len(stored'[n]) /\ ~(0 > 0)
    BY <1>2, <1>4
  <1>9. QED
    BY <1>1, <1>3, <1>5, <1>7, <1>8 DEF Shape

LEMMA ShapeChecked ==
  ASSUME FraudType, Shape, Going, CheckNextTransition
  PROVE  Shape'
  <1> DEFINE n == guard.block
             i == position.transitionIndex
             t == NextTransition
             tx == TransactionOf(t)
  <1>1. /\ InBlock /\ Accepted(local, tx) /\ Agrees(t)
        /\ local' = ApplyTransaction(local, tx)
        /\ position' = [position EXCEPT !.transitionIndex = @ + 1]
        /\ UNCHANGED <<guard, stored, posted>>
    BY DEF CheckNextTransition
  <1>2. /\ n \in DOMAIN posted /\ i + 1 \in DOMAIN posted[n]
        /\ stored[n] = posted[n]
        /\ t = posted[n][i + 1] /\ t \in Transitions /\ Decodes(t)
    BY <1>1, NextIsOnChain
  <1>3. /\ position \in Positions /\ i \in Nat
    BY FraudAssumption DEF FraudType, GuardType, Positions
  <1>4. /\ position'.transitionIndex = i + 1
        /\ position'.blockNumber = position.blockNumber
    BY <1>1, <1>3 DEF Positions
  <1>5. MachineShape(local) /\ MachineType(local)
    BY DEF Shape, FraudType
  <1> HIDE DEF t
  <1>6. local'.leaves = t.root
    BY <1>1 DEF Agrees, tx
  <1>7. TransactionType(tx)
    BY <1>1, <1>2, <1>5, RebuiltType DEF Accepted, tx
  <1>8. MachineShape(local')
    <2> HIDE DEF tx
    <2>1. QED
      BY <1>1, <1>5, <1>7, AcceptedShape
  <1>9. i + 1 <= Len(stored[n]) /\ i + 1 > 0
    <2>1. DOMAIN posted[n] = 1..Len(posted[n]) /\ Len(posted[n]) \in Nat
      BY <1>2, ChainFacts DEF FraudType
    <2>2. QED
      BY <1>2, <1>3, <2>1
  <1>10. guard.doing = "validating"
    BY <1>1 DEF InBlock
  <1>11. local'.leaves = posted[n][i + 1].root
    BY <1>2, <1>6
  <1> HIDE DEF i
  <1>12. QED
    BY <1>1, <1>4, <1>8, <1>9, <1>10, <1>11 DEF Shape, n

LEMMA ShapeBlockChecked ==
  ASSUME FraudType, Shape, Going, BlockChecked
  PROVE  Shape'
  <1> DEFINE n == guard.block
  <1>1. /\ guard.doing = "validating" /\ n = position.blockNumber
        /\ position.transitionIndex = Len(stored[n])
        /\ position' = Position(position.blockNumber + 1, 0)
        /\ guard' = [guard EXCEPT !.doing = "saving", !.lastBlockValidated = n]
        /\ UNCHANGED <<posted, stored, local>>
    BY DEF BlockChecked
  <1>2. /\ guard \in Guards /\ n \in DOMAIN stored /\ n \in DOMAIN posted
        /\ n = guard.lastBlockValidated + 1 /\ guard.lastBlockValidated \in Nat
        /\ stored[n] = posted[n]
    BY <1>1 DEF FraudType, GuardType, Guards
  <1>3. Len(posted[n]) \in Nat /\ Len(posted[n]) >= 1
    <2>1. Len(posted[n]) \in 1..MaxTransitions
      BY <1>2, ChainFacts DEF FraudType
    <2>2. QED
      BY <2>1
  <1>4. /\ guard'.doing = "saving" /\ guard'.lastBlockValidated = n
        /\ position'.blockNumber = n + 1 /\ position'.transitionIndex = 0
    BY <1>1, <1>2 DEF Guards, Position
  <1>5. \A k \in 1..n : k \in DOMAIN stored /\ stored[k] = posted[k]
    <2> SUFFICES ASSUME NEW k \in 1..n
                 PROVE  k \in DOMAIN stored /\ stored[k] = posted[k]
      OBVIOUS
    <2>1. k = n \/ k \in 1..guard.lastBlockValidated
      BY <1>2
    <2>2. QED
      BY <1>2, <2>1 DEF Shape
  <1>6. local.leaves = Last(posted[n]).root
    <2>1. position.transitionIndex > 0
      BY <1>1, <1>2, <1>3
    <2>2. local.leaves = posted[n][position.transitionIndex].root
      BY <2>1 DEF Shape
    <2>3. QED
      BY <1>1, <1>2, <2>2 DEF Last
  <1>7. n # 0 /\ ~(0 > 0)
    BY <1>2
  <1>8. MachineShape(local)
    BY DEF Shape
  <1> HIDE DEF n
  <1>9. QED
    BY <1>1, <1>4, <1>5, <1>6, <1>7, <1>8 DEF Shape

LEMMA ShapeSaved ==
  ASSUME FraudType, Shape, Saved
  PROVE  Shape'
  <1>1. /\ guard.doing = "saving"
        /\ guard' = Guard("waiting", NoBlock, guard.lastBlockValidated,
                          guard.lastBlockValidated)
        /\ UNCHANGED <<posted, position, stored, local>>
    BY DEF Saved
  <1>2. guard'.doing = "waiting"
        /\ guard'.lastBlockValidated = guard.lastBlockValidated
    BY <1>1 DEF Guard
  <1>3. position.transitionIndex = 0 /\ ~(0 > 0)
    BY <1>1 DEF Shape
  <1>4. QED
    BY <1>1, <1>2, <1>3 DEF Shape

LEMMA FollowsStep ==
  ASSUME FraudType, GuardShape, ValidatorFollowsChain, [Next]_vars
  PROVE  GuardShape' /\ ValidatorFollowsChain'
  <1>1. SUFFICES ASSUME Going' PROVE Shape'
    BY DEF GuardShape, ValidatorFollowsChain, Going, Shape
  <1>2. Going
    BY <1>1, GoingSteps
  <1>3. Shape
    BY <1>2, ShapeIs
  <1>4. \/ UNCHANGED <<guard, position, stored, local, restarts>>
        \/ \E n \in DOMAIN posted : Receive(n) /\ ~Gap(n)
        \/ CheckNextTransition \/ BlockChecked \/ Saved
    BY <1>1, GoingSteps
  <1>5. QED
    BY <1>2, <1>3, <1>4, ShapeKept, ShapeReceived, ShapeChecked,
       ShapeBlockChecked, ShapeSaved

\* No proof is sent about what was not posted falsely.
LEMMA NoProofStep ==
  ASSUME FraudType, ComputedChain, GuardShape, ValidatorFollowsChain,
         HonestNeverAccused, [Next]_vars, conduct' # "false", restarts' = 0
  PROVE  guard'.doing # "proved"
  <1>1. conduct # "false"
    <2>1. \/ \E tx \in Transactions : Aggregate(tx) \/ Cheat(tx)
          \/ UNCHANGED conduct
      BY ZenonT(40) DEF Next, vars, Post, Receive, OutOfOrder, CheckNextTransition,
             CheckFails, DetectFraud, BlockChecked, Saved, Restart, Challenge
    <2>2. QED
      BY <2>1 DEF Aggregate, Cheat
  <1>2. restarts \in Nat /\ guard \in Guards
    BY FraudAssumption DEF FraudType, GuardType
  <1>3. restarts = 0
    <2>1. restarts' = restarts \/ restarts' = restarts + 1
      BY ZenonT(40) DEF Next, vars, Aggregate, Cheat, Post, Receive, OutOfOrder,
             CheckNextTransition, CheckFails, DetectFraud, BlockChecked, Saved,
             Restart, Challenge
    <2>2. QED
      BY <1>2, <2>1
  <1>4. guard.doing # "proved"
    BY <1>1, <1>3 DEF HonestNeverAccused
  <1>5. ~DetectFraud
    <2> SUFFICES ASSUME DetectFraud PROVE FALSE
      OBVIOUS
    <2>1. InBlock /\ FraudIn(NextTransition)
      BY DEF DetectFraud
    <2>2. QED
      BY <1>1, <1>3, <2>1, NotAccused
  <1>6. \/ UNCHANGED guard \/ Exit
        \/ guard'.doing \in {"waiting", "validating", "saving"}
    <2>1. ASSUME NEW n \in DOMAIN posted, Receive(n)
          PROVE  Exit \/ guard'.doing = "validating"
      BY <1>2, <2>1 DEF Receive, Guards
    <2>2. ASSUME OutOfOrder \/ CheckFails PROVE Exit
      BY <2>2 DEF OutOfOrder, CheckFails
    <2>3. ASSUME BlockChecked \/ Saved \/ Restart
          PROVE  guard'.doing \in {"waiting", "saving"}
      <3>1. BlockChecked => guard'.doing = "saving"
        BY <1>2 DEF BlockChecked, Guards
      <3>2. Saved => guard'.doing = "waiting"
        BY DEF Saved, Guard
      <3>3. Restart => guard'.doing = "waiting"
        BY DEF Restart, Guard
      <3>4. QED
        BY <2>3, <3>1, <3>2, <3>3
    <2>4. QED
      BY <1>5, <2>1, <2>2, <2>3 DEF Next, vars, Aggregate, Cheat, Post,
                                    CheckNextTransition, Challenge
  <1>7. Exit => guard'.doing = "exited"
    BY <1>2 DEF Exit, Guards
  <1>8. QED
    BY <1>4, <1>6, <1>7

LEMMA NeverAccused ==
  FraudType /\ ComputedChain /\ GuardShape /\ ValidatorFollowsChain =>
     (conduct # "false" /\ restarts = 0 /\ InBlock =>
         ~FraudIn(NextTransition) /\ ~Unsupported(NextTransition))
  BY NotAccused

-----------------------------------------------------------------------------
(***************************************************************************)
(* The theorems.                                                           *)
(***************************************************************************)
LEMMA FraudInvStep ==
  ASSUME FraudInv, [Next]_vars
  PROVE  FraudInv'
  <1>1. /\ FraudType /\ ComputedChain /\ ClaimedChain
        /\ HeightsAgree => HonestChainStands /\ PrunedOnlyForFraud
        /\ GuardShape /\ ValidatorFollowsChain /\ HonestNeverAccused
    BY DEF FraudInv
  <1>2. FraudType'
    BY <1>1, TypeStep
  <1>3. ComputedChain'
    BY <1>1, <1>2, ComputedStep
  <1>10. ClaimedChain'
    BY <1>1, <1>2, ClaimedStep
  <1>4. (HeightsAgree => HonestChainStands /\ PrunedOnlyForFraud)'
    <2>1. HeightsAgree' => HeightsAgree
      BY DEF HeightsAgree
    <2>2. HeightsAgree => HonestChainStands' /\ PrunedOnlyForFraud'
      BY <1>1, StandsStep, PrunedStep
    <2>3. QED
      BY <2>1, <2>2
  <1>5. GuardShape' /\ ValidatorFollowsChain'
    BY <1>1, FollowsStep
  <1>6. (conduct # "false" /\ restarts = 0 /\ InBlock =>
            ~FraudIn(NextTransition) /\ ~Unsupported(NextTransition))'
    BY <1>2, <1>3, <1>5, NeverAccused, PTL
  <1>7. (conduct # "false" /\ restarts = 0 => guard.doing # "proved")'
    BY <1>1, NoProofStep
  <1>8. HonestNeverAccused'
    BY <1>6, <1>7 DEF HonestNeverAccused
  <1>9. QED
    BY <1>2, <1>3, <1>4, <1>5, <1>8, <1>10 DEF FraudInv

\* Every behaviour keeps what makes the properties inductive.
LEMMA FraudInvariant == Spec => []FraudInv
  <1>1. Init => FraudInv
    BY InitFacts DEF FraudInv
  <1>2. FraudInv /\ [Next]_vars => FraudInv'
    BY FraudInvStep
  <1>3. QED
    BY <1>1, <1>2, PTL DEF Spec

\* The variables keep their types.
LEMMA TypesHold ==
  ASSUME FraudType
  PROVE  TypeOK
  <1>1. \A m \in {head, local} : MachineType(m)
    BY ShapeFacts DEF FraudType
  <1>2. ASSUME NEW m, MachineType(m)
        PROVE  /\ DOMAIN m.keys \subseteq Addresses
               /\ \A a \in DOMAIN m.keys : m.keys[a] \in 0..m.lastOpen
               /\ \A s \in Slots : Encodable(m.leaves[s].balances)
    <2>1. m.leaves \in Roots
      BY <1>2 DEF MachineType
    <2>2. QED
      BY <1>2, <2>1, MachineFacts DEF Roots, States, Encodable
  <1>3. ChainType /\ GuardType
    BY DEF FraudType
  <1>4. /\ guard.doing \in Doings
        /\ guard.saved \in Nat /\ guard.lastBlockValidated \in Nat
        /\ guard.saved <= guard.lastBlockValidated
        /\ position.blockNumber \in 1..(MaxBlocks + 1)
        /\ position.transitionIndex \in 0..MaxTransitions
    BY <1>3 DEF GuardType, Guards, Positions
  <1>5. guard.saved \in 0..guard.lastBlockValidated
    BY <1>4
  <1>6. /\ conduct \in {"sound", "divergent", "false"}
        /\ pruned \subseteq DOMAIN posted /\ misled \in BOOLEAN
        /\ Len(posted) <= MaxBlocks /\ Len(pending) <= MaxTransitions
        /\ DOMAIN stored \subseteq DOMAIN posted
        /\ restarts \in 0..MaxRestarts
    BY <1>3 DEF ChainType, GuardType
  <1>7. \A m \in {head, local} :
           /\ DOMAIN m.keys \subseteq Addresses
           /\ \A a \in DOMAIN m.keys : m.keys[a] \in 0..m.lastOpen
           /\ \A s \in Slots : Encodable(m.leaves[s].balances)
    BY <1>1, <1>2
  <1>8. guard.doing \in {"waiting", "validating", "saving", "proved", "exited"}
    BY <1>4 DEF Doings
  <1>9. QED
    BY <1>4, <1>5, <1>6, <1>7, <1>8 DEF TypeOK

\* The variables keep their types, and a validator whose process was not
\* restarted has the state that the chain claims at its position.
THEOREM ValidatorFollows == Spec => []ValidatorInv
  <1>1. FraudInv => ValidatorInv
    BY TypesHold DEF FraudInv, ValidatorInv
  <1>2. QED
    BY <1>1, FraudInvariant, PTL

\* Whatever the heights of the trees: a guard that was not restarted never
\* takes a transition of the aggregator's machine for fraud, nor gives up on
\* one, before a false transition is posted.
THEOREM HonestBlocksPassTheGuard == Spec => []HonestNeverAccused
  <1>1. FraudInv => HonestNeverAccused
    BY DEF FraudInv
  <1>2. QED
    BY <1>1, FraudInvariant, PTL

\* If the contract's height is the machine's, no call about two transitions of
\* the chain prunes a block of an aggregator that posts what its machine
\* computes, whichever they are and whatever else is given with them; and no
\* guard takes such a block for fraud.  Calls about an element that is no
\* transition of its block, or is there at another index, are left out: the
\* contract takes them, and they prune any block.
THEOREM SoundAggregatorsAreSafe ==
  ASSUME HeightsAgree
  PROVE  Spec => []HonestAreSafe
  <1>1. FraudInv => HonestAreSafe
    BY DEF FraudInv, HonestAreSafe
  <1>2. QED
    BY <1>1, FraudInvariant, PTL

\* If the contract's height is the machine's, and until a call is about an
\* element that is not what it is said to be, the contract only deletes a
\* block if that block, or one before it that is deleted too, has a transition
\* that does not follow from the one before.
THEOREM OnlyFraudIsPruned ==
  ASSUME HeightsAgree
  PROVE  Spec => []PrunedOnlyForFraud
  <1>1. FraudInv => PrunedOnlyForFraud
    BY DEF FraudInv
  <1>2. QED
    BY <1>1, FraudInvariant, PTL

LEMMA AgreementHolds == FraudInv => EvaluatorAgrees
  <1> SUFFICES ASSUME FraudInv, NEW tx \in Transactions,
                      tx.sender \in DOMAIN head.keys, ~Divergent(head, tx)
               PROVE  Accepted(head, tx)
                         <=> Follows(head.leaves, TransitionOf(head, tx))
    BY DEF EvaluatorAgrees
  <1>1. MachineShape(head)
    BY DEF FraudInv, FraudType
  <1>2. SignedTransaction(tx)
    BY FraudAssumption
  <1>3. QED
    BY <1>1, <1>2, BothAgree

\* Given the contents of the slots, the contract's evaluator finds for the
\* transition of a transaction what the machine computed, whichever the
\* transaction and save where the two are known to differ: it succeeds for
\* those that the machine accepts and no others.  Whether the contents can be
\* proved to the contract is another question: see AllComputeTheSame.
THEOREM EvaluatorAgreesWithMachine == Spec => []EvaluatorAgrees
  BY AgreementHolds, FraudInvariant, PTL

\* If the contract's height and its leaves are the machine's, which those of
\* the programs are not, aggregator, validator and contract compute the same:
\* what a guard that was not restarted takes for
\* fraud the contract can be convinced of, and what it lets pass the contract
\* cannot, save where they are known to differ.
THEOREM AllComputeTheSame ==
  ASSUME HeightsAgree, SameLeaves
  PROVE  Spec => []AllAgree
  <1>1. FraudInv => EvaluatorAgrees
    BY AgreementHolds
  <1>2. FraudInv => GuardAgreesWithContract
    BY GuardAndContractAgree DEF FraudInv
  <1>3. FraudInv => AllAgree
    BY <1>1, <1>2 DEF AllAgree
  <1>4. QED
    BY <1>3, FraudInvariant, PTL

=============================================================================
