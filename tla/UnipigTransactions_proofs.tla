----------------------- MODULE UnipigTransactions_proofs -----------------------
(***************************************************************************)
(* What the machine computes: the types of its operators, whose slots are  *)
(* whose, and that a transaction moves tokens without making any, for      *)
(* every fee, tree and machine.                                            *)
(***************************************************************************)
EXTENDS UnipigTransactions, FiniteSetTheorems, TLAPS

-----------------------------------------------------------------------------
(***************************************************************************)
(* Slots, transactions and machines.                                       *)
(***************************************************************************)
LEMMA SlotsAreFirst ==
    \E n \in Nat \ {0} : Slots = 0..(n - 1) /\ MaxAddresses = 2 * n - 1
  <1>1. TreeHeight \in 1..TreeHeight
    BY TransactionsAssumption
  <1>2. /\ 2^(TreeHeight - 1) \in Nat \ {0}
        /\ 2^TreeHeight = 2 * 2^(TreeHeight - 1)
    BY <1>1, TransactionsAssumption
  <1>3. QED
    BY <1>2 DEF Slots, MaxAddresses

LEMMA SlotsAreNat == Slots \subseteq Nat /\ 0 \in Slots
  BY SlotsAreFirst

LEMMA TransferFields ==
  ASSUME NEW f, NEW r, NEW k, NEW n, NEW s
  PROVE  LET tx == Signed(Transfer(f, r, k, n), s)
         IN  /\ tx.kind = "transfer" /\ tx.sender = f /\ tx.recipient = r
             /\ tx.token = k /\ tx.amount = n /\ tx.signer = s
  BY DEF Signed, Transfer

LEMMA SwapFields ==
  ASSUME NEW f, NEW k, NEW n, NEW m, NEW s
  PROVE  LET tx == Signed(Swap(f, k, n, m), s)
         IN  /\ tx.kind = "swap" /\ tx.sender = f
             /\ tx.token = k /\ tx.amount = n /\ tx.minOutput = m
             /\ tx.signer = s
  BY DEF Signed, Swap

LEMMA KindsOfTransactions ==
  ASSUME NEW tx, SignedTransaction(tx)
  PROVE  /\ tx.sender \in Addresses /\ tx.signer \in Addresses
         /\ tx.token \in Tokens /\ tx.amount \in Nat
         /\ tx.kind \in {"transfer", "swap"}
         /\ tx.kind = "transfer" =>
               /\ tx.recipient \in Addresses
               /\ tx = Signed(Transfer(tx.sender, tx.recipient, tx.token,
                                       tx.amount), tx.signer)
         /\ tx.kind = "swap" =>
               /\ tx.minOutput \in Nat
               /\ tx = Signed(Swap(tx.sender, tx.token, tx.amount,
                                   tx.minOutput), tx.signer)
  BY DEF SignedTransaction

Balance == [Tokens -> 0..(Width - 1)]

LEMMA EmptyIsAState == NoBalance \in Balance /\ Empty \in States
  BY TransactionsAssumption DEF Balance, NoBalance, Empty, State, States

LEMMA StateIsAState ==
  ASSUME NEW a \in Addresses, NEW b \in [Tokens -> Int], Encodable(b)
  PROVE  b \in Balance /\ State(a, b) \in States
  BY DEF Balance, State, States, Encodable

LEMMA MachineFacts ==
  ASSUME NEW m, MachineType(m)
  PROVE  /\ m.lastOpen \in Nat /\ m.leaves \in Roots
         /\ \A a \in DOMAIN m.keys : a \in Addresses /\ m.keys[a] \in 0..m.lastOpen
  BY DEF MachineType

LEMMA LeafIsAState ==
  ASSUME NEW m, MachineType(m), NEW s
  PROVE  GetLeaf(m, s) \in States
  BY EmptyIsAState DEF MachineType, Roots, GetLeaf

LEMMA BalancesType ==
  ASSUME NEW m, MachineType(m), NEW a
  PROVE  GetBalances(m, a) \in Balance
  BY LeafIsAState, EmptyIsAState DEF GetBalances, States, Balance

LEMMA PlusType ==
  ASSUME NEW b \in [Tokens -> Int], NEW k \in Tokens, NEW n \in Int
  PROVE  /\ Plus(b, k, n) \in [Tokens -> Int]
         /\ \A l \in Tokens : Plus(b, k, n)[l] = IF l = k THEN b[l] + n ELSE b[l]
  BY DEF Plus

\* The next slot is the last one given or the one after it.
LEMMA NextSlotIsNear ==
  ASSUME NEW m, MachineType(m)
  PROVE  /\ NextSlot(m) \in {m.lastOpen, m.lastOpen + 1}
         /\ \A a \in DOMAIN m.keys : m.keys[a] # NextSlot(m)
  <1> DEFINE used == {m.keys[a] : a \in DOMAIN m.keys}
             Free(n) == n \notin used /\ \A k \in m.lastOpen..(n - 1) : k \in used
  <1>1. m.lastOpen \in Nat /\ used \subseteq 0..m.lastOpen
    BY MachineFacts
  <1> HIDE DEF used
  <1>2. IsFiniteSet(used)
    <2>1. IsFiniteSet(0..m.lastOpen)
      BY <1>1, FS_Interval
    <2>2. QED
      BY <1>1, <2>1, FS_Subset
  <1>3. Cardinality(used) \in Nat /\ (used # {} => Cardinality(used) # 0)
    BY <1>2, FS_CardinalityType, FS_EmptySet
  <1>4. \E n \in m.lastOpen..(m.lastOpen + Cardinality(used)) : Free(n)
    <2>1. CASE m.lastOpen \in used
      <3>1. Free(m.lastOpen + 1)
        BY <1>1, <2>1
      <3>2. m.lastOpen + 1 \in m.lastOpen..(m.lastOpen + Cardinality(used))
        BY <1>1, <1>3, <2>1
      <3>3. QED
        BY <3>1, <3>2
    <2>2. CASE m.lastOpen \notin used
      <3>1. Free(m.lastOpen)
        BY <1>1, <2>2
      <3>2. m.lastOpen \in m.lastOpen..(m.lastOpen + Cardinality(used))
        BY <1>1, <1>3
      <3>3. QED
        BY <3>1, <3>2
    <2>3. QED
      BY <2>1, <2>2
  <1>5. NextSlot(m) = CHOOSE n \in m.lastOpen..(m.lastOpen + Cardinality(used)) :
                          Free(n)
    BY DEF NextSlot, used
  <1>6. NextSlot(m) \in m.lastOpen..(m.lastOpen + Cardinality(used))
        /\ Free(NextSlot(m))
    BY <1>4, <1>5
  <1>7. NextSlot(m) > m.lastOpen + 1 => m.lastOpen + 1 \in used
    BY <1>1, <1>6
  <1>8. NextSlot(m) \in {m.lastOpen, m.lastOpen + 1}
    BY <1>1, <1>6, <1>7
  <1>9. NextSlot(m) \notin used
    BY <1>6
  <1>10. QED
    BY <1>8, <1>9 DEF used

LEMMA WithKeyType ==
  ASSUME NEW m, MachineType(m), NEW a \in Addresses
  PROVE  LET k == WithKey(m, a)
         IN  /\ MachineType(k)
             /\ k.leaves = m.leaves
             /\ DOMAIN m.keys \subseteq DOMAIN k.keys
             /\ \A c \in DOMAIN m.keys : k.keys[c] = m.keys[c]
  <1>1. CASE a \in DOMAIN m.keys
    BY <1>1 DEF WithKey
  <1>2. CASE a \notin DOMAIN m.keys
    <2> DEFINE n == NextSlot(m)
               grown == [c \in DOMAIN m.keys \cup {a} |->
                            IF c = a THEN n ELSE m.keys[c]]
    <2>1. n \in Nat /\ m.lastOpen \in Nat /\ m.lastOpen <= n
      BY NextSlotIsNear DEF MachineType
    <2> HIDE DEF n
    <2>2. \A c \in DOMAIN m.keys : m.keys[c] \in 0..n
      BY <2>1 DEF MachineType
    <2>3. CASE AtCapacity(m)
      <3>1. WithKey(m, a) = Machine(m.keys, n, m.leaves)
        BY <1>2, <2>3 DEF WithKey, n
      <3>2. QED
        BY <3>1, <2>1, <2>2 DEF MachineType, Machine
    <2>4. CASE ~AtCapacity(m)
      <3>1. WithKey(m, a) = Machine(grown, n, m.leaves)
        BY <1>2, <2>4 DEF WithKey, n
      <3>2. grown \in [DOMAIN m.keys \cup {a} -> 0..n]
        BY <2>1, <2>2
      <3>3. QED
        BY <1>2, <3>1, <3>2, <2>1 DEF MachineType, Machine
    <2>5. QED
      BY <2>3, <2>4
  <1>3. QED
    BY <1>1, <1>2

LEMMA WrittenType ==
  ASSUME NEW m, MachineType(m), NEW a \in Addresses, NEW b \in [Tokens -> Int]
  PROVE  LET w == Written(m, Write(a, b))
         IN  MachineType(w) /\ w.keys = m.keys /\ w.lastOpen = m.lastOpen
  <1> DEFINE s == m.keys[a]
             guarded == /\ a \in DOMAIN m.keys /\ s \in DOMAIN m.leaves
                        /\ Encodable(b)
  <1>1. CASE ~guarded
    BY <1>1 DEF Written, Write
  <1>2. CASE guarded
    <2>1. State(a, b) \in States
      BY <1>2, StateIsAState
    <2>2. Written(m, Write(a, b)) =
            [m EXCEPT !.leaves[s] = State(a, b)]
      BY <1>2 DEF Written, Write
    <2> DEFINE leaves == [m.leaves EXCEPT ![s] = State(a, b)]
    <2>3. leaves \in Roots
      BY <2>1, <1>2 DEF Roots, MachineType
    <2>4. Written(m, Write(a, b)) = Machine(m.keys, m.lastOpen, leaves)
      BY <2>2 DEF MachineType, Machine
    <2> HIDE DEF leaves
    <2>5. QED
      BY <2>3, <2>4 DEF MachineType, Machine
  <1>3. QED
    BY <1>1, <1>2

\* What a machine is given: a transaction that names what there is.
TransactionType(tx) ==
  /\ tx.sender \in Addresses /\ tx.signer \in Addresses
  /\ tx.token \in Tokens /\ tx.amount \in Nat \ {0}
  /\ tx.kind \in {"transfer", "swap"}
  /\ tx.kind = "transfer" => tx.recipient \in Addresses

LEMMA OtherIsAToken ==
  ASSUME NEW k \in Tokens
  PROVE  Other(k) \in Tokens /\ Other(k) # k /\ k \in Nat
         /\ \A l \in Tokens : l # k => l = Other(k)
  BY DEF Other, Tokens

LEMMA BalanceIsNat ==
  ASSUME NEW b \in Balance, NEW k \in Tokens
  PROVE  b[k] \in Nat /\ b[k] < Width /\ b \in [Tokens -> Int]
         /\ b[0] \in Nat /\ b[1] \in Nat
  BY TransactionsAssumption DEF Balance, Tokens

\* The fee leaves something to swap.
LEMMA InputIsPositive ==
  ASSUME NEW n \in Nat \ {0}
  PROVE  n * (10000 - FeeBips) \in Nat \ {0}
  <1>1. 10000 - FeeBips \in Nat \ {0}
    BY TransactionsAssumption
  <1> DEFINE r == 10000 - FeeBips
  <1> HIDE DEF r
  <1>2. r \in Nat \ {0} => n * r \in Nat \ {0}
    OBVIOUS
  <1>3. QED
    BY <1>1, <1>2 DEF r

LEMMA SwapOutputType ==
  ASSUME NEW m, MachineType(m), NEW tx, TransactionType(tx)
  PROVE  SwapOutput(m, tx) \in Int
  <1> DEFINE pool  == GetBalances(m, Uniswap)
             total == tx.amount * (10000 - FeeBips) + 10000 * pool[tx.token]
             product == pool[0] * pool[1]
  <1>1. pool \in Balance
    BY BalancesType
  <1>2. tx.token \in Tokens /\ tx.amount \in Nat \ {0}
    BY DEF TransactionType
  <1>3. /\ pool[tx.token] \in Nat /\ pool[0] \in Nat /\ pool[1] \in Nat
        /\ pool[Other(tx.token)] \in Nat
    BY <1>1, <1>2, BalanceIsNat, OtherIsAToken
  <1>4. tx.amount * (10000 - FeeBips) \in Nat \ {0}
    BY <1>2, InputIsPositive
  <1>5. SwapOutput(m, tx) =
            pool[Other(tx.token)] - (-((-(10000 * product)) \div total))
    BY DEF SwapOutput, NewOutputBalance, Ceiling
  <1>6. product \in Int
    BY <1>3
  <1> DEFINE given == tx.amount * (10000 - FeeBips)
             has == pool[tx.token]
  <1> HIDE DEF product, pool, given, has
  <1>7. total \in Nat \ {0}
    BY <1>3, <1>4 DEF given, has
  <1> HIDE DEF total
  <1>8. (-(10000 * product)) \div total \in Int
    BY <1>6, <1>7
  <1>9. QED
    BY <1>3, <1>5, <1>8

LEMMA WritesType ==
  ASSUME NEW m, MachineType(m), NEW tx, TransactionType(tx)
  PROVE  \E a, c \in Addresses : \E b, d \in [Tokens -> Int] :
             Writes(m, tx) = <<Write(a, b), Write(c, d)>>
  <1>0. /\ tx.sender \in Addresses /\ tx.signer \in Addresses
        /\ Uniswap \in Addresses
        /\ tx.token \in Tokens /\ tx.amount \in Int /\ -tx.amount \in Int
    BY TransactionsAssumption DEF TransactionType
  <1>1. \A x \in Addresses : GetBalances(m, x) \in [Tokens -> Int]
    BY BalancesType, BalanceIsNat, <1>0
  <1>2. CASE tx.kind = "transfer"
    <2>1. tx.recipient \in Addresses
      BY <1>2 DEF TransactionType
    <2> DEFINE b == Plus(GetBalances(m, tx.sender), tx.token, -tx.amount)
               d == Plus(GetBalances(m, tx.recipient), tx.token, tx.amount)
    <2>2. b \in [Tokens -> Int] /\ d \in [Tokens -> Int]
      BY <1>0, <1>1, <2>1, PlusType
    <2>3. Writes(m, tx) = <<Write(tx.sender, b), Write(tx.recipient, d)>>
      BY <1>2 DEF Writes, TransferWrites
    <2>4. QED
      BY <1>0, <2>1, <2>2, <2>3
  <1>3. CASE tx.kind = "swap"
    <2> DEFINE o == Other(tx.token)
               n == SwapOutput(m, tx)
               b1 == Plus(GetBalances(m, tx.signer), tx.token, -tx.amount)
               d1 == Plus(GetBalances(m, Uniswap), tx.token, tx.amount)
               b == Plus(b1, o, n)
               d == Plus(d1, o, -n)
    <2>1. b1 \in [Tokens -> Int] /\ d1 \in [Tokens -> Int]
      BY <1>0, <1>1, PlusType
    <2>2. n \in Int /\ -n \in Int /\ o \in Tokens
      BY <1>0, SwapOutputType, OtherIsAToken
    <2> HIDE DEF n, o, b1, d1
    <2>3. b \in [Tokens -> Int] /\ d \in [Tokens -> Int]
      BY <2>1, <2>2, PlusType
    <2>4. Writes(m, tx) = <<Write(tx.signer, b), Write(Uniswap, d)>>
      BY <1>3 DEF Writes, SwapWrites, n, o, b1, d1
    <2>5. QED
      BY <1>0, <2>3, <2>4
  <1>4. QED
    BY <1>2, <1>3 DEF TransactionType

\* Whatever is applied to it, and however far it gets, a machine stays one.
LEMMA ApplyType ==
  ASSUME NEW m, MachineType(m), NEW tx, TransactionType(tx)
  PROVE  MachineType(ApplyTransaction(m, tx))
  <1>1. PICK a \in Addresses, c \in Addresses, b \in [Tokens -> Int],
             d \in [Tokens -> Int] :
            Writes(m, tx) = <<Write(a, b), Write(c, d)>>
    BY WritesType
  <1> DEFINE k == WithKey(m, a)
             l == WithKey(k, c)
             w == Written(l, Write(a, b))
  <1>2. MachineType(k)
    BY WithKeyType
  <1>3. MachineType(l)
    BY <1>2, WithKeyType
  <1>4. MachineType(w)
    BY <1>3, WrittenType
  <1>5. MachineType(Written(w, Write(c, d)))
    BY <1>4, WrittenType
  <1>6. Write(a, b).address = a /\ Write(c, d).address = c
    BY DEF Write
  <1>7. ApplyTransaction(m, tx) = Written(w, Write(c, d))
    BY <1>1, <1>6 DEF ApplyTransaction
  <1>8. QED
    BY <1>5, <1>7

LEMMA NotRefusedType ==
  ASSUME NEW m, NEW tx, SignedTransaction(tx), ~Refused(m, tx)
  PROVE  TransactionType(tx)
  <1>1. tx.amount \in Nat /\ ~(tx.amount < 1)
    BY KindsOfTransactions DEF Refused
  <1>2. QED
    BY <1>1, KindsOfTransactions DEF TransactionType

SenderLeft(m, tx) == Plus(GetBalances(m, tx.sender), tx.token, -tx.amount)

RecipientGets(m, tx) == Plus(GetBalances(m, tx.recipient), tx.token, tx.amount)

LEMMA BalancesOfUnknown ==
  ASSUME NEW m, NEW a, a \notin DOMAIN m.keys
  PROVE  GetBalances(m, a) = NoBalance
  BY DEF GetBalances

SignerLeft(m, tx) ==
  Plus(Plus(GetBalances(m, tx.signer), tx.token, -tx.amount),
       Other(tx.token), SwapOutput(m, tx))

PoolGets(m, tx) ==
  Plus(Plus(GetBalances(m, Uniswap), tx.token, tx.amount),
       Other(tx.token), -SwapOutput(m, tx))

LEMMA SwapWritesType ==
  ASSUME NEW m, MachineType(m), NEW tx, TransactionType(tx)
  PROVE  /\ SignerLeft(m, tx) \in [Tokens -> Int]
         /\ PoolGets(m, tx) \in [Tokens -> Int]
         /\ SignerLeft(m, tx)[tx.token] =
               GetBalances(m, tx.signer)[tx.token] - tx.amount
         /\ SignerLeft(m, tx)[Other(tx.token)] =
               GetBalances(m, tx.signer)[Other(tx.token)] + SwapOutput(m, tx)
         /\ PoolGets(m, tx)[tx.token] =
               GetBalances(m, Uniswap)[tx.token] + tx.amount
         /\ PoolGets(m, tx)[Other(tx.token)] =
               GetBalances(m, Uniswap)[Other(tx.token)] - SwapOutput(m, tx)
  <1> DEFINE o == Other(tx.token)
             n == SwapOutput(m, tx)
             sb == GetBalances(m, tx.signer)
             pb == GetBalances(m, Uniswap)
             b1 == Plus(sb, tx.token, -tx.amount)
             d1 == Plus(pb, tx.token, tx.amount)
  <1>1. /\ tx.token \in Tokens /\ tx.amount \in Int /\ -tx.amount \in Int
    BY DEF TransactionType
  <1>2. n \in Int /\ -n \in Int /\ o \in Tokens /\ o # tx.token
    BY <1>1, SwapOutputType, OtherIsAToken
  <1>3. sb \in [Tokens -> Int] /\ pb \in [Tokens -> Int]
    BY BalancesType, BalanceIsNat, <1>1
  <1>4. SignerLeft(m, tx) = Plus(b1, o, n) /\ PoolGets(m, tx) = Plus(d1, o, -n)
    BY DEF SignerLeft, PoolGets
  <1> HIDE DEF n, o, sb, pb
  <1>5a. b1 \in [Tokens -> Int] /\ b1[tx.token] = sb[tx.token] - tx.amount
         /\ b1[o] = sb[o]
    <2>1. b1 \in [Tokens -> Int]
      BY <1>1, <1>3, PlusType
    <2>2. \A l \in Tokens : b1[l] = IF l = tx.token THEN sb[l] + (-tx.amount) ELSE sb[l]
      BY <1>1, <1>3, PlusType
    <2> HIDE DEF b1
    <2>3. b1[tx.token] = sb[tx.token] + (-tx.amount)
      BY <1>1, <2>2
    <2>4. b1[o] = sb[o]
      BY <1>2, <2>2
    <2>5. QED
      BY <1>1, <1>3, <2>1, <2>3, <2>4
  <1>5b. d1 \in [Tokens -> Int] /\ d1[tx.token] = pb[tx.token] + tx.amount
         /\ d1[o] = pb[o]
    <2>1. d1 \in [Tokens -> Int]
      BY <1>1, <1>3, PlusType
    <2>2. \A l \in Tokens : d1[l] = IF l = tx.token THEN pb[l] + (tx.amount) ELSE pb[l]
      BY <1>1, <1>3, PlusType
    <2> HIDE DEF d1
    <2>3. d1[tx.token] = pb[tx.token] + (tx.amount)
      BY <1>1, <2>2
    <2>4. d1[o] = pb[o]
      BY <1>2, <2>2
    <2>5. QED
      BY <1>1, <1>3, <2>1, <2>3, <2>4
  <1> HIDE DEF b1, d1
  <1>6a. /\ Plus(b1, o, n) \in [Tokens -> Int]
         /\ Plus(b1, o, n)[tx.token] = b1[tx.token] /\ Plus(b1, o, n)[o] = b1[o] + n
    BY <1>1, <1>2, <1>5a, PlusType
  <1>6b. /\ Plus(d1, o, -n) \in [Tokens -> Int]
         /\ Plus(d1, o, -n)[tx.token] = d1[tx.token] /\ Plus(d1, o, -n)[o] = d1[o] - n
    BY <1>1, <1>2, <1>5b, PlusType
  <1>7. QED
    BY <1>4, <1>5a, <1>5b, <1>6a, <1>6b DEF n, o, sb, pb

-----------------------------------------------------------------------------
(***************************************************************************)
(* What a transaction does to the tokens.                                  *)
(***************************************************************************)
LEMMA WritesOfTransfer ==
  ASSUME NEW m, NEW tx, tx.kind = "transfer"
  PROVE  Writes(m, tx) = <<Write(tx.sender, SenderLeft(m, tx)),
                           Write(tx.recipient, RecipientGets(m, tx))>>
  BY DEF Writes, TransferWrites, SenderLeft, RecipientGets

LEMMA WritesOfSwap ==
  ASSUME NEW m, NEW tx, tx.kind = "swap"
  PROVE  Writes(m, tx) = <<Write(tx.signer, SignerLeft(m, tx)),
                           Write(Uniswap, PoolGets(m, tx))>>
  BY DEF Writes, SwapWrites, SignerLeft, PoolGets

LEMMA TransferWritesType ==
  ASSUME NEW m, MachineType(m), NEW tx, TransactionType(tx), tx.kind = "transfer"
  PROVE  /\ SenderLeft(m, tx) \in [Tokens -> Int]
         /\ RecipientGets(m, tx) \in [Tokens -> Int]
         /\ \A k \in Tokens :
               /\ SenderLeft(m, tx)[k] = GetBalances(m, tx.sender)[k]
                                         - (IF k = tx.token THEN tx.amount ELSE 0)
               /\ RecipientGets(m, tx)[k] = GetBalances(m, tx.recipient)[k]
                                         + (IF k = tx.token THEN tx.amount ELSE 0)
  <1> DEFINE sb == GetBalances(m, tx.sender)
             rb == GetBalances(m, tx.recipient)
  <1>1. tx.token \in Tokens /\ tx.amount \in Int /\ -tx.amount \in Int
    BY DEF TransactionType
  <1>2. sb \in [Tokens -> Int] /\ rb \in [Tokens -> Int]
    BY BalancesType, BalanceIsNat, <1>1
  <1>3. SenderLeft(m, tx) = Plus(sb, tx.token, -tx.amount)
        /\ RecipientGets(m, tx) = Plus(rb, tx.token, tx.amount)
    BY DEF SenderLeft, RecipientGets
  <1> HIDE DEF sb, rb
  <1>4. /\ Plus(sb, tx.token, -tx.amount) \in [Tokens -> Int]
        /\ \A k \in Tokens : Plus(sb, tx.token, -tx.amount)[k] =
              IF k = tx.token THEN sb[k] + (-tx.amount) ELSE sb[k]
    BY <1>1, <1>2, PlusType
  <1>5. /\ Plus(rb, tx.token, tx.amount) \in [Tokens -> Int]
        /\ \A k \in Tokens : Plus(rb, tx.token, tx.amount)[k] =
              IF k = tx.token THEN rb[k] + tx.amount ELSE rb[k]
    BY <1>1, <1>2, PlusType
  <1>6. \A k \in Tokens : sb[k] \in Int /\ rb[k] \in Int
    BY <1>2
  <1>7. QED
    BY <1>1, <1>3, <1>4, <1>5, <1>6 DEF sb, rb

\* A transaction makes no token and loses none: what its two writes add up to
\* is what it read of its two accounts, whatever the fee and the rounding
\* (TransferWrites and SwapWrites; when an account pays itself the second
\* write is all that stays, which is why such payments are told apart).
THEOREM TokensAreMoved ==
  ASSUME NEW m, MachineType(m), NEW tx, TransactionType(tx), NEW k \in Tokens
  PROVE  LET w == Writes(m, tx)
         IN  w[1].balances[k] + w[2].balances[k]
                 = GetBalances(m, w[1].address)[k] + GetBalances(m, w[2].address)[k]
  <1>1. \A a, b : Write(a, b).address = a /\ Write(a, b).balances = b
    BY DEF Write
  <1>2. \A a : GetBalances(m, a)[k] \in Int
    BY BalancesType, BalanceIsNat
  <1>3. CASE tx.kind = "transfer"
    <2>1. /\ SenderLeft(m, tx)[k] = GetBalances(m, tx.sender)[k]
                                    - (IF k = tx.token THEN tx.amount ELSE 0)
          /\ RecipientGets(m, tx)[k] = GetBalances(m, tx.recipient)[k]
                                    + (IF k = tx.token THEN tx.amount ELSE 0)
      BY <1>3, TransferWritesType
    <2>2. (IF k = tx.token THEN tx.amount ELSE 0) \in Int
      BY DEF TransactionType
    <2>3. SenderLeft(m, tx)[k] + RecipientGets(m, tx)[k]
            = GetBalances(m, tx.sender)[k] + GetBalances(m, tx.recipient)[k]
      BY <1>2, <2>1, <2>2
    <2>4. QED
      BY <1>1, <1>3, <2>3, WritesOfTransfer
  <1>4. CASE tx.kind = "swap"
    <2>1. tx.token \in Tokens /\ tx.amount \in Int
      BY DEF TransactionType
    <2>2. k = tx.token \/ k = Other(tx.token)
      BY <2>1, OtherIsAToken
    <2>3. SignerLeft(m, tx)[k] + PoolGets(m, tx)[k]
            = GetBalances(m, tx.signer)[k] + GetBalances(m, Uniswap)[k]
      <3>1. CASE k = tx.token
        BY <1>2, <2>1, <3>1, SwapWritesType
      <3>2. CASE k = Other(tx.token)
        BY <1>2, <2>1, <3>2, SwapWritesType, SwapOutputType
      <3>3. QED
        BY <2>2, <3>1, <3>2
    <2>4. QED
      BY <1>1, <1>4, <2>3, WritesOfSwap
  <1>5. QED
    BY <1>3, <1>4 DEF TransactionType

\* Rounding up never gives less than the quotient.
LEMMA CeilingIs ==
  ASSUME NEW n \in Nat, NEW t \in Nat \ {0}
  PROVE  Ceiling(n, t) \in Nat /\ t * Ceiling(n, t) >= n
  <1> DEFINE q == (-n) \div t
             r == (-n) % t
  <1>1. q \in Int /\ r \in 0..(t - 1) /\ -n = t * q + r
    OBVIOUS
  <1>2. Ceiling(n, t) = -q
    BY DEF Ceiling
  <1> HIDE DEF q, r
  <1>3. t * (-q) = -(t * q)
    BY <1>1
  <1>4. t * (-q) >= n
    BY <1>1, <1>3
  <1>5. q > 0 => t * q > 0
    BY <1>1
  <1>6. q <= 0
    BY <1>1, <1>5
  <1>7. QED
    BY <1>1, <1>2, <1>4, <1>6

LEMMA ProductGrows ==
  ASSUME NEW d \in Nat \ {0}, NEW i \in Nat, NEW o \in Nat, NEW n \in Nat,
         NEW r \in 0..d, NEW p \in Nat,
         (n * r + d * i) * p >= d * (i * o)
  PROVE  (i + n) * p >= i * o
  <1>1. n * r <= n * d /\ n * d = d * n
    OBVIOUS
  <1>2. n * r + d * i <= d * (i + n)
    BY <1>1
  <1> DEFINE t == n * r + d * i
             u == i + n
             s == i * o
  <1>3. t \in Int /\ u \in Int /\ s \in Int
    OBVIOUS
  <1>4. t <= d * u /\ t * p >= d * s
    BY <1>2
  <1> HIDE DEF t, u, s
  <1>5. t * p <= (d * u) * p
    BY <1>3, <1>4
  <1>6. (d * u) * p = d * (u * p)
    BY <1>3
  <1>7. u * p \in Int
    BY <1>3
  <1>8. d * (u * p) >= d * s
    BY <1>3, <1>4, <1>5, <1>6, <1>7
  <1>9. u * p >= s
    BY <1>3, <1>7, <1>8
  <1>10. QED
    BY <1>9 DEF u, s

\* No swap makes the product of the pool's balances smaller: rounding the
\* pool's new balance up, and the fee that the formula leaves out of the
\* invariant, are both in the pool's favour (the swap's "invariant" of
\* rollup-state-machine.ts).
THEOREM SwapsKeepTheProduct ==
  ASSUME NEW m, MachineType(m), NEW tx, TransactionType(tx), tx.kind = "swap"
  PROVE  PoolGets(m, tx)[0] * PoolGets(m, tx)[1]
             >= GetBalances(m, Uniswap)[0] * GetBalances(m, Uniswap)[1]
  <1> DEFINE pool == GetBalances(m, Uniswap)
             k == tx.token
             c == Other(k)
             i == pool[k]
             o == pool[c]
             n == tx.amount
             r == 10000 - FeeBips
             p == NewOutputBalance(pool, k, n)
  <1>1. /\ k \in Tokens /\ n \in Nat \ {0} /\ c \in Tokens
        /\ (k = 0 /\ c = 1) \/ (k = 1 /\ c = 0)
    BY DEF TransactionType, Tokens, Other
  <1>2. pool \in Balance /\ i \in Nat /\ o \in Nat
    BY <1>1, BalancesType, BalanceIsNat
  <1>3. r \in 0..10000 /\ n * r \in Nat \ {0}
    <2>1. r \in 0..10000
      BY TransactionsAssumption
    <2>2. n * r \in Nat \ {0}
      BY <1>1, InputIsPositive
    <2>3. QED
      BY <2>1, <2>2
  <1>4. pool[0] * pool[1] = i * o /\ i * o \in Nat
    BY <1>1, <1>2
  <1>5. p = Ceiling(10000 * (i * o), n * r + 10000 * i)
    BY <1>4 DEF NewOutputBalance
  <1>6. /\ PoolGets(m, tx)[k] = i + n
        /\ PoolGets(m, tx)[c] = o - (o - p)
    BY SwapWritesType DEF SwapOutput
  <1> HIDE DEF r, i, o, n, k, c, p
  <1>7. 10000 * (i * o) \in Nat /\ n * r + 10000 * i \in Nat \ {0}
    BY <1>2, <1>3, <1>4
  <1>8. p \in Nat /\ (n * r + 10000 * i) * p >= 10000 * (i * o)
    BY <1>5, <1>7, CeilingIs
  <1>9. (i + n) * p >= i * o
    <2>1. PICK d \in Nat \ {0} : d = 10000
      OBVIOUS
    <2>2. i \in Nat /\ o \in Nat /\ n \in Nat /\ r \in 0..d /\ p \in Nat
      BY <1>1, <1>2, <1>3, <1>8, <2>1
    <2>3. (n * r + d * i) * p >= d * (i * o)
      BY <1>8, <2>1
    <2>4. QED
      BY <2>2, <2>3, ProductGrows, Zenon
  <1>10. PoolGets(m, tx)[c] = p
    BY <1>2, <1>6, <1>8
  <1>11. PoolGets(m, tx)[0] * PoolGets(m, tx)[1] = (i + n) * p
    BY <1>1, <1>2, <1>6, <1>8, <1>10
  <1>12. QED
    BY <1>4, <1>9, <1>11

=============================================================================
