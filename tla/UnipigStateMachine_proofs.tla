----------------------- MODULE UnipigStateMachine_proofs -----------------------
(***************************************************************************)
(* Proofs about the state machine as a process, for every tree, fee,       *)
(* genesis and transactions, and for crashes at any await.                 *)
(***************************************************************************)
EXTENDS UnipigStateMachine, UnipigTransactions_proofs, WellFoundedInduction

-----------------------------------------------------------------------------
(***************************************************************************)
(* Keys and jobs.                                                          *)
(***************************************************************************)
\* What a new address gets: the next slot and the next entry, or nothing.
LEMMA NewKeyIs ==
  ASSUME NEW m, MachineType(m), IsFiniteSet(DOMAIN m.keys),
         NEW x, x \notin DOMAIN m.keys
  PROVE  LET k == WithKey(m, x)
         IN  /\ k.leaves = m.leaves
             /\ k.lastOpen \in Nat /\ k.lastOpen >= m.lastOpen
             /\ \A y \in DOMAIN m.keys : m.keys[y] # k.lastOpen
             /\ IF x \in DOMAIN k.keys
                THEN /\ DOMAIN k.keys = DOMAIN m.keys \cup {x}
                     /\ k.keys[x] = k.lastOpen
                     /\ \A y \in DOMAIN m.keys : k.keys[y] = m.keys[y]
                     /\ Cardinality(DOMAIN k.keys) = Cardinality(DOMAIN m.keys) + 1
                ELSE k.keys = m.keys
             /\ IsFiniteSet(DOMAIN k.keys)
             /\ k.lastOpen = 0 => x \in DOMAIN k.keys
  <1> DEFINE n == NextSlot(m)
             grown == [c \in DOMAIN m.keys \cup {x} |->
                          IF c = x THEN n ELSE m.keys[c]]
  <1>1. /\ n \in Nat /\ n >= m.lastOpen
        /\ \A y \in DOMAIN m.keys : m.keys[y] # n
    BY NextSlotIsNear, MachineFacts
  <1>2. n = 0 => ~AtCapacity(m)
    BY <1>1, MachineFacts DEF AtCapacity
  <1>3. /\ IsFiniteSet(DOMAIN m.keys \cup {x})
        /\ Cardinality(DOMAIN m.keys \cup {x}) = Cardinality(DOMAIN m.keys) + 1
    BY FS_AddElement
  <1>4. CASE AtCapacity(m)
    <2>1. WithKey(m, x) = Machine(m.keys, n, m.leaves)
      BY <1>4 DEF WithKey
    <2> HIDE DEF n
    <2>2. QED
      BY <1>1, <1>2, <1>4, <2>1 DEF Machine
  <1>5. CASE ~AtCapacity(m)
    <2>1. WithKey(m, x) = Machine(grown, n, m.leaves)
      BY <1>5 DEF WithKey
    <2> HIDE DEF n
    <2>2. /\ DOMAIN grown = DOMAIN m.keys \cup {x} /\ grown[x] = n
          /\ \A y \in DOMAIN m.keys : grown[y] = m.keys[y]
      OBVIOUS
    <2> HIDE DEF grown
    <2>3. QED
      BY <1>1, <1>3, <2>1, <2>2 DEF Machine
  <1>6. QED
    BY <1>4, <1>5

LEMMA KnownKeyIs ==
  ASSUME NEW m, NEW x \in DOMAIN m.keys
  PROVE  WithKey(m, x) = m
  BY DEF WithKey

\* The job of a write.
LEMMA JobIs ==
  ASSUME NEW m, NEW x, NEW b, NEW n
  PROVE  LET j == Job(m, Write(x, b), n)
             k == WithKey(m, x)
         IN  /\ j.address = x /\ j.balances = b /\ j.of = n /\ j.left = {}
             /\ j.count = 0 /\ j.last = 0
             /\ x \in DOMAIN m.keys =>
                   j.at = "leaf" /\ j.slot = m.keys[x] /\ j.entry = 0
             /\ x \notin DOMAIN m.keys =>
                   /\ j.at = IF x \in DOMAIN k.keys THEN "entry" ELSE "full"
                   /\ j.slot = k.lastOpen
                   /\ j.entry = Cardinality(DOMAIN m.keys) + 1
  BY DEF Job, Write, Entry

LEMMA JobType ==
  ASSUME NEW m, MachineType(m), IsFiniteSet(DOMAIN m.keys),
         NEW x \in Addresses, NEW b \in [Tokens -> Int], NEW n \in Nat
  PROVE  Job(m, Write(x, b), n) \in Jobs
  <1> DEFINE j == Job(m, Write(x, b), n)
  <1>1. Cardinality(DOMAIN m.keys) \in Nat
    BY FS_CardinalityType
  <1>2. x \in DOMAIN m.keys => m.keys[x] \in Nat
    BY MachineFacts
  <1>3. WithKey(m, x).lastOpen \in Nat
    BY WithKeyType, MachineFacts
  <1>4. /\ j.address \in Addresses /\ j.balances \in [Tokens -> Int]
        /\ j.slot \in Nat /\ j.entry \in Nat
        /\ j.at \in {"entry", "counts", "leaf", "full"}
        /\ j.left \in SUBSET {"count", "last"}
        /\ j.count \in Nat /\ j.last \in Nat /\ j.of \in Nat
    BY <1>1, <1>2, <1>3, JobIs
  <1>5. j = [address |-> j.address, balances |-> j.balances, slot |-> j.slot,
             entry |-> j.entry, at |-> j.at, left |-> j.left,
             count |-> j.count, last |-> j.last, of |-> j.of]
    BY DEF Job
  <1> HIDE DEF j
  <1>6. QED
    BY <1>4, <1>5 DEF Jobs, j

LEMMA JobFacts ==
  ASSUME jobs \subseteq Jobs, NEW j \in jobs
  PROVE  /\ j.address \in Addresses /\ j.balances \in [Tokens -> Int]
         /\ j.slot \in Nat /\ j.entry \in Nat
         /\ j.at \in {"entry", "counts", "leaf", "full"}
         /\ j.left \in SUBSET {"count", "last"}
         /\ j.count \in Nat /\ j.last \in Nat /\ j.of \in Nat
  BY DEF Jobs

-----------------------------------------------------------------------------
(***************************************************************************)
(* Type correctness.                                                       *)
(***************************************************************************)
LEMMA WritesAre ==
  ASSUME NEW m, MachineType(m), NEW tx, TransactionType(tx), NEW i \in {1, 2}
  PROVE  LET w == Writes(m, tx)[i]
         IN  /\ w.address \in Addresses /\ w.balances \in [Tokens -> Int]
             /\ w = Write(w.address, w.balances)
  <1>1. PICK a \in Addresses, c \in Addresses, b \in [Tokens -> Int],
             d \in [Tokens -> Int] :
            Writes(m, tx) = <<Write(a, b), Write(c, d)>>
    BY WritesType
  <1>2. QED
    BY <1>1 DEF Write

LEMMA TypeFacts ==
  ASSUME TypeOK
  PROVE  /\ DOMAIN keys \subseteq Addresses /\ IsFiniteSet(DOMAIN keys)
         /\ keys \in [DOMAIN keys -> 0..lastOpen]
         /\ \A x \in DOMAIN keys : keys[x] \in Nat /\ keys[x] <= lastOpen
         /\ lastOpen \in Nat /\ tree \in Roots
         /\ DOMAIN tree = Slots /\ \A s \in Slots : tree[s] \in States
         /\ Cardinality(DOMAIN keys) \in Nat
         /\ MachineType(TheMachine)
         /\ TheMachine.keys = keys /\ TheMachine.lastOpen = lastOpen
         /\ TheMachine.leaves = Seen /\ Seen \in Roots
         /\ hidden \subseteq Slots /\ (hidden # {} => "broken" \in faults)
  <1>1. /\ TheMachine.keys = keys /\ TheMachine.lastOpen = lastOpen
        /\ TheMachine.leaves = Seen
    BY DEF TheMachine, Machine
  <1>2. /\ MachineType(TheMachine) /\ IsFiniteSet(DOMAIN keys)
        /\ tree \in Roots /\ hidden \subseteq Slots
        /\ (hidden # {} => "broken" \in faults)
    BY DEF TypeOK
  <1>3. /\ DOMAIN keys \subseteq Addresses
        /\ keys \in [DOMAIN keys -> 0..lastOpen]
        /\ lastOpen \in Nat /\ Seen \in Roots
    BY <1>1, <1>2 DEF MachineType
  <1>4. DOMAIN tree = Slots /\ \A s \in Slots : tree[s] \in States
    BY <1>2 DEF Roots
  <1>5. Cardinality(DOMAIN keys) \in Nat
    BY <1>2, FS_CardinalityType
  <1>6. QED
    BY <1>1, <1>2, <1>3, <1>4, <1>5

\* A leaf that cannot be read reads as the empty one: the machine's leaves are
\* of the type of a tree's.
LEMMA SeenIs ==
  ASSUME NEW t \in Roots, NEW h
  PROVE  [s \in Slots |-> IF s \in h THEN Empty ELSE t[s]] \in Roots
  BY EmptyIsAState DEF Roots

\* As long as no crash has broken the tree, the machine reads what it commits
\* to.
LEMMA WholeIsSeen ==
  ASSUME TypeOK, Whole
  PROVE  TheMachine.leaves = tree /\ Seen = tree /\ hidden = {}
  <1>1. hidden = {} /\ tree \in Roots /\ TheMachine.leaves = Seen
    BY TypeFacts DEF Whole
  <1>2. Seen = tree
    BY <1>1 DEF Seen, Roots
  <1>3. QED
    BY <1>1, <1>2

LEMMA MachineIsTyped ==
  ASSUME NEW k, NEW l, NEW t, DOMAIN k \subseteq Addresses,
         k \in [DOMAIN k -> 0..l], l \in Nat, t \in Roots
  PROVE  MachineType(Machine(k, l, t))
  BY DEF MachineType, Machine

\* What a transaction begins with: its accounts, their keys and its two jobs.
LEMMA BeginIs ==
  ASSUME TypeOK, NEW tx \in Transactions, Begin(tx)
  PROVE  LET first  == Writes(TheMachine, tx)[1]
             second == Writes(TheMachine, tx)[2]
             middle == WithKey(TheMachine, first.address)
             end    == WithKey(middle, second.address)
         IN  /\ TransactionType(tx)
             /\ first.address \in Addresses /\ second.address \in Addresses
             /\ first = Write(first.address, first.balances)
             /\ second = Write(second.address, second.balances)
             /\ MachineType(middle) /\ MachineType(end)
             /\ IsFiniteSet(DOMAIN middle.keys) /\ IsFiniteSet(DOMAIN end.keys)
             /\ keys' = end.keys /\ lastOpen' = end.lastOpen /\ tree' = tree
             /\ accepted + 1 \in 1..MaxTransactions
             /\ Job(TheMachine, first, accepted + 1) \in Jobs
             /\ Job(middle, second, accepted + 1) \in Jobs
             /\ jobs' = jobs \cup {Job(TheMachine, first, accepted + 1),
                                   Job(middle, second, accepted + 1)}
  <1> DEFINE first  == Writes(TheMachine, tx)[1]
             second == Writes(TheMachine, tx)[2]
             middle == WithKey(TheMachine, first.address)
             end    == WithKey(middle, second.address)
  <1>1. TransactionType(tx)
    BY MachineAssumption, NotRefusedType DEF Begin
  <1>2. MachineType(TheMachine) /\ IsFiniteSet(DOMAIN TheMachine.keys)
    BY TypeFacts
  <1>3. /\ first.address \in Addresses /\ first.balances \in [Tokens -> Int]
        /\ first = Write(first.address, first.balances)
        /\ second.address \in Addresses /\ second.balances \in [Tokens -> Int]
        /\ second = Write(second.address, second.balances)
    BY <1>1, <1>2, WritesAre
  <1>4. /\ keys' = end.keys /\ lastOpen' = end.lastOpen /\ tree' = tree
        /\ accepted < MaxTransactions
        /\ jobs' = jobs \cup {Job(TheMachine, first, accepted + 1),
                              Job(middle, second, accepted + 1)}
    BY DEF Begin
  <1>5. accepted + 1 \in 1..MaxTransactions /\ accepted + 1 \in Nat
    BY <1>4, MachineAssumption DEF TypeOK
  <1> HIDE DEF first, second
  <1>6. MachineType(middle) /\ IsFiniteSet(DOMAIN middle.keys)
    <2>1. CASE first.address \in DOMAIN TheMachine.keys
      BY <1>2, <2>1, KnownKeyIs
    <2>2. CASE first.address \notin DOMAIN TheMachine.keys
      BY <1>2, <1>3, <2>2, NewKeyIs, WithKeyType
    <2>3. QED
      BY <2>1, <2>2
  <1> HIDE DEF middle
  <1>7. MachineType(end) /\ IsFiniteSet(DOMAIN end.keys)
    <2>1. CASE second.address \in DOMAIN middle.keys
      BY <1>6, <2>1, KnownKeyIs
    <2>2. CASE second.address \notin DOMAIN middle.keys
      BY <1>6, <1>3, <2>2, NewKeyIs, WithKeyType
    <2>3. QED
      BY <2>1, <2>2
  <1>8. /\ Job(TheMachine, first, accepted + 1) \in Jobs
        /\ Job(middle, second, accepted + 1) \in Jobs
    <2>1. Job(TheMachine, Write(first.address, first.balances), accepted + 1) \in Jobs
      BY <1>2, <1>3, <1>5, JobType
    <2>2. Job(middle, Write(second.address, second.balances), accepted + 1) \in Jobs
      BY <1>3, <1>5, <1>6, JobType
    <2>3. QED
      BY <1>3, <2>1, <2>2
  <1>9. QED
    BY <1>1, <1>3, <1>4, <1>5, <1>6, <1>7, <1>8 DEF first, second, middle

-----------------------------------------------------------------------------
(***************************************************************************)
(* Finite sets, and what a restart reads.                                  *)
(***************************************************************************)
LEMMA ImageIsFinite ==
  ASSUME NEW S, IsFiniteSet(S), NEW f, NEW T, f \in [S -> T]
  PROVE  IsFiniteSet({f[x] : x \in S})
  <1>1. f \in [S -> {f[x] : x \in S}]
    OBVIOUS
  <1>2. f \in Surjection(S, {f[x] : x \in S})
    BY <1>1 DEF Surjection
  <1>3. QED
    BY <1>2, FS_Surjection

LEMMA FiniteHasMaximum ==
  ASSUME NEW S \in SUBSET Nat, S # {}, IsFiniteSet(S)
  PROVE  \E m \in S : \A s \in S : s <= m
  <1>1. PICK f : f \in Bijection(1..Cardinality(S), S)
    BY FS_CardinalityType DEF ExistsBijection
  <1>2. PICK n : n = Cardinality(S) /\ n \in Nat \ {0}
    BY FS_CardinalityType, FS_EmptySet
  <1>3. /\ f \in [1..n -> S] /\ \A s \in S : \E i \in 1..n : f[i] = s
    BY <1>1, <1>2 DEF Bijection, Injection, Surjection
  <1> DEFINE Top(k, i) == i \in 1..k /\ \A l \in 1..k : f[l] <= f[i]
             Bad == {k \in 1..n : ~ \E i \in 1..k : Top(k, i)}
  <1>4. Bad = {}
    <2> SUFFICES ASSUME Bad # {} PROVE FALSE
      OBVIOUS
    <2>1. PICK k \in Bad : \A l \in Bad : ~(l < k)
      <3> DEFINE below == OpToRel(<, Nat)
      <3>1. Bad \subseteq Nat /\ Bad # {}
        BY <1>2
      <3>2. IsWellFoundedOn(below, Nat)
        BY NatLessThanWellFounded, Zenon
      <3>3. \A i, j \in Nat : i < j => <<i, j>> \in below
        BY DEF OpToRel
      <3> HIDE DEF below, Bad
      <3>4. PICK k \in Bad : \A l \in Bad : ~(<<l, k>> \in below)
        BY <3>1, <3>2, WFMin
      <3>5. QED
        BY <3>1, <3>3, <3>4
    <2>2. k \in 1..n /\ ~ \E i \in 1..k : Top(k, i)
      BY DEF Bad
    <2>3. k # 1
      <3> SUFFICES ASSUME k = 1 PROVE FALSE
        OBVIOUS
      <3>1. f[1] \in Nat
        BY <1>2, <1>3
      <3>2. Top(1, 1)
        BY <3>1
      <3>3. QED
        BY <2>2, <3>2
    <2>4. k - 1 \in 1..n /\ k - 1 < k
      BY <1>2, <2>2, <2>3
    <2>5. k - 1 \notin Bad
      BY <2>1, <2>4
    <2>6. PICK i \in 1..(k - 1) : Top(k - 1, i)
      BY <2>4, <2>5
    <2>7. \A l \in 1..k : f[l] \in Nat /\ (l \in 1..(k - 1) \/ l = k)
      <3> SUFFICES ASSUME NEW l \in 1..k
                   PROVE  f[l] \in Nat /\ (l \in 1..(k - 1) \/ l = k)
        OBVIOUS
      <3>1. l \in 1..n /\ (l \in 1..(k - 1) \/ l = k)
        BY <1>2, <2>2
      <3>2. f[l] \in S
        BY <1>3, <3>1
      <3>3. QED
        BY <3>1, <3>2
    <2>8. i \in 1..k /\ k \in 1..k
      BY <1>2, <2>2
    <2>9. CASE f[k] <= f[i]
      <3>1. Top(k, i)
        BY <2>6, <2>7, <2>8, <2>9
      <3>2. QED
        BY <2>2, <2>8, <3>1
    <2>10. CASE ~(f[k] <= f[i])
      <3>1. \A l \in 1..k : f[l] <= f[k]
        BY <2>6, <2>7, <2>8, <2>10
      <3>2. QED
        BY <2>2, <2>8, <3>1
    <2>11. QED
      BY <2>9, <2>10
  <1>5. PICK i \in 1..n : Top(n, i)
    BY <1>2, <1>4
  <1>6. f[i] \in S /\ \A s \in S : s <= f[i]
    BY <1>3, <1>5
  <1>7. QED
    BY <1>6

\* What memory is after a restart: the last slot is the greatest there is.
LEMMA RecoveredIs ==
  ASSUME TypeOK
  PROVE  /\ DOMAIN RecoveredKeys = {disk.entries[i][1] : i \in StoredEntries}
         /\ DOMAIN RecoveredKeys \subseteq Addresses
         /\ IsFiniteSet(DOMAIN RecoveredKeys)
         /\ \A x \in DOMAIN RecoveredKeys :
               \E i \in StoredEntries : disk.entries[i] = <<x, RecoveredKeys[x]>>
         /\ RecoveredLast \in Nat
         /\ RecoveredKeys \in [DOMAIN RecoveredKeys -> 0..RecoveredLast]
         /\ \/ RecoveredLast = disk.last
            \/ \E x \in DOMAIN RecoveredKeys : RecoveredKeys[x] = RecoveredLast
         /\ disk.last <= RecoveredLast
  <1> DEFINE names == {disk.entries[i][1] : i \in StoredEntries}
             its(x) == {i \in StoredEntries : disk.entries[i][1] = x}
             one(x) == CHOOSE i \in its(x) : \A k \in its(x) : k <= i
  <1>1. /\ disk.count \in Nat /\ disk.last \in Nat
        /\ StoredEntries \subseteq 1..disk.count
        /\ \A i \in StoredEntries : disk.entries[i] \in Addresses \X Nat
    BY DEF TypeOK, StoredEntries
  <1>2. IsFiniteSet(StoredEntries) /\ StoredEntries \subseteq Nat
    <2>1. IsFiniteSet(1..disk.count)
      BY <1>1, FS_Interval
    <2>2. StoredEntries \in SUBSET (1..disk.count)
      BY <1>1
    <2>3. 1..disk.count \subseteq Nat
      BY <1>1
    <2>4. QED
      BY <2>1, <2>2, <2>3, FS_Subset
  <1>3. RecoveredKeys = [x \in names |-> disk.entries[one(x)][2]]
    BY DEF RecoveredKeys
  <1>4. \A x \in names : one(x) \in its(x)
    <2> SUFFICES ASSUME NEW x \in names PROVE one(x) \in its(x)
      OBVIOUS
    <2>1. its(x) \subseteq StoredEntries /\ its(x) # {}
      OBVIOUS
    <2>2. IsFiniteSet(its(x)) /\ its(x) \in SUBSET Nat
      BY <1>2, <2>1, FS_Subset
    <2> HIDE DEF its
    <2>3. \E m \in its(x) : \A s \in its(x) : s <= m
      BY <2>1, <2>2, FiniteHasMaximum
    <2>4. QED
      BY <2>3
  <1> HIDE DEF one
  <1>5. \A x \in names : /\ one(x) \in StoredEntries
                         /\ disk.entries[one(x)] = <<x, RecoveredKeys[x]>>
    <2> SUFFICES ASSUME NEW x \in names
                 PROVE  /\ one(x) \in StoredEntries
                        /\ disk.entries[one(x)] = <<x, RecoveredKeys[x]>>
      OBVIOUS
    <2>1. one(x) \in StoredEntries /\ disk.entries[one(x)][1] = x
      BY <1>4
    <2>2. disk.entries[one(x)][2] = RecoveredKeys[x]
      BY <1>3
    <2>3. disk.entries[one(x)] \in Addresses \X Nat
      BY <1>1, <2>1
    <2>4. QED
      BY <2>1, <2>2, <2>3
  <1>6. DOMAIN RecoveredKeys = names
    BY <1>3
  <1>7. names \subseteq Addresses
    BY <1>1
  <1>8. IsFiniteSet(names)
    <2> DEFINE f == [i \in StoredEntries |-> disk.entries[i][1]]
    <2>1. {f[i] : i \in StoredEntries} = names
      OBVIOUS
    <2>2. f \in [StoredEntries -> {f[i] : i \in StoredEntries}]
      OBVIOUS
    <2> HIDE DEF f
    <2>3. IsFiniteSet({f[i] : i \in StoredEntries})
      BY <1>2, <2>2, ImageIsFinite
    <2>4. QED
      BY <2>1, <2>3
  <1>9. \A x \in names : RecoveredKeys[x] \in Nat
    <2> SUFFICES ASSUME NEW x \in names PROVE RecoveredKeys[x] \in Nat
      OBVIOUS
    <2>1. <<x, RecoveredKeys[x]>> \in Addresses \X Nat
      BY <1>1, <1>5
    <2>2. QED
      BY <2>1
  <1> HIDE DEF names
  <1> DEFINE range == {RecoveredKeys[x] : x \in DOMAIN RecoveredKeys}
             slots == {disk.last} \cup range
  <1>10. slots \in SUBSET Nat /\ slots # {}
    BY <1>1, <1>6, <1>9
  <1>11. IsFiniteSet(slots)
    <2>1. RecoveredKeys \in [DOMAIN RecoveredKeys -> range]
      BY <1>3, <1>6
    <2>2. IsFiniteSet(range)
      BY <1>6, <1>8, <2>1, ImageIsFinite
    <2>3. IsFiniteSet(range \cup {disk.last}) /\ slots = range \cup {disk.last}
      BY <2>2, FS_AddElement
    <2>4. QED
      BY <2>3
  <1>12. RecoveredLast = CHOOSE m \in slots : \A s \in slots : s <= m
    BY DEF RecoveredLast
  <1>13. RecoveredLast \in slots /\ \A s \in slots : s <= RecoveredLast
    <2> HIDE DEF slots
    <2>1. \E m \in slots : \A s \in slots : s <= m
      BY <1>10, <1>11, FiniteHasMaximum
    <2>2. QED
      BY <1>12, <2>1
  <1>14. \A x \in DOMAIN RecoveredKeys : RecoveredKeys[x] \in 0..RecoveredLast
    BY <1>6, <1>9, <1>10, <1>13
  <1>15. RecoveredKeys \in [DOMAIN RecoveredKeys -> 0..RecoveredLast]
    BY <1>3, <1>6, <1>14
  <1>16. RecoveredLast \in Nat /\ disk.last <= RecoveredLast
    BY <1>10, <1>13
  <1>17. \/ RecoveredLast = disk.last
         \/ \E x \in DOMAIN RecoveredKeys : RecoveredKeys[x] = RecoveredLast
    BY <1>13
  <1>18. QED
    BY <1>5, <1>6, <1>7, <1>8, <1>15, <1>16, <1>17 DEF names

LEMMA NoDomain ==
  /\ DOMAIN <<>> = {} /\ \A S : <<>> \in [{} -> S]
  /\ IsFiniteSet({}) /\ Cardinality({}) = 0
  BY FS_EmptySet

LEMMA TypeInit == Init => TypeOK
  <1> SUFFICES ASSUME Init PROVE TypeOK
    OBVIOUS
  <1>1. EmptyTree \in Roots
    BY EmptyIsAState DEF EmptyTree, Roots
  <1>2. MachineType(TheMachine) /\ IsFiniteSet(DOMAIN keys)
    <2>1. DOMAIN keys = {} /\ lastOpen = 0 /\ tree = EmptyTree /\ keys = <<>>
      BY NoDomain DEF Init
    <2>2. keys \in [DOMAIN keys -> 0..lastOpen]
      <3>1. <<>> \in [{} -> 0..lastOpen]
        BY NoDomain
      <3>2. QED
        BY <2>1, <3>1
    <2>3. DOMAIN keys \subseteq Addresses /\ lastOpen \in Nat /\ tree \in Roots
      BY <1>1, <2>1
    <2>4. Seen \in Roots
      BY <2>3, SeenIs DEF Seen
    <2>5. MachineType(Machine(keys, lastOpen, Seen))
      BY <2>2, <2>3, <2>4, MachineIsTyped
    <2>6. QED
      BY <2>1, <2>5, NoDomain DEF TheMachine
  <1>3. /\ DOMAIN disk.entries = {}
        /\ disk = [entries |-> disk.entries, count |-> disk.count,
                   last |-> disk.last, root |-> disk.root]
        /\ disk.count = 0 /\ disk.last = 0 /\ disk.root = NoRoot
    BY NoDomain DEF Init
  <1>4. QED
    BY <1>1, <1>2, <1>3, MachineAssumption DEF Init, TypeOK, Idle

\* Nothing has come of a stored record but the field that is stored.
LEMMA DiskIs ==
  ASSUME TypeOK
  PROVE  /\ \A e : [disk EXCEPT !.entries = e] =
                      [entries |-> e, count |-> disk.count,
                       last |-> disk.last, root |-> disk.root]
         /\ \A n : [disk EXCEPT !.count = n] =
                      [entries |-> disk.entries, count |-> n,
                       last |-> disk.last, root |-> disk.root]
         /\ \A n : [disk EXCEPT !.last = n] =
                      [entries |-> disk.entries, count |-> disk.count,
                       last |-> n, root |-> disk.root]
         /\ \A r : [disk EXCEPT !.root = r] =
                      [entries |-> disk.entries, count |-> disk.count,
                       last |-> disk.last, root |-> r]
  <1>1. disk = [entries |-> disk.entries, count |-> disk.count,
                last |-> disk.last, root |-> disk.root]
    BY DEF TypeOK
  <1> QED
    BY <1>1

\* What each write of a job leaves.
LEMMA EntryStoredIs ==
  ASSUME TypeOK, NEW j \in jobs, EntryStored(j)
  PROVE  \E k \in Jobs :
         /\ jobs' = (jobs \ {j}) \cup {k}
         /\ k.address = j.address /\ k.slot = j.slot /\ k.of = j.of
         /\ k.balances = j.balances
         /\ k.at = "counts" /\ k.left = {"count", "last"}
         /\ k.count = Cardinality(DOMAIN keys) /\ k.last = lastOpen
         /\ DOMAIN disk'.entries = DOMAIN disk.entries \cup {j.entry}
         /\ disk'.entries[j.entry] = <<j.address, j.slot>>
         /\ \A i \in DOMAIN disk.entries :
               i # j.entry => disk'.entries[i] = disk.entries[i]
         /\ disk'.count = disk.count /\ disk'.last = disk.last
         /\ disk'.root = disk.root
         /\ disk' = [entries |-> disk'.entries, count |-> disk'.count,
                     last |-> disk'.last, root |-> disk'.root]
  <1> DEFINE e == [i \in DOMAIN disk.entries \cup {j.entry} |->
                      IF i = j.entry THEN <<j.address, j.slot>>
                                     ELSE disk.entries[i]]
             k == [j EXCEPT !.at = "counts", !.left = {"count", "last"},
                            !.count = Cardinality(DOMAIN keys),
                            !.last = lastOpen]
  <1>1. j \in Jobs /\ Cardinality(DOMAIN keys) \in Nat /\ lastOpen \in Nat
    BY TypeFacts DEF TypeOK
  <1>2. /\ k \in Jobs
        /\ k.address = j.address /\ k.slot = j.slot /\ k.of = j.of
        /\ k.balances = j.balances
        /\ k.at = "counts" /\ k.left = {"count", "last"}
        /\ k.count = Cardinality(DOMAIN keys) /\ k.last = lastOpen
    BY <1>1 DEF Jobs
  <1>3. disk' = [disk EXCEPT !.entries = e] /\ jobs' = (jobs \ {j}) \cup {k}
    BY DEF EntryStored, Becomes
  <1>4. /\ DOMAIN e = DOMAIN disk.entries \cup {j.entry}
        /\ e[j.entry] = <<j.address, j.slot>>
        /\ \A i \in DOMAIN disk.entries : i # j.entry => e[i] = disk.entries[i]
    OBVIOUS
  <1> HIDE DEF e, k
  <1>5. disk' = [entries |-> e, count |-> disk.count,
                 last |-> disk.last, root |-> disk.root]
    BY <1>3, DiskIs
  <1>6. QED
    BY <1>2, <1>3, <1>4, <1>5

LEMMA CountedIs ==
  ASSUME TypeOK, NEW j \in jobs, NEW key \in j.left, Counted(j, key)
  PROVE  \E k \in Jobs :
         /\ jobs' = (jobs \ {j}) \cup {k}
         /\ k.address = j.address /\ k.slot = j.slot /\ k.of = j.of
         /\ k.balances = j.balances /\ k.entry = j.entry
         /\ k.count = j.count /\ k.last = j.last
         /\ k.left = j.left \ {key}
         /\ k.at = IF k.left = {} THEN "leaf" ELSE "counts"
  <1> DEFINE k == [j EXCEPT !.left = @ \ {key},
                            !.at = IF j.left = {key} THEN "leaf" ELSE "counts"]
  <1>1. j \in Jobs
    BY DEF TypeOK
  <1>2. /\ k \in Jobs
        /\ k.address = j.address /\ k.slot = j.slot /\ k.of = j.of
        /\ k.balances = j.balances /\ k.entry = j.entry
        /\ k.count = j.count /\ k.last = j.last
        /\ k.left = j.left \ {key}
        /\ k.at = IF j.left = {key} THEN "leaf" ELSE "counts"
    BY <1>1 DEF Jobs
  <1>3. jobs' = (jobs \ {j}) \cup {k}
    BY DEF Counted, Becomes
  <1> HIDE DEF k
  <1>4. j.left = {key} <=> k.left = {}
    BY <1>2
  <1>5. QED
    BY <1>2, <1>3, <1>4

LEMMA CountStoredIs ==
  ASSUME TypeOK, NEW j \in jobs, CountStored(j)
  PROVE  /\ disk'.entries = disk.entries /\ disk'.count = j.count
         /\ disk'.last = disk.last /\ disk'.root = disk.root
         /\ disk' = [entries |-> disk'.entries, count |-> disk'.count,
                     last |-> disk'.last, root |-> disk'.root]
  BY DiskIs DEF CountStored

LEMMA LastStoredIs ==
  ASSUME TypeOK, NEW j \in jobs, LastStored(j)
  PROVE  /\ disk'.entries = disk.entries /\ disk'.count = disk.count
         /\ disk'.last = j.last /\ disk'.root = disk.root
         /\ disk' = [entries |-> disk'.entries, count |-> disk'.count,
                     last |-> disk'.last, root |-> disk'.root]
  BY DiskIs DEF LastStored

LEMMA RootStoredIs ==
  ASSUME TypeOK, RootStored
  PROVE  /\ disk'.entries = disk.entries /\ disk'.count = disk.count
         /\ disk'.last = disk.last /\ disk'.root = op.root
         /\ disk' = [entries |-> disk'.entries, count |-> disk'.count,
                     last |-> disk'.last, root |-> disk'.root]
  BY DiskIs DEF RootStored

LEMMA IdleIs ==
  /\ Idle.doing = "nothing" /\ Idle.number = 0 /\ Idle.root = NoRoot
  /\ Idle \in [doing : {"nothing", "writing", "rooting"},
               number : 0..MaxTransactions, root : {NoRoot} \cup Roots]
  BY MachineAssumption DEF Idle

LEMMA TypeNext == TypeOK /\ [Next]_vars => TypeOK'
  <1> SUFFICES ASSUME TypeOK, [Next]_vars PROVE TypeOK'
    OBVIOUS
  <1>0. /\ MachineType(TheMachine) /\ IsFiniteSet(DOMAIN keys)
        /\ status \in {"down", "genesis", "running", "lost"}
        /\ op \in [doing : {"nothing", "writing", "rooting"},
                   number : 0..MaxTransactions, root : {NoRoot} \cup Roots]
        /\ jobs \subseteq Jobs
        /\ disk = [entries |-> disk.entries, count |-> disk.count,
                   last |-> disk.last, root |-> disk.root]
        /\ DOMAIN disk.entries \subseteq Nat
        /\ \A i \in DOMAIN disk.entries : disk.entries[i] \in Addresses \X Nat
        /\ disk.count \in Nat /\ disk.last \in Nat
        /\ disk.root \in {NoRoot} \cup Roots
        /\ faults \subseteq {"failed", "self", "beyond", "orphan", "torn", "broken"}
        /\ accepted \in 0..MaxTransactions /\ crashes \in 0..MaxCrashes
        /\ tree \in Roots /\ hidden \subseteq Slots
        /\ hidden # {} => "broken" \in faults
    BY DEF TypeOK
  <1>s. ASSUME keys' = keys, lastOpen' = lastOpen, tree' = tree, hidden' = hidden
        PROVE  MachineType(TheMachine)' /\ IsFiniteSet(DOMAIN keys)'
    BY <1>0, <1>s DEF TheMachine, Seen
  <1>m. ASSUME tree' \in Roots, DOMAIN keys' \subseteq Addresses,
               keys' \in [DOMAIN keys' -> 0..lastOpen'], lastOpen' \in Nat
        PROVE  MachineType(TheMachine)'
    <2>1. Seen' \in Roots
      BY <1>m, SeenIs DEF Seen
    <2>2. MachineType(Machine(keys', lastOpen', Seen'))
      BY <1>m, <2>1, MachineIsTyped
    <2>3. QED
      BY <2>2 DEF TheMachine
  <1>1. CASE Start
    <2>1. EmptyTree \in Roots /\ tree \in Roots
      BY EmptyIsAState, TypeFacts DEF EmptyTree, Roots
    <2>2. MachineType(TheMachine)' /\ IsFiniteSet(DOMAIN keys)'
      <3>1. CASE disk.root = NoRoot
        <4>1. keys' = <<>> /\ lastOpen' = 0 /\ tree' = EmptyTree
          BY <1>1, <3>1 DEF Start
        <4>2. DOMAIN keys' = {} /\ keys' \in [DOMAIN keys' -> 0..lastOpen']
          BY <4>1, NoDomain
        <4>3. MachineType(TheMachine)'
          BY <1>m, <2>1, <4>1, <4>2
        <4>4. QED
          BY <4>1, <4>3, NoDomain
      <3>2. CASE disk.root # NoRoot
        <4>1. /\ keys' = RecoveredKeys /\ lastOpen' = RecoveredLast
              /\ tree' = disk.root /\ disk.root \in Roots
          BY <1>0, <1>1, <3>2 DEF Start
        <4>2. /\ DOMAIN keys' \subseteq Addresses /\ IsFiniteSet(DOMAIN keys')
              /\ keys' \in [DOMAIN keys' -> 0..lastOpen'] /\ lastOpen' \in Nat
          BY <4>1, RecoveredIs
        <4>3. QED
          BY <1>m, <4>1, <4>2
      <3>3. QED
        BY <3>1, <3>2
    <2>3. status' \in {"down", "genesis", "running", "lost"}
      BY <1>1 DEF Start
    <2>4. UNCHANGED <<op, jobs, disk, accepted, crashes>>
      BY <1>1 DEF Start
    <2>5. /\ tree' \in Roots /\ hidden' \subseteq Slots
          /\ faults' \subseteq {"failed", "self", "beyond", "orphan", "torn", "broken"}
          /\ hidden' # {} => "broken" \in faults'
      BY <1>0, <1>1, <2>1 DEF Start
    <2>6. QED
      BY <1>0, <2>2, <2>3, <2>4, <2>5 DEF TypeOK
  <1>2. CASE GenesisWrite
    <2> DEFINE state == Genesis[Cardinality(DOMAIN keys) + 1]
               keyed == WithKey(TheMachine, state.pubkey)
               job == Job(TheMachine, Write(state.pubkey, state.balances), 0)
    <2>1. state \in States
      BY <1>2, TypeFacts, MachineAssumption DEF GenesisWrite
    <2>2. state.pubkey \in Addresses /\ state.balances \in [Tokens -> Int]
      BY <2>1, BalanceIsNat, OtherIsAToken DEF States, Balance
    <2>3. /\ jobs' = {job} /\ keys' = keyed.keys /\ lastOpen' = keyed.lastOpen
          /\ UNCHANGED <<status, tree, hidden, op, disk, faults, accepted, crashes>>
      BY <1>2 DEF GenesisWrite
    <2> HIDE DEF state
    <2>4. job \in Jobs
      BY <2>2, TypeFacts, JobType
    <2>5. /\ MachineType(keyed) /\ IsFiniteSet(DOMAIN keyed.keys)
      <3>1. CASE state.pubkey \in DOMAIN keys
        BY <3>1, TypeFacts, KnownKeyIs
      <3>2. CASE state.pubkey \notin DOMAIN keys
        BY <2>2, <3>2, TypeFacts, NewKeyIs, WithKeyType
      <3>3. QED
        BY <3>1, <3>2
    <2> HIDE DEF keyed, job
    <2>6. MachineType(TheMachine)' /\ IsFiniteSet(DOMAIN keys)'
      <3>1. /\ DOMAIN keys' \subseteq Addresses /\ lastOpen' \in Nat
            /\ keys' \in [DOMAIN keys' -> 0..lastOpen']
        BY <2>3, <2>5 DEF MachineType
      <3>2. QED
        BY <1>0, <1>m, <2>3, <2>5, <3>1
    <2>7. jobs' \subseteq Jobs
      BY <2>3, <2>4
    <2>8. QED
      BY <1>0, <2>3, <2>6, <2>7 DEF TypeOK
  <1>3. CASE Created
    <2>1. UNCHANGED <<keys, lastOpen, tree, hidden, op, jobs, disk, faults,
                      accepted, crashes>> /\ status' = "running"
      BY <1>3 DEF Created
    <2>2. QED
      BY <1>0, <1>s, <2>1 DEF TypeOK
  <1>4. ASSUME NEW tx \in Transactions, Begin(tx)
        PROVE  TypeOK'
    <2> DEFINE middle == WithKey(TheMachine, Writes(TheMachine, tx)[1].address)
               end == WithKey(middle, Writes(TheMachine, tx)[2].address)
    <2>1. /\ MachineType(end) /\ IsFiniteSet(DOMAIN end.keys)
          /\ keys' = end.keys /\ lastOpen' = end.lastOpen /\ tree' = tree
          /\ accepted + 1 \in 1..MaxTransactions
          /\ jobs' \subseteq Jobs
      BY <1>0, <1>4, BeginIs
    <2> HIDE DEF end
    <2>2. /\ accepted' = accepted + 1
          /\ op' = [doing |-> "writing", number |-> accepted + 1, root |-> NoRoot]
          /\ faults' \in {faults, faults \cup {"self"}}
          /\ UNCHANGED <<status, hidden, disk, crashes>>
      BY <1>4 DEF Begin
    <2>3. MachineType(TheMachine)' /\ IsFiniteSet(DOMAIN keys)'
      <3>1. /\ DOMAIN end.keys \subseteq Addresses
            /\ end.keys \in [DOMAIN end.keys -> 0..end.lastOpen]
            /\ end.lastOpen \in Nat
        BY <2>1 DEF MachineType
      <3>2. QED
        BY <1>0, <1>m, <2>1, <3>1
    <2>4. accepted' \in 0..MaxTransactions
          /\ op' \in [doing : {"nothing", "writing", "rooting"},
                      number : 0..MaxTransactions, root : {NoRoot} \cup Roots]
      BY <2>1, <2>2, MachineAssumption
    <2>5. faults' \subseteq {"failed", "self", "beyond", "orphan", "torn", "broken"}
      BY <1>0, <2>2
    <2>6. QED
      BY <1>0, <2>1, <2>2, <2>3, <2>4, <2>5 DEF TypeOK
  <1>5. ASSUME NEW j \in jobs, EntryStored(j)
        PROVE  TypeOK'
    <2>1. PICK k \in Jobs :
            /\ jobs' = (jobs \ {j}) \cup {k}
            /\ DOMAIN disk'.entries = DOMAIN disk.entries \cup {j.entry}
            /\ disk'.entries[j.entry] = <<j.address, j.slot>>
            /\ \A i \in DOMAIN disk.entries :
                  i # j.entry => disk'.entries[i] = disk.entries[i]
            /\ disk'.count = disk.count /\ disk'.last = disk.last
            /\ disk'.root = disk.root
            /\ disk' = [entries |-> disk'.entries, count |-> disk'.count,
                        last |-> disk'.last, root |-> disk'.root]
      BY <1>5, EntryStoredIs
    <2>2. j.entry \in Nat /\ <<j.address, j.slot>> \in Addresses \X Nat
      BY <1>0, JobFacts
    <2>3. /\ DOMAIN disk'.entries \subseteq Nat
          /\ \A i \in DOMAIN disk'.entries : disk'.entries[i] \in Addresses \X Nat
      BY <1>0, <2>1, <2>2
    <2>4. jobs' \subseteq Jobs
      BY <1>0, <2>1
    <2>5. UNCHANGED <<status, keys, lastOpen, tree, hidden, op, faults, accepted,
                      crashes>>
      BY <1>5 DEF EntryStored
    <2>6. MachineType(TheMachine)' /\ IsFiniteSet(DOMAIN keys)'
      BY <1>s, <2>5
    <2>7. QED
      BY <1>0, <2>1, <2>3, <2>4, <2>5, <2>6 DEF TypeOK
  <1>6. ASSUME NEW j \in jobs, CountStored(j) \/ LastStored(j)
        PROVE  TypeOK'
    <2>1. jobs' \subseteq Jobs
      <3>1. PICK key \in j.left : Counted(j, key)
        BY <1>6 DEF CountStored, LastStored
      <3>2. QED
        BY <1>0, <3>1, CountedIs
    <2>2. /\ disk'.entries = disk.entries
          /\ disk'.count \in Nat /\ disk'.last \in Nat
          /\ disk'.root = disk.root
          /\ disk' = [entries |-> disk'.entries, count |-> disk'.count,
                      last |-> disk'.last, root |-> disk'.root]
      <3>1. j.count \in Nat /\ j.last \in Nat
        BY <1>0, JobFacts
      <3>2. CASE CountStored(j)
        BY <1>0, <3>1, <3>2, CountStoredIs
      <3>3. CASE LastStored(j)
        BY <1>0, <3>1, <3>3, LastStoredIs
      <3>4. QED
        BY <1>6, <3>2, <3>3
    <2>3. UNCHANGED <<status, keys, lastOpen, tree, hidden, op, faults, accepted,
                      crashes>>
      BY <1>6 DEF CountStored, LastStored
    <2>4. MachineType(TheMachine)' /\ IsFiniteSet(DOMAIN keys)'
      BY <1>s, <2>3
    <2>5. QED
      BY <1>0, <2>1, <2>2, <2>3, <2>4 DEF TypeOK
  <1>7. ASSUME NEW j \in jobs, LeafStored(j)
        PROVE  TypeOK'
    <2>1. /\ \/ tree' = tree
             \/ tree' = [tree EXCEPT ![j.slot] = State(j.address, j.balances)]
          /\ Encodable(j.balances)
          /\ faults' \in {faults, faults \cup {"beyond"}} /\ jobs' \subseteq jobs
          /\ UNCHANGED <<status, keys, lastOpen, op, disk, accepted, crashes>>
      BY <1>7 DEF LeafStored
    <2>2. State(j.address, j.balances) \in States
      BY <1>0, <2>1, JobFacts, StateIsAState
    <2>3. tree' \in Roots
      <3> DEFINE new == State(j.address, j.balances)
      <3> HIDE DEF new
      <3>1. /\ tree \in Roots /\ new \in States
            /\ tree' = tree \/ tree' = [tree EXCEPT ![j.slot] = new]
        BY <2>1, <2>2, TypeFacts DEF new
      <3>2. QED
        BY <3>1 DEF Roots
    <2>4. MachineType(TheMachine)' /\ IsFiniteSet(DOMAIN keys)'
      <3>1. DOMAIN keys \subseteq Addresses /\ lastOpen \in Nat
            /\ keys \in [DOMAIN keys -> 0..lastOpen]
        BY TypeFacts
      <3>2. QED
        BY <1>0, <1>m, <2>1, <2>3, <3>1
    <2>5. faults' \subseteq {"failed", "self", "beyond", "orphan", "torn", "broken"}
          /\ jobs' \subseteq Jobs
      BY <1>0, <2>1
    <2>6. hidden' \subseteq Slots /\ (hidden' # {} => "broken" \in faults')
      <3>1. CASE hidden' = hidden
        BY <1>0, <2>1, <3>1
      <3>2. CASE Misplaced(j)
        <4>1. \A branch \in Branches(j.slot) : branch \subseteq Slots
          BY DEF Branches
        <4>2. QED
          BY <1>0, <2>1, <3>2, <4>1 DEF Misplaced
      <3>3. QED
        BY <1>7, <3>1, <3>2 DEF LeafStored
    <2>7. QED
      BY <1>0, <2>1, <2>3, <2>4, <2>5, <2>6 DEF TypeOK
  <1>8. ASSUME NEW j \in jobs, JobFails(j)
        PROVE  TypeOK'
    <2>1. /\ jobs' \subseteq jobs /\ op' \in {op, Idle}
          /\ faults' = faults \cup {"failed"}
          /\ UNCHANGED <<status, keys, lastOpen, tree, hidden, disk, accepted,
                         crashes>>
      BY <1>8 DEF JobFails
    <2>2. faults' \subseteq {"failed", "self", "beyond", "orphan", "torn", "broken"}
          /\ jobs' \subseteq Jobs
      BY <1>0, <2>1
    <2>3. op' \in [doing : {"nothing", "writing", "rooting"},
                   number : 0..MaxTransactions, root : {NoRoot} \cup Roots]
      BY <1>0, <2>1, IdleIs
    <2>4. MachineType(TheMachine)' /\ IsFiniteSet(DOMAIN keys)'
      BY <1>s, <2>1
    <2>5. QED
      BY <1>0, <2>1, <2>2, <2>3, <2>4 DEF TypeOK
  <1>9. CASE StatesWritten
    <2>1. /\ op' = [op EXCEPT !.doing = "rooting", !.root = tree]
          /\ UNCHANGED <<status, keys, lastOpen, tree, hidden, jobs, disk,
                         faults, accepted, crashes>>
      BY <1>9 DEF StatesWritten
    <2>2. tree \in Roots
      BY TypeFacts
    <2>3. op' \in [doing : {"nothing", "writing", "rooting"},
                   number : 0..MaxTransactions, root : {NoRoot} \cup Roots]
      BY <1>0, <2>1, <2>2
    <2>4. QED
      BY <1>0, <1>s, <2>1, <2>3 DEF TypeOK
  <1>10. CASE RootStored
    <2>1. /\ disk'.entries = disk.entries /\ disk'.count = disk.count
          /\ disk'.last = disk.last /\ disk'.root = op.root
          /\ disk' = [entries |-> disk'.entries, count |-> disk'.count,
                      last |-> disk'.last, root |-> disk'.root]
      BY <1>10, RootStoredIs
    <2>2. /\ op' = Idle
          /\ UNCHANGED <<status, keys, lastOpen, tree, hidden, jobs, faults,
                         accepted, crashes>>
      BY <1>10 DEF RootStored
    <2>3. MachineType(TheMachine)' /\ IsFiniteSet(DOMAIN keys)'
      BY <1>s, <2>2
    <2>4. disk'.root \in {NoRoot} \cup Roots
      BY <1>0, <2>1
    <2>5. QED
      BY <1>0, <2>1, <2>2, <2>3, <2>4, IdleIs DEF TypeOK
  <1>11. CASE Crash
    <2>1. /\ keys' = <<>> /\ lastOpen' = 0 /\ tree' = tree /\ disk' = disk
          /\ op' = Idle /\ jobs' = {} /\ status' = "down"
          /\ crashes' = crashes + 1 /\ crashes < MaxCrashes
          /\ accepted' = accepted
          /\ faults' \in {faults \cup CrashFaults,
                          faults \cup CrashFaults \cup {"broken"}}
      BY <1>11 DEF Crash
    <2>2. DOMAIN keys' = {} /\ keys' \in [DOMAIN keys' -> 0..lastOpen']
      BY <2>1, NoDomain
    <2>3. MachineType(TheMachine)' /\ IsFiniteSet(DOMAIN keys)'
      BY <1>0, <1>m, <2>1, <2>2, NoDomain
    <2>4. faults' \subseteq {"failed", "self", "beyond", "orphan", "torn", "broken"}
      BY <1>0, <2>1 DEF CrashFaults
    <2>5. crashes' \in 0..MaxCrashes
      BY <1>0, <2>1, MachineAssumption
    <2>6. hidden' \subseteq Slots /\ (hidden' # {} => "broken" \in faults')
      <3>1. CASE hidden' = hidden
        BY <1>0, <2>1, <3>1
      <3>2. CASE "broken" \in faults' /\ \E j \in jobs : Halved(j)
        <4>1. \A s \in Nat : \A branch \in Branches(s) : branch \subseteq Slots
          BY DEF Branches
        <4>2. PICK j \in jobs : Halved(j)
          BY <3>2
        <4>3. j.slot \in Nat
          BY <1>0, JobFacts
        <4>4. hidden' \subseteq Slots
          BY <1>0, <4>1, <4>2, <4>3 DEF Halved
        <4>5. QED
          BY <3>2, <4>4
      <3>3. QED
        BY <1>11, <3>1, <3>2 DEF Crash
    <2>7. QED
      BY <1>0, <2>1, <2>3, <2>4, <2>5, <2>6, IdleIs DEF TypeOK
  <1>12. CASE UNCHANGED vars
    <2>1. UNCHANGED <<status, keys, lastOpen, tree, hidden, op, jobs, disk,
                      faults, accepted, crashes>>
      BY <1>12 DEF vars
    <2>2. QED
      BY <1>0, <1>s, <2>1 DEF TypeOK
  <1>13. QED
    BY <1>1, <1>2, <1>3, <1>4, <1>5, <1>6, <1>7, <1>8, <1>9, <1>10, <1>11,
       <1>12 DEF Next

\* The variables keep their types, whatever fails, crashes or is full: a
\* restart reads back a map, and the slots it gives are at most the last one.
THEOREM TypeCorrect == Spec => []TypeOK
  BY TypeInit, TypeNext, PTL DEF Spec

-----------------------------------------------------------------------------
(***************************************************************************)
(* The invariant, action by action.                                        *)
(***************************************************************************)
LEMMA AtRestNext ==
  ASSUME TypeOK, AtRest, [Next]_vars
  PROVE  AtRest'
  <1> USE DEF AtRest
  <1>1. CASE Start
    BY <1>1 DEF Start
  <1>2. CASE GenesisWrite
    BY <1>2 DEF GenesisWrite
  <1>3. CASE Created
    BY <1>3 DEF Created
  <1>4. ASSUME NEW tx \in Transactions, Begin(tx)
        PROVE  AtRest'
    BY <1>4 DEF Begin
  <1>5. ASSUME NEW j \in jobs, EntryStored(j)
        PROVE  AtRest'
    <2>1. disk'.root = disk.root
      BY <1>5, EntryStoredIs
    <2>2. QED
      BY <1>5, <2>1 DEF EntryStored
  <1>6. ASSUME NEW j \in jobs, CountStored(j)
        PROVE  AtRest'
    <2>1. disk'.root = disk.root
      BY <1>6, CountStoredIs
    <2>2. QED
      BY <1>6, <2>1 DEF CountStored
  <1>7. ASSUME NEW j \in jobs, LastStored(j)
        PROVE  AtRest'
    <2>1. disk'.root = disk.root
      BY <1>7, LastStoredIs
    <2>2. QED
      BY <1>7, <2>1 DEF LastStored
  <1>8. ASSUME NEW j \in jobs, LeafStored(j) \/ JobFails(j)
        PROVE  AtRest'
    BY <1>8 DEF LeafStored, JobFails
  <1>9. CASE StatesWritten \/ RootStored
    <2>1. status = "running"
      BY <1>9, IdleIs DEF StatesWritten, RootStored, TypeOK
    <2>2. QED
      BY <1>9, <2>1 DEF StatesWritten, RootStored
  <1>10. CASE Crash
    BY <1>10 DEF Crash
  <1>11. CASE UNCHANGED vars
    BY <1>11 DEF vars
  <1>12. QED
    BY <1>1, <1>2, <1>3, <1>4, <1>5, <1>6, <1>7, <1>8, <1>9, <1>10, <1>11
       DEF Next

LEMMA UncountedIs ==
  /\ \A x : x \in Uncounted <=>
        \E j \in jobs : j.address = x /\ (j.at = "entry" \/ "count" \in j.left)
  /\ \A x : x \in Uncounted' <=>
        \E j \in jobs' : j.address = x /\ (j.at = "entry" \/ "count" \in j.left)
  BY DEF Uncounted

LEMMA CountsIs ==
  ASSUME TypeOK
  PROVE  /\ Counts \subseteq DOMAIN keys /\ Counts \subseteq Addresses
         /\ IsFiniteSet(Counts) /\ Cardinality(Counts) \in Nat
         /\ jobs = {} => Counts = DOMAIN keys
  <1>1. Counts \in SUBSET DOMAIN keys
    BY DEF Counts
  <1>2. IsFiniteSet(Counts)
    BY <1>1, TypeFacts, FS_Subset
  <1>3. jobs = {} => Counts = DOMAIN keys
    BY UncountedIs DEF Counts
  <1>4. QED
    BY <1>1, <1>2, <1>3, TypeFacts, FS_CardinalityType

\* Before a process runs, there is nothing to agree on.
LEMMA StartFresh ==
  ASSUME TypeOK, TypeOK', AtRest, AtRest', Start, disk.root = NoRoot
  PROVE  MemoryShape' /\ DiskShape' /\ LeafShape' /\ LastShape'
  <1>1. /\ status' = "genesis" /\ keys' = <<>> /\ lastOpen' = 0
        /\ tree' = EmptyTree /\ op' = op /\ jobs' = jobs /\ disk' = disk
        /\ jobs = {} /\ op = Idle
    BY DEF Start, AtRest
  <1>2. DOMAIN keys' = {}
    BY <1>1, NoDomain
  <1>3. Counts' = {} /\ Cardinality(Counts') = 0 /\ Cardinality(DOMAIN keys') = 0
    BY <1>2, NoDomain DEF Counts
  <1>4. \A s \in Slots : tree'[s] = Empty
    BY <1>1 DEF EmptyTree
  <1>5. MapFollows'
    BY <1>3 DEF MapFollows
  <1>6. JobsFollow' /\ OpFollows' /\ PoolFollows' /\ LeavesFollow'
    BY <1>1, <1>2, <1>4 DEF JobsFollow, OpFollows, PoolFollows, LeavesFollow
  <1>7. QED
    BY <1>1, <1>2, <1>5, <1>6 DEF MemoryShape, DiskShape, LeafShape, LastShape

\* What a crash left is what memory is again.
LEMMA StartAgain ==
  ASSUME TypeOK, TypeOK', AtRest, AtRest', DiskShape, LeafShape, LastShape,
         Start, disk.root # NoRoot, Whole'
  PROVE  MemoryShape' /\ DiskShape' /\ LeafShape' /\ LastShape'
  <1>1. /\ status = "down" /\ status' \in {"running", "lost"}
        /\ status' = "running" => StoredEntries = 1..disk.count
        /\ disk.root = tree
        /\ keys' = RecoveredKeys /\ lastOpen' = RecoveredLast
        /\ tree' = tree /\ op' = op /\ jobs' = jobs /\ disk' = disk
        /\ jobs = {} /\ op = Idle /\ faults' = faults
    <2>1. /\ status = "down" /\ disk.root # NoRoot
          /\ status' = IF StoredEntries = 1..disk.count THEN "running" ELSE "lost"
          /\ keys' = RecoveredKeys /\ lastOpen' = RecoveredLast
          /\ tree' = disk.root /\ op' = op /\ jobs' = jobs /\ disk' = disk
          /\ jobs = {} /\ op = Idle
          /\ disk.root = tree => faults' = faults
          /\ disk.root # tree => "broken" \in faults'
      BY DEF Start, AtRest
    <2>2. "broken" \notin faults'
      BY DEF Whole
    <2>3. QED
      BY <2>1, <2>2
  <1>2. DiskShape'
    <2>1. disk' = disk /\ tree' = tree /\ status \in {"down", "lost"}
      BY <1>1
    <2>2. QED
      BY <2>1 DEF DiskShape
  <1>3. CASE status' = "lost"
    BY <1>1, <1>2, <1>3 DEF MemoryShape, LeafShape, LastShape
  <1>4. CASE status' = "running"
    <2> DEFINE n == disk.count
    <2>1. /\ StoredEntries = 1..n /\ n \in Nat
          /\ \A i \in 1..n : /\ i \in DOMAIN disk.entries
                             /\ disk.entries[i] \in Addresses \X Nat
      BY <1>1, <1>4 DEF StoredEntries, TypeOK
    <2>2. /\ \A i, k \in 1..n :
                (disk.entries[i][1] = disk.entries[k][1])
                    = (disk.entries[i][2] = disk.entries[k][2])
          /\ n = Cardinality({disk.entries[i][1] : i \in 1..n})
          /\ \E i \in 1..n : disk.entries[i] = <<Uniswap, 0>>
          /\ \A s \in Slots : tree[s] # Empty =>
                \E i \in 1..n : disk.entries[i] = <<tree[s].pubkey, s>>
      BY <1>1 DEF DiskShape
    <2>3. /\ DOMAIN RecoveredKeys = {disk.entries[i][1] : i \in 1..n}
          /\ \A x \in DOMAIN RecoveredKeys :
                \E i \in 1..n : disk.entries[i] = <<x, RecoveredKeys[x]>>
      BY <2>1, RecoveredIs
    <2>4. \A i \in 1..n : /\ disk.entries[i][1] \in DOMAIN RecoveredKeys
                          /\ disk.entries[i][2] = RecoveredKeys[disk.entries[i][1]]
      <3> SUFFICES ASSUME NEW i \in 1..n
                   PROVE  /\ disk.entries[i][1] \in DOMAIN RecoveredKeys
                          /\ disk.entries[i][2] = RecoveredKeys[disk.entries[i][1]]
        OBVIOUS
      <3>1. disk.entries[i][1] \in DOMAIN RecoveredKeys
        BY <2>3
      <3>2. PICK k \in 1..n :
               disk.entries[k] = <<disk.entries[i][1],
                                   RecoveredKeys[disk.entries[i][1]]>>
        BY <2>3, <3>1
      <3>3. disk.entries[k][1] = disk.entries[i][1]
            /\ disk.entries[k][2] = RecoveredKeys[disk.entries[i][1]]
        BY <3>2
      <3>4. disk.entries[k][2] = disk.entries[i][2]
        BY <2>2, <3>3
      <3>5. QED
        BY <3>1, <3>3, <3>4
    <2>5. Counts' = DOMAIN keys' /\ Cardinality(Counts') = n
      <3>1. Counts' = DOMAIN keys'
        BY <1>1, UncountedIs DEF Counts
      <3>2. DOMAIN keys' = {disk.entries[i][1] : i \in 1..n}
        BY <1>1, <2>3
      <3>3. QED
        BY <2>2, <3>1, <3>2
    <2>6. MapFollows'
      <3>1. \A i \in 1..n : /\ i \in DOMAIN disk'.entries
                            /\ disk'.entries[i][1] \in Counts'
                            /\ disk'.entries[i][2] = keys'[disk'.entries[i][1]]
        BY <1>1, <2>1, <2>4, <2>5
      <3>2. \A x \in Counts' : \E i \in 1..n : disk'.entries[i][1] = x
        BY <1>1, <2>3, <2>5
      <3>3. disk'.count = n
        BY <1>1
      <3> HIDE DEF n
      <3>4. QED
        BY <2>5, <3>1, <3>2, <3>3 DEF MapFollows
    <2>7. \A x, y \in DOMAIN keys' : keys'[x] = keys'[y] => x = y
      <3> SUFFICES ASSUME NEW x \in DOMAIN RecoveredKeys,
                          NEW y \in DOMAIN RecoveredKeys,
                          RecoveredKeys[x] = RecoveredKeys[y]
                   PROVE  x = y
        BY <1>1
      <3>1. PICK i \in 1..n : disk.entries[i] = <<x, RecoveredKeys[x]>>
        BY <2>3
      <3>2. PICK k \in 1..n : disk.entries[k] = <<y, RecoveredKeys[y]>>
        BY <2>3
      <3>3. disk.entries[i][2] = disk.entries[k][2]
        BY <3>1, <3>2
      <3>4. disk.entries[i][1] = disk.entries[k][1]
        BY <2>2, <3>3
      <3>5. QED
        BY <3>1, <3>2, <3>4
    <2>8. LeavesFollow'
      <3>1. \A s \in Slots : tree[s] # Empty =>
               /\ tree[s].pubkey \in DOMAIN RecoveredKeys
               /\ RecoveredKeys[tree[s].pubkey] = s
        <4> SUFFICES ASSUME NEW s \in Slots, tree[s] # Empty
                     PROVE  /\ tree[s].pubkey \in DOMAIN RecoveredKeys
                            /\ RecoveredKeys[tree[s].pubkey] = s
          OBVIOUS
        <4>1. PICK i \in 1..n : disk.entries[i] = <<tree[s].pubkey, s>>
          BY <2>2
        <4>2. QED
          BY <2>4, <4>1
      <3>2. QED
        BY <1>1, <2>5, <2>7, <3>1 DEF LeavesFollow
    <2>9. PoolFollows'
      <3>1. PICK i \in 1..n : disk.entries[i] = <<Uniswap, 0>>
        BY <2>2
      <3>2. Uniswap \in DOMAIN RecoveredKeys /\ RecoveredKeys[Uniswap] = 0
        BY <2>4, <3>1
      <3>3. QED
        BY <1>1, <3>2 DEF PoolFollows
    <2>10. JobsFollow'
      BY <1>1 DEF JobsFollow
    <2>11. OpFollows'
      BY <1>1, <1>4, IdleIs DEF OpFollows
    <2>12. LeafShape'
      BY <1>1, <1>4 DEF LeafShape
    <2>13. LastShape'
      <3> SUFFICES ASSUME "torn" \notin faults
                   PROVE  \E x \in DOMAIN keys' : keys'[x] = lastOpen'
        BY <1>1, <1>4 DEF LastShape
      <3>1. \E x \in DOMAIN RecoveredKeys : RecoveredKeys[x] = disk.last
        BY <1>1 DEF LastShape
      <3>2. QED
        BY <1>1, <3>1, RecoveredIs
    <2>14. QED
      BY <1>2, <2>6, <2>8, <2>9, <2>10, <2>11, <2>12, <2>13 DEF MemoryShape
  <1>5. QED
    BY <1>1, <1>3, <1>4

\* The stored map still follows when the accounts it counts are the same.
LEMMA MapKeeps ==
  ASSUME MapFollows, Counts' = Counts,
         \A x \in Counts : keys'[x] = keys[x],
         \A i \in 1..Cardinality(Counts) : i \in DOMAIN disk.entries =>
             i \in DOMAIN disk'.entries /\ disk'.entries[i] = disk.entries[i],
         disk'.count = disk.count
  PROVE  MapFollows'
  <1> DEFINE n == Cardinality(Counts)
  <1>1. /\ \A i \in 1..n : /\ i \in DOMAIN disk.entries
                           /\ disk.entries[i][1] \in Counts
                           /\ disk.entries[i][2] = keys[disk.entries[i][1]]
        /\ \A x \in Counts : \E i \in 1..n : disk.entries[i][1] = x
        /\ n > 0 => disk.count = n
    BY DEF MapFollows
  <1>2. Cardinality(Counts') = n
    OBVIOUS
  <1> HIDE DEF n
  <1>3. \A i \in 1..n : /\ i \in DOMAIN disk'.entries
                        /\ disk'.entries[i][1] \in Counts'
                        /\ disk'.entries[i][2] = keys'[disk'.entries[i][1]]
    BY <1>1 DEF n
  <1>4. \A x \in Counts' : \E i \in 1..n : disk'.entries[i][1] = x
    BY <1>1 DEF n
  <1>5. QED
    BY <1>1, <1>2, <1>3, <1>4 DEF MapFollows

\* Nobody's entry is amiss: a crash leaves what memory was.
LEMMA CrashKeeps ==
  ASSUME TypeOK, TypeOK', AtRest, MemoryShape, LeafShape, LastShape, Crash
  PROVE  MemoryShape' /\ DiskShape' /\ LeafShape' /\ LastShape'
  <1>1. /\ status \in {"genesis", "running"} /\ status' = "down"
        /\ tree' = tree /\ disk' = disk
        /\ faults' = faults \cup CrashFaults
              \/ faults' = faults \cup CrashFaults \cup {"broken"}
    BY DEF Crash
  <1>2. MemoryShape'
    BY <1>1 DEF MemoryShape
  <1>3. RecoveredKeys' = RecoveredKeys
    BY <1>1 DEF RecoveredKeys, StoredEntries
  <1>4. LeafShape'
    <2> SUFFICES ASSUME "orphan" \notin faults', disk.root # NoRoot,
                        NEW x \in DOMAIN RecoveredKeys, RecoveredKeys[x] \in Slots
                 PROVE  tree[RecoveredKeys[x]].pubkey = x
      BY <1>1, <1>3 DEF LeafShape
    <2>1. "orphan" \notin CrashFaults
      BY <1>1
    <2>2. QED
      BY <2>1 DEF CrashFaults
  <1>5. LastShape'
    <2> SUFFICES ASSUME "torn" \notin faults', disk.root # NoRoot
                 PROVE  \E x \in DOMAIN RecoveredKeys : RecoveredKeys[x] = disk.last
      BY <1>1, <1>3 DEF LastShape
    <2>1. "torn" \notin CrashFaults
      BY <1>1
    <2>2. QED
      BY <2>1 DEF CrashFaults
  <1>6. DiskShape'
    <2> SUFFICES ASSUME disk.root # NoRoot
                 PROVE  DiskShape'
      BY <1>1 DEF DiskShape
    <2> DEFINE n == Cardinality(Counts)
    <2>1. status = "running"
      BY <1>1 DEF AtRest
    <2>2. MapFollows /\ JobsFollow /\ OpFollows /\ PoolFollows /\ LeavesFollow
      BY <1>1 DEF MemoryShape
    <2>3. Uniswap \in DOMAIN keys /\ keys[Uniswap] = 0
      BY <2>1, <2>2 DEF PoolFollows
    <2>4. Uniswap \in Counts
      <3>1. Uniswap \notin Uncounted
        BY <2>1, <2>2, UncountedIs DEF JobsFollow, OpFollows
      <3>2. QED
        BY <2>3, <3>1 DEF Counts
    <2>5. n \in Nat /\ n # 0 /\ Counts \subseteq DOMAIN keys
      BY <2>4, CountsIs, FS_EmptySet
    <2>6. /\ disk.count = n
          /\ \A i \in 1..n : /\ i \in DOMAIN disk.entries
                             /\ disk.entries[i][1] \in Counts
                             /\ disk.entries[i][2] = keys[disk.entries[i][1]]
                             /\ disk.entries[i] \in Addresses \X Nat
          /\ \A x \in Counts : \E i \in 1..n : disk.entries[i][1] = x
      <3>1. \A i \in DOMAIN disk.entries : disk.entries[i] \in Addresses \X Nat
        BY DEF TypeOK
      <3>2. QED
        BY <2>2, <2>5, <3>1 DEF MapFollows
    <2>7. /\ \A x, y \in DOMAIN keys : keys[x] = keys[y] => x = y
          /\ \A s \in Slots : tree[s] # Empty =>
                tree[s].pubkey \in Counts /\ keys[tree[s].pubkey] = s
      BY <2>2 DEF LeavesFollow
    <2>8. Counts = {disk.entries[i][1] : i \in 1..n}
      BY <2>6
    <2>9. Cardinality({disk.entries[i][1] : i \in 1..n}) = n
      BY <2>8
    <2> HIDE DEF n
    <2>10. \A x \in Counts : \E i \in 1..n : disk.entries[i] = <<x, keys[x]>>
      <3> SUFFICES ASSUME NEW x \in Counts
                   PROVE  \E i \in 1..n : disk.entries[i] = <<x, keys[x]>>
        OBVIOUS
      <3>1. PICK i \in 1..n : disk.entries[i][1] = x
        BY <2>6
      <3>2. disk.entries[i][2] = keys[x] /\ disk.entries[i] \in Addresses \X Nat
        BY <2>6, <3>1
      <3>3. QED
        BY <3>1, <3>2
    <2>11. \A i, k \in 1..n :
              (disk.entries[i][1] = disk.entries[k][1])
                  = (disk.entries[i][2] = disk.entries[k][2])
      <3> SUFFICES ASSUME NEW i \in 1..n, NEW k \in 1..n
                   PROVE  disk.entries[i][1] = disk.entries[k][1]
                              <=> disk.entries[i][2] = disk.entries[k][2]
        OBVIOUS
      <3>1. /\ disk.entries[i][1] \in DOMAIN keys
            /\ disk.entries[k][1] \in DOMAIN keys
            /\ disk.entries[i][2] = keys[disk.entries[i][1]]
            /\ disk.entries[k][2] = keys[disk.entries[k][1]]
        BY <2>5, <2>6
      <3>2. QED
        BY <2>7, <3>1
    <2>12. 1..n \subseteq DOMAIN disk.entries
      BY <2>6
    <2>13. \E i \in 1..n : disk.entries[i] = <<Uniswap, 0>>
      BY <2>3, <2>4, <2>10
    <2>14. \A s \in Slots : tree[s] # Empty =>
              \E i \in 1..n : disk.entries[i] = <<tree[s].pubkey, s>>
      BY <2>7, <2>10
    <2>15. disk'.count = n /\ disk'.entries = disk.entries /\ tree' = tree
      BY <1>1, <2>6
    <2>16. QED
      BY <2>9, <2>11, <2>12, <2>13, <2>14, <2>15 DEF DiskShape
  <1>7. QED
    BY <1>2, <1>4, <1>5, <1>6

\* A leaf that is stored is written, as long as the tree is whole.
LEMMA LeafIsWritten ==
  ASSUME TypeOK, Whole, NEW j, LeafStored(j)
  PROVE  tree' = [tree EXCEPT ![j.slot] = State(j.address, j.balances)]
  BY WholeIsSeen DEF LeafStored, Misplaced, Whole

\* A leaf is written where its account has its slot.
LEMMA LeafKeeps ==
  ASSUME TypeOK, TypeOK', AtRest, MemoryShape, LeafShape, LastShape, Whole,
         NEW j \in jobs, LeafStored(j)
  PROVE  MemoryShape' /\ DiskShape' /\ LeafShape' /\ LastShape'
  <1>1. /\ j.at = "leaf" /\ jobs' = jobs \ {j}
        /\ tree' = [tree EXCEPT ![j.slot] = State(j.address, j.balances)]
        /\ UNCHANGED <<status, keys, lastOpen, op, disk, accepted, crashes>>
        /\ faults \subseteq faults'
    BY LeafIsWritten DEF LeafStored
  <1>2. status \in {"genesis", "running"}
    BY DEF AtRest, TypeOK
  <1>3. MapFollows /\ JobsFollow /\ OpFollows /\ PoolFollows /\ LeavesFollow
    BY <1>2 DEF MemoryShape
  <1>4. /\ \A s \in Slots : tree'[s] = IF s = j.slot
                                       THEN State(j.address, j.balances)
                                       ELSE tree[s]
        /\ State(j.address, j.balances).pubkey = j.address
    BY <1>1, TypeFacts DEF State
  <1>5. j.address \in DOMAIN keys /\ j.slot = keys[j.address] /\ j.left = {}
    BY <1>1, <1>3 DEF JobsFollow
  <1>6. j.address \in Counts
    <2>1. j.address \notin Uncounted
      BY <1>1, <1>3, UncountedIs DEF JobsFollow
    <2>2. QED
      BY <1>5, <2>1 DEF Counts
  <1>7. Counts' = Counts
    <2>1. Uncounted' = Uncounted
      BY <1>1, <1>5, UncountedIs
    <2>2. QED
      BY <1>1, <2>1 DEF Counts
  <1>8. MapFollows'
    BY <1>1, <1>3, <1>7, MapKeeps
  <1>9. JobsFollow'
    BY <1>1, <1>3 DEF JobsFollow
  <1>10. OpFollows'
    BY <1>1, <1>3 DEF OpFollows
  <1>11. PoolFollows'
    BY <1>1, <1>3 DEF PoolFollows
  <1>12. LeavesFollow'
    BY <1>1, <1>3, <1>4, <1>5, <1>6, <1>7 DEF LeavesFollow
  <1>13. LeafShape'
    <2> SUFFICES ASSUME "orphan" \notin faults, NEW x \in DOMAIN keys,
                        keys[x] \in Slots
                 PROVE  \/ tree'[keys[x]].pubkey = x
                        \/ \E k \in jobs' : k.address = x
      BY <1>1, <1>2 DEF LeafShape
    <2>1. tree[keys[x]].pubkey = x \/ \E k \in jobs : k.address = x
      BY <1>2 DEF LeafShape
    <2>2. CASE keys[x] = j.slot
      <3>1. x = j.address
        BY <1>3, <1>5, <2>2 DEF LeavesFollow
      <3>2. QED
        BY <1>4, <2>2, <3>1
    <2>3. CASE keys[x] # j.slot
      BY <1>1, <1>4, <1>5, <2>1, <2>3
    <2>4. QED
      BY <2>2, <2>3
  <1>14. LastShape'
    BY <1>1, <1>2 DEF LastShape
  <1>15. DiskShape'
    BY <1>1, <1>2 DEF DiskShape
  <1>16. QED
    BY <1>8, <1>9, <1>10, <1>11, <1>12, <1>13, <1>14, <1>15 DEF MemoryShape

\* A job that stores a new account goes on, and nothing else is disturbed.
LEMMA JobGoesOn ==
  ASSUME TypeOK, TypeOK', AtRest, MemoryShape, LeafShape, LastShape,
         NEW j \in jobs, j.at \in {"entry", "counts"}, NEW k \in Jobs,
         jobs' = (jobs \ {j}) \cup {k},
         k.address = j.address, k.slot = j.slot, k.of = j.of,
         k.at \in {"counts", "leaf"}, k.left # {} => k.at = "counts",
         "count" \in k.left =>
             /\ k.count = Cardinality(DOMAIN keys)
             /\ k.count \in DOMAIN disk'.entries
             /\ disk'.entries[k.count] = <<k.address, k.slot>>,
         disk'.root = disk.root,
         UNCHANGED <<status, keys, lastOpen, tree, op, faults>>,
         MapFollows', Counts \subseteq Counts'
  PROVE  MemoryShape' /\ DiskShape' /\ LeafShape' /\ LastShape'
  <1>1. status \in {"genesis", "running"} /\ status' = status
    BY DEF AtRest, TypeOK
  <1>2. MapFollows /\ JobsFollow /\ OpFollows /\ PoolFollows /\ LeavesFollow
    BY <1>1 DEF MemoryShape
  <1>3. \A i \in jobs : i # j => i.at = "leaf" /\ i.left = {} /\ i.address # j.address
    BY <1>2 DEF JobsFollow
  <1>4. j.address \in DOMAIN keys /\ j.slot = keys[j.address]
    BY <1>2 DEF JobsFollow
  <1>5. JobsFollow'
    <2>1. ASSUME NEW i \in jobs'
          PROVE  /\ i.at # "full" => i.address \in DOMAIN keys /\ i.slot = keys[i.address]
                 /\ i.at = "entry" => i.entry = Cardinality(DOMAIN keys)
                 /\ i.left # {} => i.at = "counts"
                 /\ "count" \in i.left =>
                       /\ i.count = Cardinality(DOMAIN keys)
                       /\ i.count \in DOMAIN disk'.entries
                       /\ disk'.entries[i.count] = <<i.address, i.slot>>
      <3>1. CASE i = k
        BY <1>4, <3>1
      <3>2. CASE i # k
        <4>1. i \in jobs /\ i.at = "leaf" /\ i.left = {}
          BY <1>3, <2>1, <3>2
        <4>2. QED
          BY <1>2, <4>1 DEF JobsFollow
      <3>3. QED
        BY <3>1, <3>2
    <2>2. ASSUME NEW i \in jobs', NEW l \in jobs'
          PROVE  /\ i.at # "leaf" /\ l.at # "leaf" => i = l
                 /\ i.at # "leaf" /\ l.at = "leaf" => i.address # l.address
      BY <1>3, <2>2
    <2>3. QED
      BY <2>1, <2>2 DEF JobsFollow
  <1>6. OpFollows'
    BY <1>2 DEF OpFollows
  <1>7. PoolFollows'
    BY <1>2 DEF PoolFollows
  <1>8. LeavesFollow'
    BY <1>2 DEF LeavesFollow
  <1>9. LeafShape'
    <2> SUFFICES ASSUME "orphan" \notin faults, NEW x \in DOMAIN keys,
                        keys[x] \in Slots
                 PROVE  \/ tree[keys[x]].pubkey = x
                        \/ \E i \in jobs' : i.address = x
      BY <1>1 DEF LeafShape
    <2>1. tree[keys[x]].pubkey = x \/ \E i \in jobs : i.address = x
      BY <1>1 DEF LeafShape
    <2>2. QED
      BY <2>1
  <1>10. LastShape'
    <2> SUFFICES ASSUME "torn" \notin faults
                 PROVE  \/ DOMAIN keys = {}
                        \/ \E i \in jobs' : i.at = "full"
                        \/ \E x \in DOMAIN keys : keys[x] = lastOpen
      BY <1>1 DEF LastShape
    <2>1. \/ DOMAIN keys = {}
          \/ \E i \in jobs : i.at = "full"
          \/ \E x \in DOMAIN keys : keys[x] = lastOpen
      BY <1>1 DEF LastShape
    <2>2. QED
      BY <1>3, <2>1
  <1>11. DiskShape'
    BY <1>1 DEF DiskShape
  <1>12. QED
    BY <1>5, <1>6, <1>7, <1>8, <1>9, <1>10, <1>11 DEF MemoryShape

\* Of the accounts in memory, the size leaves out at most that of the job.
LEMMA CountsAreAllButOne ==
  ASSUME TypeOK, JobsFollow, NEW j \in jobs,
         j.at = "entry" \/ "count" \in j.left
  PROVE  /\ j.address \in DOMAIN keys /\ j.address \notin Counts
         /\ DOMAIN keys = Counts \cup {j.address}
         /\ Cardinality(Counts) = Cardinality(DOMAIN keys) - 1
         /\ \A i \in jobs : i # j => i.at = "leaf" /\ i.left = {}
  <1>1. j.at # "leaf" /\ j.at # "full"
    BY DEF JobsFollow
  <1>2. \A i \in jobs : i # j => i.at = "leaf" /\ i.left = {}
    BY <1>1 DEF JobsFollow
  <1>3. j.address \in DOMAIN keys
    BY <1>1 DEF JobsFollow
  <1>4. \A x : x \in Uncounted <=> x = j.address
    BY <1>2, UncountedIs
  <1>5. DOMAIN keys = Counts \cup {j.address} /\ j.address \notin Counts
    BY <1>3, <1>4 DEF Counts
  <1>6. Cardinality(Counts \cup {j.address}) = Cardinality(Counts) + 1
    BY <1>5, CountsIs, FS_AddElement
  <1>7. QED
    BY <1>2, <1>3, <1>5, <1>6, CountsIs

LEMMA EntryKeeps ==
  ASSUME TypeOK, TypeOK', AtRest, MemoryShape, LeafShape, LastShape,
         NEW j \in jobs, EntryStored(j)
  PROVE  MemoryShape' /\ DiskShape' /\ LeafShape' /\ LastShape'
  <1>1. /\ j.at = "entry"
        /\ UNCHANGED <<status, keys, lastOpen, tree, op, faults, accepted, crashes>>
    BY DEF EntryStored
  <1>2. MapFollows /\ JobsFollow
    BY DEF MemoryShape, AtRest, TypeOK
  <1>3. PICK k \in Jobs :
         /\ jobs' = (jobs \ {j}) \cup {k}
         /\ k.address = j.address /\ k.slot = j.slot /\ k.of = j.of
         /\ k.at = "counts" /\ k.left = {"count", "last"}
         /\ k.count = Cardinality(DOMAIN keys)
         /\ DOMAIN disk'.entries = DOMAIN disk.entries \cup {j.entry}
         /\ disk'.entries[j.entry] = <<j.address, j.slot>>
         /\ \A i \in DOMAIN disk.entries :
               i # j.entry => disk'.entries[i] = disk.entries[i]
         /\ disk'.count = disk.count /\ disk'.root = disk.root
    BY EntryStoredIs
  <1>4. j.entry = Cardinality(DOMAIN keys)
    BY <1>1, <1>2 DEF JobsFollow
  <1>5. /\ Cardinality(Counts) = Cardinality(DOMAIN keys) - 1
        /\ \A i \in jobs : i # j => i.at = "leaf" /\ i.left = {}
    BY <1>1, <1>2, CountsAreAllButOne
  <1>6. Counts' = Counts
    <2>1. \A x : x \in Uncounted <=> x = j.address
      BY <1>1, <1>5, UncountedIs
    <2>2. \A x : x \in Uncounted' <=> x = j.address
      <3>1. "count" \in k.left /\ k \in jobs'
            /\ \A i \in jobs' : i # k => i.at = "leaf" /\ i.left = {}
        BY <1>3, <1>5
      <3>2. QED
        BY <1>3, <3>1, UncountedIs
    <2>3. QED
      BY <1>1, <2>1, <2>2 DEF Counts
  <1>7. MapFollows'
    <2>1. \A i \in 1..Cardinality(Counts) : i # j.entry
      BY <1>4, <1>5, CountsIs, TypeFacts
    <2>2. \A i \in 1..Cardinality(Counts) : i \in DOMAIN disk.entries =>
             i \in DOMAIN disk'.entries /\ disk'.entries[i] = disk.entries[i]
      BY <1>3, <2>1
    <2>3. QED
      BY <1>1, <1>2, <1>3, <1>6, <2>2, MapKeeps
  <1>8. QED
    BY <1>1, <1>3, <1>4, <1>6, <1>7, JobGoesOn

LEMMA CountKeeps ==
  ASSUME TypeOK, TypeOK', AtRest, MemoryShape, LeafShape, LastShape,
         NEW j \in jobs, CountStored(j)
  PROVE  MemoryShape' /\ DiskShape' /\ LeafShape' /\ LastShape'
  <1>1. /\ "count" \in j.left /\ Counted(j, "count")
        /\ UNCHANGED <<status, keys, lastOpen, tree, op, faults, accepted, crashes>>
    BY DEF CountStored
  <1>2. MapFollows /\ JobsFollow
    BY DEF MemoryShape, AtRest, TypeOK
  <1>3. PICK k \in Jobs :
         /\ jobs' = (jobs \ {j}) \cup {k}
         /\ k.address = j.address /\ k.slot = j.slot /\ k.of = j.of
         /\ k.left = j.left \ {"count"}
         /\ k.at = IF k.left = {} THEN "leaf" ELSE "counts"
    BY <1>1, CountedIs
  <1>4. /\ disk'.entries = disk.entries /\ disk'.count = j.count
        /\ disk'.root = disk.root
    BY CountStoredIs
  <1>5. /\ j.at = "counts" /\ j.count = Cardinality(DOMAIN keys)
        /\ j.count \in DOMAIN disk.entries
        /\ disk.entries[j.count] = <<j.address, j.slot>>
        /\ j.slot = keys[j.address]
    BY <1>1, <1>2 DEF JobsFollow
  <1>6. /\ j.address \in DOMAIN keys
        /\ DOMAIN keys = Counts \cup {j.address}
        /\ Cardinality(Counts) = Cardinality(DOMAIN keys) - 1
        /\ \A i \in jobs : i # j => i.at = "leaf" /\ i.left = {}
    BY <1>1, <1>2, CountsAreAllButOne
  <1>7. Counts' = DOMAIN keys
    <2>1. \A x : x \notin Uncounted'
      BY <1>3, <1>6, UncountedIs
    <2>2. QED
      BY <1>1, <2>1 DEF Counts
  <1>8. MapFollows'
    <2> DEFINE n == Cardinality(DOMAIN keys)
    <2>1. n \in Nat /\ Cardinality(Counts) = n - 1
      BY <1>6, TypeFacts
    <2>2. \A i \in 1..n : i \in 1..Cardinality(Counts) \/ i = j.count
      BY <1>5, <2>1
    <2>3. \A i \in 1..n : /\ i \in DOMAIN disk.entries
                          /\ disk.entries[i][1] \in DOMAIN keys
                          /\ disk.entries[i][2] = keys[disk.entries[i][1]]
      <3> SUFFICES ASSUME NEW i \in 1..n
                   PROVE  /\ i \in DOMAIN disk.entries
                          /\ disk.entries[i][1] \in DOMAIN keys
                          /\ disk.entries[i][2] = keys[disk.entries[i][1]]
        OBVIOUS
      <3>1. CASE i \in 1..Cardinality(Counts)
        BY <1>2, <1>6, <3>1 DEF MapFollows
      <3>2. CASE i = j.count
        BY <1>5, <1>6, <3>2
      <3>3. QED
        BY <2>2, <3>1, <3>2
    <2>4. j.count \in 1..n
      BY <1>5, <1>6, <2>1, CountsIs
    <2>5. \A x \in DOMAIN keys : \E i \in 1..n : disk.entries[i][1] = x
      <3> SUFFICES ASSUME NEW x \in DOMAIN keys
                   PROVE  \E i \in 1..n : disk.entries[i][1] = x
        OBVIOUS
      <3>1. CASE x = j.address
        BY <1>5, <2>4, <3>1
      <3>2. CASE x # j.address
        <4>1. PICK i \in 1..Cardinality(Counts) : disk.entries[i][1] = x
          BY <1>2, <1>6, <3>2 DEF MapFollows
        <4>2. i \in 1..n
          BY <2>1, <4>1
        <4>3. QED
          BY <4>1, <4>2
      <3>3. QED
        BY <3>1, <3>2
    <2>6. disk'.count = n /\ Cardinality(Counts') = n
      BY <1>4, <1>5, <1>7
    <2> HIDE DEF n
    <2>7. QED
      BY <1>1, <1>4, <1>7, <2>3, <2>5, <2>6 DEF MapFollows
  <1>9. QED
    BY <1>1, <1>3, <1>4, <1>5, <1>6, <1>7, <1>8, JobGoesOn

LEMMA LastKeeps ==
  ASSUME TypeOK, TypeOK', AtRest, MemoryShape, LeafShape, LastShape,
         NEW j \in jobs, LastStored(j)
  PROVE  MemoryShape' /\ DiskShape' /\ LeafShape' /\ LastShape'
  <1>1. /\ "last" \in j.left /\ Counted(j, "last")
        /\ UNCHANGED <<status, keys, lastOpen, tree, op, faults, accepted, crashes>>
    BY DEF LastStored
  <1>2. MapFollows /\ JobsFollow
    BY DEF MemoryShape, AtRest, TypeOK
  <1>3. PICK k \in Jobs :
         /\ jobs' = (jobs \ {j}) \cup {k}
         /\ k.address = j.address /\ k.slot = j.slot /\ k.of = j.of
         /\ k.count = j.count /\ k.left = j.left \ {"last"}
         /\ k.at = IF k.left = {} THEN "leaf" ELSE "counts"
    BY <1>1, CountedIs
  <1>4. /\ disk'.entries = disk.entries /\ disk'.count = disk.count
        /\ disk'.root = disk.root
    BY LastStoredIs
  <1>5. /\ j.at = "counts"
        /\ "count" \in j.left =>
              /\ j.count = Cardinality(DOMAIN keys)
              /\ j.count \in DOMAIN disk.entries
              /\ disk.entries[j.count] = <<j.address, j.slot>>
    BY <1>1, <1>2 DEF JobsFollow
  <1>6. Counts' = Counts
    <2>1. \A x : x \in Uncounted' <=> x \in Uncounted
      BY <1>3, <1>5, UncountedIs
    <2>2. QED
      BY <1>1, <2>1 DEF Counts
  <1>7. MapFollows'
    BY <1>1, <1>2, <1>4, <1>6, MapKeeps
  <1>8. QED
    BY <1>1, <1>3, <1>4, <1>5, <1>6, <1>7, JobGoesOn

\* Between transactions every account is in the stored map, and the last slot
\* is somebody's.
LEMMA BetweenJobs ==
  ASSUME TypeOK, jobs = {}, status \in {"genesis", "running"},
         MemoryShape, LeafShape, LastShape
  PROVE  /\ Counts = DOMAIN keys
         /\ \A x, y \in DOMAIN keys : keys[x] = keys[y] => x = y
         /\ \A s \in Slots : tree[s] # Empty =>
               tree[s].pubkey \in DOMAIN keys /\ keys[tree[s].pubkey] = s
         /\ "orphan" \notin faults =>
               \A x \in DOMAIN keys : keys[x] \in Slots => tree[keys[x]].pubkey = x
         /\ "torn" \notin faults =>
               DOMAIN keys = {} \/ \E x \in DOMAIN keys : keys[x] = lastOpen
         /\ MapFollows
  <1>1. Counts = DOMAIN keys
    BY CountsIs
  <1>2. QED
    BY <1>1 DEF MemoryShape, LeavesFollow, LeafShape, LastShape

\* A transaction whose accounts are known writes their leaves.
LEMMA OpenKnown ==
  ASSUME TypeOK, jobs = {}, status \in {"genesis", "running"},
         MemoryShape, LeafShape, LastShape,
         \A j \in jobs' : /\ j.at = "leaf" /\ j.left = {}
                          /\ j.address \in DOMAIN keys /\ j.slot = keys[j.address],
         UNCHANGED <<status, keys, lastOpen, tree, disk>>, faults \subseteq faults'
  PROVE  /\ MapFollows' /\ JobsFollow' /\ PoolFollows' /\ LeavesFollow'
         /\ LeafShape' /\ LastShape'
  <1>1. Counts = DOMAIN keys /\ MapFollows
    BY BetweenJobs
  <1>2. Counts' = Counts
    <2>1. \A x : x \notin Uncounted'
      BY UncountedIs
    <2>2. QED
      BY <1>1, <2>1 DEF Counts
  <1>3. MapFollows'
    BY <1>1, <1>2, MapKeeps
  <1>4. JobsFollow'
    BY DEF JobsFollow
  <1>5. PoolFollows'
    BY DEF MemoryShape, PoolFollows
  <1>6. LeavesFollow'
    BY <1>2 DEF MemoryShape, LeavesFollow
  <1>7. LeafShape'
    BY BetweenJobs DEF LeafShape
  <1>8. LastShape'
    BY BetweenJobs DEF LastShape
  <1>9. QED
    BY <1>3, <1>4, <1>5, <1>6, <1>7, <1>8

\* The first slot of all is the pool's.
LEMMA FirstSlotIs ==
  ASSUME NEW m, MachineType(m), DOMAIN m.keys = {}
  PROVE  NextSlot(m) = m.lastOpen
  <1> DEFINE used == {m.keys[a] : a \in DOMAIN m.keys}
             Free(n) == n \notin used /\ \A k \in m.lastOpen..(n - 1) : k \in used
  <1>1. used = {} /\ m.lastOpen \in Nat
    BY MachineFacts
  <1>2. NextSlot(m) = CHOOSE n \in m.lastOpen..(m.lastOpen + Cardinality(used)) :
                          Free(n)
    BY DEF NextSlot
  <1>3. m.lastOpen + Cardinality(used) = m.lastOpen
    BY <1>1, FS_EmptySet
  <1>4. \A n \in m.lastOpen..m.lastOpen : n = m.lastOpen
    BY <1>1
  <1>5. Free(m.lastOpen) /\ m.lastOpen \in m.lastOpen..m.lastOpen
    BY <1>1
  <1> HIDE DEF Free
  <1>6. QED
    BY <1>2, <1>3, <1>4, <1>5

\* One new account, at most, gets a slot that nobody has, if there is one.
LEMMA OpenNew ==
  ASSUME TypeOK, jobs = {}, status \in {"genesis", "running"},
         MemoryShape, LeafShape, LastShape,
         NEW x \in Addresses, x \notin DOMAIN keys,
         DOMAIN keys = {} => x = Uniswap,
         keys' = WithKey(TheMachine, x).keys,
         lastOpen' = WithKey(TheMachine, x).lastOpen,
         NEW new \in jobs', new.address = x, new.left = {},
         new.at = IF x \in DOMAIN keys' THEN "entry" ELSE "full",
         new.slot = lastOpen', new.entry = Cardinality(DOMAIN keys) + 1,
         \A j \in jobs' : j = new \/ /\ j.at = "leaf" /\ j.left = {}
                                     /\ j.address \in DOMAIN keys
                                     /\ j.slot = keys[j.address],
         UNCHANGED <<status, tree, disk>>, faults \subseteq faults'
  PROVE  /\ MapFollows' /\ JobsFollow' /\ PoolFollows' /\ LeavesFollow'
         /\ LeafShape' /\ LastShape'
  <1>0. /\ MachineType(TheMachine) /\ TheMachine.keys = keys
        /\ TheMachine.lastOpen = lastOpen /\ IsFiniteSet(DOMAIN TheMachine.keys)
    BY TypeFacts
  <1>1. /\ \A y \in DOMAIN keys : keys[y] # lastOpen'
        /\ IF x \in DOMAIN keys'
           THEN /\ DOMAIN keys' = DOMAIN keys \cup {x}
                /\ keys'[x] = lastOpen'
                /\ \A y \in DOMAIN keys : keys'[y] = keys[y]
                /\ Cardinality(DOMAIN keys') = Cardinality(DOMAIN keys) + 1
           ELSE keys' = keys
        /\ lastOpen' = 0 => x \in DOMAIN keys'
    BY <1>0, NewKeyIs
  <1>2. /\ Counts = DOMAIN keys /\ MapFollows
        /\ \A y, z \in DOMAIN keys : keys[y] = keys[z] => y = z
        /\ \A s \in Slots : tree[s] # Empty =>
              tree[s].pubkey \in DOMAIN keys /\ keys[tree[s].pubkey] = s
    BY BetweenJobs
  <1>3. \A y \in DOMAIN keys : y \in DOMAIN keys' /\ keys'[y] = keys[y]
    BY <1>1
  <1>4. Counts' = Counts
    <2>1. CASE x \in DOMAIN keys'
      <3>1. \A y : y \in Uncounted' <=> y = x
        BY <2>1, UncountedIs
      <3>2. DOMAIN keys' = DOMAIN keys \cup {x}
        BY <1>1, <2>1
      <3>3. QED
        BY <1>2, <3>1, <3>2 DEF Counts
    <2>2. CASE x \notin DOMAIN keys'
      <3>1. \A y : y \notin Uncounted'
        BY <2>2, UncountedIs
      <3>2. keys' = keys
        BY <1>1, <2>2
      <3>3. QED
        BY <1>2, <3>1, <3>2 DEF Counts
    <2>3. QED
      BY <2>1, <2>2
  <1>5. MapFollows'
    BY <1>2, <1>3, <1>4, MapKeeps
  <1>6. JobsFollow'
    <2>1. ASSUME NEW j \in jobs'
          PROVE  /\ j.at # "full" => j.address \in DOMAIN keys' /\ j.slot = keys'[j.address]
                 /\ j.at = "entry" => j.entry = Cardinality(DOMAIN keys')
                 /\ j.left = {}
      <3>1. CASE j = new
        BY <1>1, <3>1
      <3>2. CASE j # new
        BY <1>3, <2>1, <3>2
      <3>3. QED
        BY <3>1, <3>2
    <2>2. ASSUME NEW j \in jobs', NEW k \in jobs'
          PROVE  /\ j.at # "leaf" /\ k.at # "leaf" => j = k
                 /\ j.at # "leaf" /\ k.at = "leaf" => j.address # k.address
      BY <2>2
    <2>3. QED
      BY <2>1, <2>2 DEF JobsFollow
  <1>7. PoolFollows'
    <2>1. CASE DOMAIN keys = {}
      <3>1. lastOpen = 0 /\ x = Uniswap
        BY <2>1 DEF MemoryShape, PoolFollows
      <3>2. NextSlot(TheMachine) = 0
        BY <1>0, <2>1, <3>1, FirstSlotIs
      <3>3. lastOpen' = 0
        BY <1>0, <3>2 DEF WithKey, Machine
      <3>4. Uniswap \in DOMAIN keys' /\ keys'[Uniswap] = 0
        BY <1>1, <3>1, <3>3
      <3>5. QED
        BY <3>4 DEF PoolFollows
    <2>2. CASE DOMAIN keys # {}
      <3>1. Uniswap \in DOMAIN keys /\ keys[Uniswap] = 0
        BY <2>2 DEF MemoryShape, PoolFollows
      <3>2. QED
        BY <1>3, <3>1 DEF PoolFollows
    <2>3. QED
      BY <2>1, <2>2
  <1>8. LeavesFollow'
    <2>1. ASSUME NEW y \in DOMAIN keys', NEW z \in DOMAIN keys', keys'[y] = keys'[z]
          PROVE  y = z
      BY <1>1, <1>2, <2>1
    <2>2. ASSUME NEW s \in Slots, tree[s] # Empty
          PROVE  tree[s].pubkey \in Counts' /\ keys'[tree[s].pubkey] = s
      BY <1>2, <1>3, <1>4, <2>2
    <2>3. QED
      BY <2>1, <2>2 DEF LeavesFollow
  <1>9. LeafShape'
    <2> SUFFICES ASSUME "orphan" \notin faults, NEW y \in DOMAIN keys',
                        keys'[y] \in Slots
                 PROVE  \/ tree[keys'[y]].pubkey = y
                        \/ \E j \in jobs' : j.address = y
      BY DEF LeafShape
    <2>1. CASE y = x
      BY <2>1
    <2>2. CASE y # x
      <3>1. y \in DOMAIN keys /\ keys'[y] = keys[y]
        BY <1>1, <2>2
      <3>2. QED
        BY <3>1, BetweenJobs
    <2>3. QED
      BY <2>1, <2>2
  <1>10. LastShape'
    <2>1. (\E j \in jobs' : j.at = "full") \/ \E y \in DOMAIN keys' : keys'[y] = lastOpen'
      BY <1>1
    <2>2. QED
      BY <2>1 DEF LastShape
  <1>11. QED
    BY <1>5, <1>6, <1>7, <1>8, <1>9, <1>10

LEMMA GenesisKeeps ==
  ASSUME TypeOK, TypeOK', AtRest, MemoryShape, LeafShape, LastShape, GenesisWrite
  PROVE  MemoryShape' /\ DiskShape' /\ LeafShape' /\ LastShape'
  <1> DEFINE state == Genesis[Cardinality(DOMAIN keys) + 1]
             keyed == WithKey(TheMachine, state.pubkey)
             job   == Job(TheMachine, Write(state.pubkey, state.balances), 0)
  <1>1. /\ status = "genesis" /\ jobs = {}
        /\ Cardinality(DOMAIN keys) < Len(Genesis)
        /\ jobs' = {job} /\ keys' = keyed.keys /\ lastOpen' = keyed.lastOpen
        /\ UNCHANGED <<status, tree, op, disk, faults, accepted, crashes>>
    BY DEF GenesisWrite
  <1>2. state \in States
    BY <1>1, TypeFacts, MachineAssumption
  <1>3. state.pubkey \in Addresses
    BY <1>2 DEF States
  <1>4. DOMAIN keys = {} => state.pubkey = Uniswap
    <2> SUFFICES ASSUME DOMAIN keys = {} PROVE state.pubkey = Uniswap
      OBVIOUS
    <2>1. Cardinality(DOMAIN keys) + 1 = 1
      BY FS_EmptySet
    <2>2. QED
      BY <2>1, MachineAssumption
  <1> DEFINE x == state.pubkey
  <1>5. /\ job.address = x /\ job.left = {}
        /\ x \in DOMAIN keys => job.at = "leaf" /\ job.slot = keys[x]
        /\ x \notin DOMAIN keys =>
              /\ job.at = IF x \in DOMAIN keyed.keys THEN "entry" ELSE "full"
              /\ job.slot = keyed.lastOpen
              /\ job.entry = Cardinality(DOMAIN keys) + 1
    BY TypeFacts, JobIs
  <1>6. x \in DOMAIN keys => keyed = TheMachine
    BY TypeFacts, KnownKeyIs
  <1>7. PICK new : new = job
    OBVIOUS
  <1> HIDE DEF job, state
  <1>8. /\ MapFollows' /\ JobsFollow' /\ PoolFollows' /\ LeavesFollow'
        /\ LeafShape' /\ LastShape'
    <2>1. CASE x \in DOMAIN keys
      BY <1>1, <1>5, <1>6, <2>1, TypeFacts, OpenKnown
    <2>2. CASE x \notin DOMAIN keys
      <3>1. /\ new \in jobs' /\ new.address = x /\ new.left = {}
            /\ new.at = IF x \in DOMAIN keys' THEN "entry" ELSE "full"
            /\ new.slot = lastOpen' /\ new.entry = Cardinality(DOMAIN keys) + 1
            /\ \A j \in jobs' : j = new
        BY <1>1, <1>5, <1>7, <2>2
      <3>2. QED
        BY <1>1, <1>3, <1>4, <2>2, <3>1, OpenNew
    <2>3. QED
      BY <2>1, <2>2
  <1>9. OpFollows'
    BY <1>1 DEF OpFollows
  <1>10. DiskShape'
    BY <1>1 DEF DiskShape
  <1>11. QED
    BY <1>8, <1>9, <1>10 DEF MemoryShape

\* Of a transaction's two accounts one is known: the sender of a transfer has
\* what he sends, and the other account of a swap is the pool.
LEMMA OneIsKnown ==
  ASSUME TypeOK, MemoryShape, NEW tx \in Transactions, Begin(tx)
  PROVE  LET w == Writes(TheMachine, tx)
         IN  /\ Uniswap \in DOMAIN keys
             /\ w[1].address \in DOMAIN keys \/ w[2].address \in DOMAIN keys
  <1>1. /\ status = "running" /\ ~Refused(TheMachine, tx)
    BY DEF Begin
  <1>2. TransactionType(tx)
    BY BeginIs
  <1>3. Uniswap \in DOMAIN keys
    BY <1>1 DEF MemoryShape, PoolFollows
  <1>4. CASE tx.kind = "transfer"
    <2>1. Writes(TheMachine, tx)[1].address = tx.sender
      BY <1>4 DEF Writes, TransferWrites, Write
    <2>2. GetBalances(TheMachine, tx.sender)[tx.token] >= tx.amount
      BY <1>1, <1>4 DEF Refused, HasBalance
    <2>3. tx.sender \notin DOMAIN keys =>
             GetBalances(TheMachine, tx.sender)[tx.token] = 0
      BY <1>2, BalancesOfUnknown, TypeFacts DEF NoBalance, TransactionType
    <2>4. tx.sender \in DOMAIN keys
      BY <1>2, <2>2, <2>3 DEF TransactionType
    <2>5. QED
      BY <1>3, <2>1, <2>4
  <1>5. CASE tx.kind = "swap"
    <2>1. Writes(TheMachine, tx)[2].address = Uniswap
      BY <1>5 DEF Writes, SwapWrites, Write
    <2>2. QED
      BY <1>3, <2>1
  <1>6. QED
    BY <1>2, <1>4, <1>5 DEF TransactionType

LEMMA BeginKeeps ==
  ASSUME TypeOK, TypeOK', AtRest, MemoryShape, LeafShape, LastShape,
         NEW tx \in Transactions, Begin(tx)
  PROVE  MemoryShape' /\ DiskShape' /\ LeafShape' /\ LastShape'
  <1>1. PICK m : m = TheMachine
    OBVIOUS
  <1>2. PICK w : w = Writes(m, tx)
    OBVIOUS
  <1>3. PICK x, y, b, d : x = w[1].address /\ y = w[2].address
                          /\ b = w[1].balances /\ d = w[2].balances
    OBVIOUS
  <1>4. PICK number : number = accepted + 1
    OBVIOUS
  <1>5. PICK second : second = WithKey(m, x)
    OBVIOUS
  <1>6. PICK j, k : j = Job(m, w[1], number) /\ k = Job(second, w[2], number)
    OBVIOUS
  <1>7. /\ x \in Addresses /\ y \in Addresses
        /\ w[1] = Write(x, b) /\ w[2] = Write(y, d)
        /\ MachineType(second) /\ IsFiniteSet(DOMAIN second.keys)
        /\ keys' = WithKey(second, y).keys
        /\ lastOpen' = WithKey(second, y).lastOpen
        /\ jobs' = jobs \cup {j, k}
    BY <1>1, <1>2, <1>3, <1>4, <1>5, <1>6, BeginIs
  <1>8. /\ status = "running" /\ op = Idle
        /\ op' = [doing |-> "writing", number |-> number, root |-> NoRoot]
        /\ faults \subseteq faults'
        /\ UNCHANGED <<status, tree, disk, crashes>>
    BY <1>4 DEF Begin
  <1>9. /\ Uniswap \in DOMAIN keys
        /\ x \in DOMAIN keys \/ y \in DOMAIN keys
    BY <1>1, <1>2, <1>3, OneIsKnown
  <1>10. jobs = {} /\ jobs' = {j, k}
    BY <1>7, <1>8, IdleIs DEF MemoryShape, OpFollows
  <1>11. /\ m.keys = keys /\ m.lastOpen = lastOpen
         /\ MachineType(m) /\ IsFiniteSet(DOMAIN m.keys)
    BY <1>1, TypeFacts
  <1>12. /\ j.address = x /\ j.of = number /\ j.left = {}
         /\ x \in DOMAIN keys => j.at = "leaf" /\ j.slot = keys[x]
         /\ x \notin DOMAIN keys =>
               /\ j.at = IF x \in DOMAIN second.keys THEN "entry" ELSE "full"
               /\ j.slot = second.lastOpen
               /\ j.entry = Cardinality(DOMAIN keys) + 1
    BY <1>5, <1>6, <1>7, <1>11, JobIs
  <1>13. /\ k.address = y /\ k.of = number /\ k.left = {}
         /\ y \in DOMAIN second.keys => k.at = "leaf" /\ k.slot = second.keys[y]
         /\ y \notin DOMAIN second.keys =>
               /\ k.at = IF y \in DOMAIN WithKey(second, y).keys THEN "entry"
                                                                 ELSE "full"
               /\ k.slot = WithKey(second, y).lastOpen
               /\ k.entry = Cardinality(DOMAIN second.keys) + 1
    BY <1>6, <1>7, JobIs
  <1>14. /\ MapFollows' /\ JobsFollow' /\ PoolFollows' /\ LeavesFollow'
         /\ LeafShape' /\ LastShape'
         /\ \A i \in jobs' : i.at # "leaf" => i.address # Uniswap
    <2>1. CASE x \in DOMAIN keys /\ y \in DOMAIN keys
      <3>1. second = m /\ WithKey(second, y) = m
        BY <1>5, <1>11, <2>1, KnownKeyIs
      <3>2. keys' = keys /\ lastOpen' = lastOpen
        BY <1>7, <1>11, <3>1
      <3>3. \A i \in jobs' : /\ i.at = "leaf" /\ i.left = {}
                             /\ i.address \in DOMAIN keys
                             /\ i.slot = keys[i.address]
        BY <1>10, <1>11, <1>12, <1>13, <2>1, <3>1
      <3>4. QED
        BY <1>8, <1>10, <3>2, <3>3, OpenKnown
    <2>2. CASE x \notin DOMAIN keys /\ y \in DOMAIN keys
      <3>1. /\ y \in DOMAIN second.keys /\ second.keys[y] = keys[y]
        BY <1>5, <1>7, <1>11, <2>2, WithKeyType
      <3>2. WithKey(second, y) = second
        BY <3>1, KnownKeyIs
      <3>3. /\ keys' = WithKey(TheMachine, x).keys
            /\ lastOpen' = WithKey(TheMachine, x).lastOpen
        BY <1>1, <1>5, <1>7, <3>2
      <3>4. /\ j \in jobs'
            /\ j.at = IF x \in DOMAIN keys' THEN "entry" ELSE "full"
            /\ j.slot = lastOpen' /\ j.entry = Cardinality(DOMAIN keys) + 1
            /\ \A i \in jobs' : i = j \/ /\ i.at = "leaf" /\ i.left = {}
                                         /\ i.address \in DOMAIN keys
                                         /\ i.slot = keys[i.address]
        BY <1>1, <1>5, <1>10, <1>12, <1>13, <2>2, <3>1, <3>3
      <3>5. QED
        BY <1>7, <1>8, <1>9, <1>10, <1>12, <2>2, <3>3, <3>4, OpenNew
    <2>3. CASE x \in DOMAIN keys /\ y \notin DOMAIN keys
      <3>1. second = m
        BY <1>5, <1>11, <2>3, KnownKeyIs
      <3>2. /\ keys' = WithKey(TheMachine, y).keys
            /\ lastOpen' = WithKey(TheMachine, y).lastOpen
        BY <1>1, <1>7, <3>1
      <3>3. /\ k \in jobs'
            /\ k.at = IF y \in DOMAIN keys' THEN "entry" ELSE "full"
            /\ k.slot = lastOpen' /\ k.entry = Cardinality(DOMAIN keys) + 1
            /\ \A i \in jobs' : i = k \/ /\ i.at = "leaf" /\ i.left = {}
                                         /\ i.address \in DOMAIN keys
                                         /\ i.slot = keys[i.address]
        BY <1>7, <1>10, <1>11, <1>12, <1>13, <2>3, <3>1
      <3>4. QED
        BY <1>7, <1>8, <1>9, <1>10, <1>13, <2>3, <3>2, <3>3, OpenNew
    <2>4. QED
      BY <1>9, <2>1, <2>2, <2>3
  <1>15. OpFollows'
    <2>1. op'.doing = "writing" /\ op'.number = number
      BY <1>8
    <2>2. \A i \in jobs' : i.of = number
      BY <1>10, <1>12, <1>13
    <2>3. QED
      BY <1>14, <2>1, <2>2 DEF OpFollows
  <1>16. DiskShape'
    BY <1>8 DEF DiskShape
  <1>17. QED
    BY <1>14, <1>15, <1>16 DEF MemoryShape

LEMMA CreatedKeeps ==
  ASSUME TypeOK, TypeOK', AtRest, MemoryShape, LeafShape, LastShape, Created
  PROVE  MemoryShape' /\ DiskShape' /\ LeafShape' /\ LastShape'
  <1>1. /\ status = "genesis" /\ status' = "running" /\ jobs = {}
        /\ Cardinality(DOMAIN keys) = Len(Genesis)
        /\ UNCHANGED <<keys, lastOpen, tree, op, jobs, disk, faults>>
    BY DEF Created
  <1>2. op = Idle /\ disk.root = NoRoot
    BY <1>1 DEF AtRest
  <1>3. DOMAIN keys # {}
    <2>1. PICK n \in Nat : Slots = 0..(n - 1)
      BY SlotsAreFirst
    <2>2. Cardinality(Slots) \in Nat
      BY <2>1, FS_Interval, FS_CardinalityType
    <2>3. PICK c : c = Cardinality(Slots) /\ c \in Nat
      BY <2>2
    <2>4. Len(Genesis) \in 1..c
      BY <2>3, MachineAssumption, Zenon
    <2>5. \A k \in 1..c : k # 0
      BY <2>3
    <2>6. Cardinality(DOMAIN keys) # 0
      BY <1>1, <2>4, <2>5, Zenon
    <2>7. QED
      BY <2>6, FS_EmptySet
  <1>4. MapFollows /\ JobsFollow /\ PoolFollows /\ LeavesFollow
    BY <1>1 DEF MemoryShape
  <1>5. Counts' = Counts
    <2>1. Uncounted' = Uncounted
      BY <1>1 DEF Uncounted
    <2>2. QED
      BY <1>1, <2>1 DEF Counts
  <1>6. MapFollows'
    BY <1>1, <1>4, <1>5, MapKeeps
  <1>7. JobsFollow' /\ PoolFollows' /\ LeavesFollow'
    BY <1>1, <1>3, <1>4, <1>5 DEF JobsFollow, PoolFollows, LeavesFollow
  <1>8. OpFollows'
    BY <1>1, <1>2, IdleIs DEF OpFollows
  <1>9. LeafShape' /\ LastShape' /\ DiskShape'
    BY <1>1 DEF LeafShape, LastShape, DiskShape
  <1>10. QED
    BY <1>6, <1>7, <1>8, <1>9 DEF MemoryShape

LEMMA RootKeeps ==
  ASSUME TypeOK, TypeOK', AtRest, MemoryShape, LeafShape, LastShape,
         StatesWritten \/ RootStored
  PROVE  MemoryShape' /\ DiskShape' /\ LeafShape' /\ LastShape'
  <1>1. /\ op.doing \in {"writing", "rooting"}
        /\ UNCHANGED <<status, keys, lastOpen, tree, jobs, faults>>
    BY DEF StatesWritten, RootStored
  <1>2. status = "running"
    BY <1>1, IdleIs DEF AtRest, TypeOK
  <1>3. MapFollows /\ JobsFollow /\ OpFollows /\ PoolFollows /\ LeavesFollow
    BY <1>2 DEF MemoryShape
  <1>4. jobs = {}
    <2>1. CASE StatesWritten
      BY <1>2, <1>3, <2>1 DEF StatesWritten, Own, OpFollows
    <2>2. CASE RootStored
      BY <1>2, <1>3, <2>2 DEF RootStored, OpFollows
    <2>3. QED
      BY <2>1, <2>2
  <1>5. disk'.entries = disk.entries /\ disk'.count = disk.count
        /\ disk'.last = disk.last
    BY RootStoredIs DEF StatesWritten
  <1>6. Counts' = Counts
    <2>1. Uncounted' = Uncounted
      BY <1>1 DEF Uncounted
    <2>2. QED
      BY <1>1, <2>1 DEF Counts
  <1>7. MapFollows'
    BY <1>1, <1>3, <1>5, <1>6, MapKeeps
  <1>8. JobsFollow' /\ PoolFollows' /\ LeavesFollow'
    BY <1>1, <1>3, <1>4, <1>6 DEF JobsFollow, PoolFollows, LeavesFollow
  <1>9. OpFollows'
    <2>1. CASE StatesWritten
      <3>1. op' = [op EXCEPT !.doing = "rooting", !.root = tree]
        BY <2>1 DEF StatesWritten
      <3>2. op'.doing = "rooting" /\ op'.root = tree
        BY <3>1 DEF TypeOK
      <3>3. QED
        BY <1>1, <1>4, <3>2 DEF OpFollows
    <2>2. CASE RootStored
      <3>1. op.root = tree
        BY <1>2, <1>3, <2>2 DEF RootStored, OpFollows
      <3>2. disk'.root = tree /\ op' = Idle
        BY <2>2, <3>1, RootStoredIs DEF RootStored
      <3>3. QED
        BY <1>1, <1>4, <3>2, IdleIs DEF OpFollows
    <2>3. QED
      BY <2>1, <2>2
  <1>10. LeafShape' /\ LastShape' /\ DiskShape'
    BY <1>1, <1>2 DEF LeafShape, LastShape, DiskShape
  <1>11. QED
    BY <1>7, <1>8, <1>9, <1>10 DEF MemoryShape

LEMMA InvInit == Init => Inv
  <1> SUFFICES ASSUME Init PROVE Inv
    OBVIOUS
  <1>1. status = "down" /\ op = Idle /\ jobs = {} /\ disk.root = NoRoot
    BY DEF Init
  <1>2. TypeOK
    BY TypeInit
  <1>3. QED
    BY <1>1, <1>2 DEF Inv, AtRest, MemoryShape, DiskShape, LeafShape, LastShape

LEMMA InvNext == Inv /\ [Next]_vars => Inv'
  <1> SUFFICES ASSUME Inv, [Next]_vars PROVE Inv'
    OBVIOUS
  <1>1. TypeOK /\ TypeOK' /\ AtRest /\ AtRest'
    BY TypeNext, AtRestNext DEF Inv
  <1>2. faults \subseteq faults'
    BY DEF Next, vars, Start, GenesisWrite, Created, Begin, EntryStored,
           CountStored, LastStored, LeafStored, JobFails, StatesWritten,
           RootStored, Crash
  <1>3. SUFFICES ASSUME Whole'
                 PROVE  MemoryShape' /\ DiskShape' /\ LeafShape' /\ LastShape'
    BY <1>1 DEF Inv
  <1>w. Whole
    BY <1>2, <1>3 DEF Whole
  <1>4. MemoryShape /\ DiskShape /\ LeafShape /\ LastShape
    BY <1>w DEF Inv
  <1>5. CASE Start
    BY <1>1, <1>3, <1>4, <1>5, StartFresh, StartAgain
  <1>6. CASE GenesisWrite
    BY <1>1, <1>4, <1>6, GenesisKeeps
  <1>7. CASE Created
    BY <1>1, <1>4, <1>7, CreatedKeeps
  <1>8. ASSUME NEW tx \in Transactions, Begin(tx)
        PROVE  MemoryShape' /\ DiskShape' /\ LeafShape' /\ LastShape'
    BY <1>1, <1>4, <1>8, BeginKeeps
  <1>9. ASSUME NEW j \in jobs, EntryStored(j)
        PROVE  MemoryShape' /\ DiskShape' /\ LeafShape' /\ LastShape'
    BY <1>1, <1>4, <1>9, EntryKeeps
  <1>10. ASSUME NEW j \in jobs, CountStored(j)
         PROVE  MemoryShape' /\ DiskShape' /\ LeafShape' /\ LastShape'
    BY <1>1, <1>4, <1>10, CountKeeps
  <1>11. ASSUME NEW j \in jobs, LastStored(j)
         PROVE  MemoryShape' /\ DiskShape' /\ LeafShape' /\ LastShape'
    BY <1>1, <1>4, <1>11, LastKeeps
  <1>12. ASSUME NEW j \in jobs, LeafStored(j)
         PROVE  MemoryShape' /\ DiskShape' /\ LeafShape' /\ LastShape'
    BY <1>1, <1>4, <1>w, <1>12, LeafKeeps
  <1>13. ASSUME NEW j \in jobs, JobFails(j)
         PROVE  MemoryShape' /\ DiskShape' /\ LeafShape' /\ LastShape'
    BY <1>3, <1>13 DEF JobFails, Whole
  <1>14. CASE StatesWritten \/ RootStored
    BY <1>1, <1>4, <1>14, RootKeeps
  <1>15. CASE Crash
    BY <1>1, <1>4, <1>15, CrashKeeps
  <1>16. CASE UNCHANGED vars
    <2>1. UNCHANGED <<status, keys, lastOpen, tree, op, jobs, disk, faults>>
      BY <1>16 DEF vars
    <2>2. Uncounted' = Uncounted
      BY <2>1 DEF Uncounted
    <2>3. Counts' = Counts
      BY <2>1, <2>2 DEF Counts
    <2>4. MapFollows' = MapFollows
      BY <2>1, <2>3 DEF MapFollows
    <2>5. /\ JobsFollow' = JobsFollow /\ OpFollows' = OpFollows
          /\ PoolFollows' = PoolFollows /\ LeavesFollow' = LeavesFollow
      BY <2>1, <2>3 DEF JobsFollow, OpFollows, PoolFollows, LeavesFollow
    <2>6. MemoryShape'
      BY <1>4, <2>1, <2>4, <2>5 DEF MemoryShape
    <2>7. DiskShape'
      BY <1>4, <2>1 DEF DiskShape
    <2>8. RecoveredKeys' = RecoveredKeys
      BY <2>1 DEF RecoveredKeys, StoredEntries
    <2>9. LeafShape' /\ LastShape'
      BY <1>4, <2>1, <2>8 DEF LeafShape, LastShape
    <2>10. QED
      BY <2>6, <2>7, <2>9
  <1>17. QED
    BY <1>5, <1>6, <1>7, <1>8, <1>9, <1>10, <1>11, <1>12, <1>13, <1>14, <1>15,
       <1>16 DEF Next

-----------------------------------------------------------------------------
(***************************************************************************)
(* What follows.                                                           *)
(***************************************************************************)
\* The stored map, memory and the tree agree while a process lives.
LEMMA InvIsAccounts == Inv => AccountsInv
  <1> SUFFICES ASSUME Inv PROVE AccountsInv
    OBVIOUS
  <1>1. TypeOK /\ AtRest
    BY DEF Inv
  <1>2. ASSUME Whole
        PROVE  MemoryShape /\ DiskShape /\ LeafShape /\ LastShape
    BY <1>2 DEF Inv
  <1>3. AccountsAreRecoverable
    <2> SUFFICES ASSUME disk.root # NoRoot, Whole
                 PROVE  AccountsAreRecoverable
      BY DEF AccountsAreRecoverable
    <2>1. CASE status \in {"down", "lost"}
      BY <1>2, <2>1 DEF DiskShape, AccountsAreRecoverable
    <2>2. CASE status = "running"
      <3> DEFINE n == Cardinality(Counts)
      <3>1. MapFollows /\ JobsFollow /\ OpFollows /\ PoolFollows /\ LeavesFollow
        BY <1>2, <2>2 DEF MemoryShape
      <3>2. Uniswap \in Counts
        <4>1. Uniswap \notin Uncounted
          BY <2>2, <3>1, UncountedIs DEF JobsFollow, OpFollows
        <4>2. Uniswap \in DOMAIN keys
          BY <2>2, <3>1 DEF PoolFollows
        <4>3. QED
          BY <4>1, <4>2 DEF Counts
      <3>3. n \in Nat /\ n # 0
        BY <1>1, <3>2, CountsIs, FS_EmptySet
      <3>4. /\ disk.count = n
            /\ \A i \in 1..n : /\ i \in DOMAIN disk.entries
                               /\ disk.entries[i][2] = keys[disk.entries[i][1]]
                               /\ disk.entries[i] \in Addresses \X Nat
            /\ \A x \in Counts : \E i \in 1..n : disk.entries[i][1] = x
        <4>1. \A i \in DOMAIN disk.entries : disk.entries[i] \in Addresses \X Nat
          BY <1>1 DEF TypeOK
        <4>2. QED
          BY <3>1, <3>3, <4>1 DEF MapFollows
      <3> HIDE DEF n
      <3>5. ASSUME NEW s \in Slots, tree[s] # Empty
            PROVE  \E i \in 1..n : disk.entries[i] = <<tree[s].pubkey, s>>
        <4>1. tree[s].pubkey \in Counts /\ keys[tree[s].pubkey] = s
          BY <3>1, <3>5 DEF LeavesFollow
        <4>2. PICK i \in 1..n : disk.entries[i][1] = tree[s].pubkey
          BY <3>4, <4>1
        <4>3. disk.entries[i][2] = s /\ disk.entries[i] \in Addresses \X Nat
          BY <3>4, <4>1, <4>2
        <4>4. QED
          BY <4>2, <4>3
      <3>6. QED
        BY <3>4, <3>5 DEF AccountsAreRecoverable
    <2>3. QED
      BY <1>1, <2>1, <2>2 DEF AtRest, TypeOK
  <1>4. LeavesBelongToAddresses
    BY <1>2 DEF LeavesBelongToAddresses, MemoryShape, LeavesFollow, Counts
  <1>5. ASSUME Quiet, Whole
        PROVE  /\ "orphan" \notin faults =>
                     \A x \in DOMAIN keys : keys[x] \in Slots =>
                         tree[keys[x]].pubkey = x
               /\ "torn" \notin faults =>
                     \E x \in DOMAIN keys : keys[x] = lastOpen
    <2>1. DOMAIN keys # {}
      BY <1>2, <1>5 DEF Quiet, MemoryShape, PoolFollows
    <2>2. QED
      BY <1>1, <1>2, <1>5, <2>1, BetweenJobs DEF Quiet
  <1>6. KnownAccountsHaveLeaves
    BY <1>5 DEF KnownAccountsHaveLeaves
  <1>7. NextSlotIsForeseen
    <2> SUFFICES ASSUME Quiet, Whole, "torn" \notin faults
                 PROVE  NextSlot(TheMachine) = lastOpen + 1
      BY DEF NextSlotIsForeseen
    <2>1. /\ NextSlot(TheMachine) \in {lastOpen, lastOpen + 1}
          /\ \A x \in DOMAIN keys : keys[x] # NextSlot(TheMachine)
      BY <1>1, TypeFacts, NextSlotIsNear
    <2>2. QED
      BY <1>5, <2>1
  <1>8. QED
    BY <1>1, <1>3, <1>4, <1>6, <1>7 DEF AccountsInv

\* A quiet process can be read back as it is.
LEMMA InvIsQuiet == Inv => QuietIsRecoverable
  <1> SUFFICES ASSUME Inv, Quiet, disk.root # NoRoot, Whole
               PROVE  disk.root = tree /\ RecoveredKeys = keys
    BY DEF QuietIsRecoverable
  <1>1. TypeOK /\ MemoryShape /\ LeafShape /\ LastShape
    BY DEF Inv
  <1>2. status = "running" /\ op = Idle /\ jobs = {}
    BY DEF Quiet
  <1>3. MapFollows /\ OpFollows /\ PoolFollows
    BY <1>1, <1>2 DEF MemoryShape
  <1>4. disk.root = tree
    BY <1>2, <1>3, IdleIs DEF OpFollows
  <1>5. Counts = DOMAIN keys
    BY <1>1, <1>2, CountsIs
  <1> DEFINE n == Cardinality(Counts)
  <1>6. n \in Nat /\ n # 0
    BY <1>1, <1>2, <1>3, <1>5, CountsIs, FS_EmptySet DEF PoolFollows
  <1>7. /\ disk.count = n
        /\ \A i \in 1..n : /\ i \in DOMAIN disk.entries
                           /\ disk.entries[i][1] \in DOMAIN keys
                           /\ disk.entries[i][2] = keys[disk.entries[i][1]]
        /\ \A x \in DOMAIN keys : \E i \in 1..n : disk.entries[i][1] = x
    BY <1>3, <1>5, <1>6 DEF MapFollows
  <1> HIDE DEF n
  <1>8. StoredEntries = 1..n
    BY <1>7 DEF StoredEntries
  <1>9. DOMAIN RecoveredKeys = DOMAIN keys
    <2>1. DOMAIN RecoveredKeys = {disk.entries[i][1] : i \in 1..n}
      BY <1>1, <1>8, RecoveredIs
    <2>2. DOMAIN RecoveredKeys \subseteq DOMAIN keys
      BY <1>7, <2>1
    <2>3. DOMAIN keys \subseteq DOMAIN RecoveredKeys
      BY <1>7, <2>1
    <2>4. QED
      BY <2>2, <2>3
  <1>10. \A x \in DOMAIN keys : RecoveredKeys[x] = keys[x]
    <2> SUFFICES ASSUME NEW x \in DOMAIN keys
                 PROVE  RecoveredKeys[x] = keys[x]
      OBVIOUS
    <2>1. PICK i \in StoredEntries : disk.entries[i] = <<x, RecoveredKeys[x]>>
      BY <1>1, <1>9, RecoveredIs
    <2>2. QED
      BY <1>7, <1>8, <2>1
  <1>11. /\ RecoveredKeys = [x \in DOMAIN RecoveredKeys |-> RecoveredKeys[x]]
         /\ keys = [x \in DOMAIN keys |-> keys[x]]
    <2>1. RecoveredKeys \in [DOMAIN RecoveredKeys -> 0..RecoveredLast]
      BY <1>1, RecoveredIs
    <2>2. keys \in [DOMAIN keys -> 0..lastOpen]
      BY <1>1, TypeFacts
    <2>3. QED
      BY <2>1, <2>2
  <1>12. QED
    BY <1>4, <1>9, <1>10, <1>11

\* Across crashes at any await, memory, the stored map and the tree agree on
\* who has which slot, for every genesis, tree and set of transactions, unless
\* a transaction failed half-way or a crash broke the tree.
THEOREM AccountsAgree == Spec => []AccountsInv
  BY InvInit, InvNext, InvIsAccounts, PTL DEF Spec

\* A process at rest loses nothing when it dies, if its tree is whole: the
\* stored root is the tree's and the stored map is read back as memory was.
THEOREM QuietRecovers == Spec => []QuietIsRecoverable
  BY InvInit, InvNext, InvIsQuiet, PTL DEF Spec

-----------------------------------------------------------------------------
(***************************************************************************)
(* The product of the pool's balances.                                     *)
(***************************************************************************)
LEMMA ProductIs ==
  ASSUME NEW t \in Roots
  PROVE  /\ t[0].balances \in Balance
         /\ t[0].balances[0] \in Nat /\ t[0].balances[1] \in Nat
         /\ Product(t) = t[0].balances[0] * t[0].balances[1]
         /\ Product(t) \in Nat
  <1>1. t[0].balances \in Balance
    BY SlotsAreNat DEF Roots, States, Balance
  <1>2. t[0].balances[0] \in Nat /\ t[0].balances[1] \in Nat
    BY <1>1, BalanceIsNat DEF Tokens
  <1>3. Product(t) = t[0].balances[0] * t[0].balances[1]
    BY DEF Product, UNISWAP_STORAGE_SLOT
  <1>4. QED
    BY <1>1, <1>2, <1>3

\* What is paid to the pool only adds to it.
LEMMA GiftsAddToTheProduct ==
  ASSUME NEW p \in Nat, NEW q \in Nat, NEW r \in Nat, NEW s \in Nat,
         p >= r, q >= s
  PROVE  p * q >= r * s
  <1>1. p * q >= r * q
    OBVIOUS
  <1>2. r * q >= r * s
    OBVIOUS
  <1>3. QED
    BY <1>1, <1>2

\* The pool has the first slot, and its leaf is what a transaction reads.
LEMMA PoolIsFirst ==
  ASSUME Inv, status = "running", Whole
  PROVE  /\ Uniswap \in DOMAIN keys /\ keys[Uniswap] = 0
         /\ GetBalances(TheMachine, Uniswap) = tree[0].balances
         /\ \A j \in jobs : j.at = "leaf" => (j.slot = 0 <=> j.address = Uniswap)
  <1>1. TypeOK /\ JobsFollow /\ PoolFollows /\ LeavesFollow
    BY DEF Inv, MemoryShape
  <1>2. Uniswap \in DOMAIN keys /\ keys[Uniswap] = 0
    BY <1>1 DEF PoolFollows
  <1>3. GetBalances(TheMachine, Uniswap) = tree[0].balances
    BY <1>1, <1>2, TypeFacts, WholeIsSeen, SlotsAreNat DEF GetBalances, GetLeaf
  <1>4. \A j \in jobs : j.at = "leaf" => (j.slot = 0 <=> j.address = Uniswap)
    BY <1>1, <1>2 DEF JobsFollow, LeavesFollow
  <1>5. QED
    BY <1>2, <1>3, <1>4

\* A transaction's write of the pool keeps the product, and the other write is
\* another's, unless an account pays itself or the pool pays.
LEMMA PoolWriteIs ==
  ASSUME Inv, status = "running", Whole,
         NEW tx, TransactionType(tx),
         tx.kind = "transfer" => tx.sender # Uniswap,
         NEW w, w = Writes(TheMachine, tx), w[1].address # w[2].address
  PROVE  /\ w[1].address # Uniswap
         /\ w[2].address = Uniswap =>
               w[2].balances[0] * w[2].balances[1] >= Product(tree)
  <1>0. \A a, b : Write(a, b).address = a /\ Write(a, b).balances = b
    BY DEF Write
  <1>1. MachineType(TheMachine) /\ tree \in Roots
    BY TypeFacts DEF Inv
  <1> DEFINE pool == GetBalances(TheMachine, Uniswap)
  <1>2. /\ Product(tree) = pool[0] * pool[1]
        /\ pool[0] \in Nat /\ pool[1] \in Nat
    BY <1>1, PoolIsFirst, ProductIs
  <1>3. CASE tx.kind = "transfer"
    <2>1. w = <<Write(tx.sender, SenderLeft(TheMachine, tx)),
                Write(tx.recipient, RecipientGets(TheMachine, tx))>>
      BY <1>3, WritesOfTransfer
    <2>2. w[1].address = tx.sender
      BY <1>0, <2>1
    <2>3. ASSUME w[2].address = Uniswap
          PROVE  w[2].balances[0] * w[2].balances[1] >= Product(tree)
      <3>1. tx.recipient = Uniswap /\ w[2].balances = RecipientGets(TheMachine, tx)
        BY <1>0, <2>1, <2>3
      <3>2. \A k \in Tokens : w[2].balances[k] = pool[k]
                                  + (IF k = tx.token THEN tx.amount ELSE 0)
        BY <1>1, <1>3, <3>1, TransferWritesType
      <3>3. tx.amount \in Nat /\ 0 \in Tokens /\ 1 \in Tokens
        BY DEF TransactionType, Tokens
      <3> HIDE DEF pool
      <3>4. /\ w[2].balances[0] \in Nat /\ w[2].balances[0] >= pool[0]
            /\ w[2].balances[1] \in Nat /\ w[2].balances[1] >= pool[1]
        BY <1>2, <3>2, <3>3
      <3>5. QED
        BY <1>2, <3>4, GiftsAddToTheProduct
    <2>4. QED
      BY <1>3, <2>2, <2>3
  <1>4. CASE tx.kind = "swap"
    <2>1. w = <<Write(tx.signer, SignerLeft(TheMachine, tx)),
                Write(Uniswap, PoolGets(TheMachine, tx))>>
      BY <1>4, WritesOfSwap
    <2>2. w[2].address = Uniswap /\ w[2].balances = PoolGets(TheMachine, tx)
      BY <1>0, <2>1
    <2>3. PoolGets(TheMachine, tx)[0] * PoolGets(TheMachine, tx)[1]
             >= pool[0] * pool[1]
      BY <1>1, <1>4, SwapsKeepTheProduct
    <2>4. QED
      BY <1>2, <2>2, <2>3
  <1>5. QED
    BY <1>3, <1>4 DEF TransactionType

LEMMA PoolInit == Init => PoolKept
  BY DEF Init, PoolKept

LEMMA PoolBegins ==
  ASSUME Inv, NEW tx \in Transactions, Begin(tx), faults' = {},
         tx.kind = "transfer" => tx.sender # Uniswap
  PROVE  PoolKept'
  <1>1. PICK w : w = Writes(TheMachine, tx)
    OBVIOUS
  <1>2. /\ status = "running" /\ op = Idle /\ tree' = tree
        /\ faults = {} /\ w[1].address # w[2].address
    BY <1>1 DEF Begin
  <1>w. Whole
    BY <1>2 DEF Whole
  <1>3. TypeOK /\ jobs = {}
    BY <1>2, <1>w, IdleIs DEF Inv, MemoryShape, OpFollows
  <1>4. PICK second, number :
            /\ jobs' = {Job(TheMachine, w[1], number), Job(second, w[2], number)}
            /\ w[1] = Write(w[1].address, w[1].balances)
            /\ w[2] = Write(w[2].address, w[2].balances)
            /\ TransactionType(tx)
    BY <1>1, <1>3, BeginIs
  <1>5. PICK j, k : j = Job(TheMachine, w[1], number)
                    /\ k = Job(second, w[2], number) /\ jobs' = {j, k}
    BY <1>4
  <1>6. /\ j.address = w[1].address
        /\ k.address = w[2].address /\ k.balances = w[2].balances
    BY <1>4, <1>5, JobIs
  <1>7. /\ w[1].address # Uniswap
        /\ w[2].address = Uniswap =>
              w[2].balances[0] * w[2].balances[1] >= Product(tree)
    BY <1>1, <1>2, <1>4, <1>w, PoolWriteIs
  <1>8. Product(tree') = Product(tree)
    BY <1>2
  <1>9. QED
    BY <1>5, <1>6, <1>7, <1>8 DEF PoolKept

\* The jobs that stay write what they did.
LEMMA PoolStays ==
  ASSUME PoolKept, status' = status, faults = {}, tree' = tree, NEW j, NEW k,
         j \in jobs /\ jobs' = (jobs \ {j}) \cup {k}
             /\ k.address = j.address /\ k.balances = j.balances
  PROVE  PoolKept'
  <1>1. Product(tree') = Product(tree)
    OBVIOUS
  <1>2. QED
    BY <1>1 DEF PoolKept

LEMMA PoolNext ==
  ASSUME \A tx \in Transactions : tx.kind = "transfer" => tx.sender # Uniswap
  PROVE  Inv /\ PoolKept /\ [Next]_vars => PoolKept'
  <1> SUFFICES ASSUME Inv, PoolKept, [Next]_vars, status' = "running", faults' = {}
               PROVE  PoolKept'
    BY DEF PoolKept
  <1>1. faults = {} /\ TypeOK /\ AtRest
    <2>1. faults \subseteq faults'
      BY DEF Next, vars, Start, GenesisWrite, Created, Begin, EntryStored,
             CountStored, LastStored, LeafStored, JobFails, StatesWritten,
             RootStored, Crash
    <2>2. QED
      BY <2>1 DEF Inv
  <1>w. Whole
    BY <1>1 DEF Whole
  <1>2. CASE Start
    BY <1>1, <1>2 DEF Start, AtRest, PoolKept
  <1>3. CASE GenesisWrite \/ Crash
    BY <1>3 DEF GenesisWrite, Crash
  <1>4. CASE Created
    BY <1>4 DEF Created, PoolKept
  <1>5. ASSUME NEW tx \in Transactions, Begin(tx)
        PROVE  PoolKept'
    BY <1>5, PoolBegins
  <1>6. ASSUME NEW j \in jobs, EntryStored(j)
        PROVE  PoolKept'
    <2>1. PICK k : jobs' = (jobs \ {j}) \cup {k} /\ k.address = j.address
                   /\ k.balances = j.balances
      BY <1>1, <1>6, EntryStoredIs
    <2>2. status' = status /\ tree' = tree
      BY <1>6 DEF EntryStored
    <2>3. QED
      BY <1>1, <2>1, <2>2, PoolStays
  <1>7. ASSUME NEW j \in jobs, CountStored(j) \/ LastStored(j)
        PROVE  PoolKept'
    <2>1. PICK key \in j.left : Counted(j, key)
      BY <1>7 DEF CountStored, LastStored
    <2>2. PICK k : jobs' = (jobs \ {j}) \cup {k} /\ k.address = j.address
                   /\ k.balances = j.balances
      BY <1>1, <2>1, CountedIs
    <2>3. status' = status /\ tree' = tree
      BY <1>7 DEF CountStored, LastStored
    <2>4. QED
      BY <1>1, <2>2, <2>3, PoolStays
  <1>8. ASSUME NEW j \in jobs, LeafStored(j)
        PROVE  PoolKept'
    <2>1. /\ j.at = "leaf" /\ status' = status /\ jobs' = jobs \ {j}
          /\ tree' = [tree EXCEPT ![j.slot] = State(j.address, j.balances)]
      BY <1>1, <1>8, <1>w, LeafIsWritten DEF LeafStored
    <2>2. tree \in Roots
      BY <1>1, TypeFacts
    <2>3. CASE j.address = Uniswap
      BY <1>1, <2>1, <2>3 DEF PoolKept
    <2>4. CASE j.address # Uniswap
      <3>1. j.slot # 0
        BY <1>1, <1>w, <2>1, <2>4, PoolIsFirst
      <3>2. tree'[0] = tree[0]
        BY <2>1, <2>2, <3>1, SlotsAreNat DEF Roots
      <3>3. Product(tree') = Product(tree)
        BY <3>2 DEF Product, UNISWAP_STORAGE_SLOT
      <3>4. QED
        BY <1>1, <2>1, <3>3 DEF PoolKept
    <2>5. QED
      BY <2>3, <2>4
  <1>9. ASSUME NEW j \in jobs, JobFails(j)
        PROVE  PoolKept'
    BY <1>9 DEF JobFails
  <1>10. CASE StatesWritten \/ RootStored
    <2>1. UNCHANGED <<status, tree, jobs, faults>>
      BY <1>10 DEF StatesWritten, RootStored
    <2>2. Product(tree') = Product(tree)
      BY <2>1
    <2>3. QED
      BY <2>1, <2>2 DEF PoolKept
  <1>11. CASE UNCHANGED vars
    <2>1. UNCHANGED <<status, tree, jobs, faults>>
      BY <1>11 DEF vars
    <2>2. Product(tree') = Product(tree)
      BY <2>1
    <2>3. QED
      BY <2>1, <2>2 DEF PoolKept
  <1>12. QED
    BY <1>2, <1>3, <1>4, <1>5, <1>6, <1>7, <1>8, <1>9, <1>10, <1>11 DEF Next

\* Only a leaf's write moves the pool.
LEMMA ProductStep ==
  ASSUME Inv, PoolKept, [Next]_vars, tree' # tree,
         status = "running", status' = "running", faults' = {}
  PROVE  Product(tree') >= Product(tree)
  <1>1. PICK j \in jobs : LeafStored(j)
    BY DEF Next, vars, Start, GenesisWrite, Created, Begin, EntryStored,
           CountStored, LastStored, JobFails, StatesWritten, RootStored, Crash
  <1>2. /\ j.at = "leaf" /\ faults = {} /\ Whole
        /\ tree' = [tree EXCEPT ![j.slot] = State(j.address, j.balances)]
    <2>1. j.at = "leaf" /\ faults = {}
      BY <1>1 DEF LeafStored
    <2>2. Whole
      BY <2>1 DEF Whole
    <2>3. QED
      BY <1>1, <2>1, <2>2, LeafIsWritten DEF Inv
  <1>3. tree \in Roots
    BY TypeFacts DEF Inv
  <1>4. Product(tree) \in Nat
    BY <1>3, ProductIs
  <1>5. CASE j.address = Uniswap
    <2>1. j.slot = 0 /\ j.balances[0] * j.balances[1] >= Product(tree)
      BY <1>2, <1>5, PoolIsFirst DEF PoolKept
    <2>2. tree'[0] = State(j.address, j.balances)
      BY <1>2, <1>3, <2>1, SlotsAreNat DEF Roots
    <2>3. Product(tree') = j.balances[0] * j.balances[1]
      BY <2>2 DEF Product, UNISWAP_STORAGE_SLOT, State
    <2>4. QED
      BY <2>1, <2>3
  <1>6. CASE j.address # Uniswap
    <2>1. j.slot # 0
      BY <1>2, <1>6, PoolIsFirst
    <2>2. tree'[0] = tree[0]
      BY <1>2, <1>3, <2>1, SlotsAreNat DEF Roots
    <2>3. Product(tree') = Product(tree)
      BY <2>2 DEF Product, UNISWAP_STORAGE_SLOT
    <2>4. QED
      BY <1>4, <2>3
  <1>7. QED
    BY <1>5, <1>6

\* Whatever is swapped, by whom and at what fee, in exact arithmetic and with
\* restarts in between, no step of a live process makes the product of the
\* pool's balances smaller, as long as the aggregator, who may sign for
\* anybody, does not send a transfer in the pool's name, and nothing has
\* failed or been broken by a crash.
THEOREM ProductNeverDrops ==
  ASSUME \A tx \in Transactions : tx.kind = "transfer" => tx.sender # Uniswap
  PROVE  Spec => PoolProductNeverDrops
  <1>1. Inv /\ PoolKept /\ [Next]_vars => PoolKept'
    BY PoolNext
  <1>2. Inv /\ PoolKept /\ [Next]_vars =>
          [status = "running" /\ status' = "running" /\ faults' = {}
               => Product(tree') >= Product(tree)]_tree
    BY ProductStep
  <1>3. QED
    BY <1>1, <1>2, InvInit, InvNext, PoolInit, PTL
       DEF Spec, PoolProductNeverDrops

-----------------------------------------------------------------------------
(***************************************************************************)
(* Sums over the slots.  MapThenSumSet adds the values in the order of its *)
(* CHOOSE: the sum of a finite set of integers does not depend on it.      *)
(***************************************************************************)
LEMMA LeastNumber ==
  ASSUME NEW N \in SUBSET Nat, N # {}
  PROVE  \E k \in N : \A l \in N : ~(l < k)
  <1> DEFINE below == OpToRel(<, Nat)
  <1>1. IsWellFoundedOn(below, Nat)
    BY NatLessThanWellFounded, Zenon
  <1>2. \A i, j \in Nat : i < j => <<i, j>> \in below
    BY DEF OpToRel
  <1> HIDE DEF below
  <1>3. PICK k \in N : \A l \in N : ~(<<l, k>> \in below)
    BY <1>1, WFMin
  <1>4. QED
    BY <1>2, <1>3

\* The sums of the parts of a set.
Sums(f, S, G) ==
  /\ G[{}] = 0
  /\ \A T \in SUBSET S : /\ G[T] \in Int
                         /\ \A x \in T : G[T] = f[x] + G[T \ {x}]

LEMMA SumsExist ==
  ASSUME NEW S, IsFiniteSet(S), NEW f, \A x \in S : f[x] \in Int
  PROVE  \E G : Sums(f, S, G)
  <1> DEFINE Bad == {T \in SUBSET S : ~\E G : Sums(f, T, G)}
             N == {Cardinality(T) : T \in Bad}
  <1>1. \A T \in SUBSET S : IsFiniteSet(T) /\ Cardinality(T) \in Nat
    BY FS_Subset, FS_CardinalityType
  <1> SUFFICES ASSUME Bad # {}
               PROVE  FALSE
    OBVIOUS
  <1>2. N \in SUBSET Nat /\ N # {}
    BY <1>1
  <1>3. PICK k \in N : \A l \in N : ~(l < k)
    BY <1>2, LeastNumber
  <1>4. PICK T \in Bad : Cardinality(T) = k
    OBVIOUS
  <1>5. T # {}
    <2> DEFINE G == [s \in {{}} |-> 0]
    <2>1. Sums(f, {}, G)
      BY DEF Sums
    <2>2. QED
      BY <1>4, <2>1
  <1>6. PICK x : x \in T
    BY <1>5
  <1> DEFINE R == T \ {x}
  <1>7. /\ R \in SUBSET S /\ IsFiniteSet(T)
        /\ Cardinality(R) = Cardinality(T) - 1 /\ Cardinality(R) \in Nat
        /\ Cardinality(T) \in Nat
    BY <1>1, <1>6, FS_RemoveElement
  <1>8. R \notin Bad
    BY <1>3, <1>4, <1>7
  <1>9. PICK g : Sums(f, R, g)
    BY <1>7, <1>8
  <1>10. f[x] \in Int
    BY <1>4, <1>6
  <1> DEFINE G == [U \in SUBSET T |-> IF x \in U THEN f[x] + g[U \ {x}]
                                                ELSE g[U]]
  <1>11. \A U \in SUBSET T : G[U] = IF x \in U THEN f[x] + g[U \ {x}] ELSE g[U]
    OBVIOUS
  <1> HIDE DEF G
  <1>12. \A U \in SUBSET R : /\ g[U] \in Int
                             /\ \A y \in U : g[U] = f[y] + g[U \ {y}]
    BY <1>9 DEF Sums
  <1>13. G[{}] = 0
    BY <1>9, <1>11 DEF Sums
  <1>14. ASSUME NEW U \in SUBSET T
         PROVE  G[U] \in Int
    <2>1. CASE x \in U
      <3> DEFINE V == U \ {x}
      <3>1. V \in SUBSET R
        OBVIOUS
      <3>2. g[V] \in Int
        BY <1>12, <3>1
      <3>3. G[U] = f[x] + g[V]
        BY <1>11, <2>1
      <3> HIDE DEF V
      <3>4. QED
        BY <1>10, <3>2, <3>3
    <2>2. CASE x \notin U
      <3>1. U \in SUBSET R
        BY <2>2
      <3>2. QED
        BY <1>11, <1>12, <2>2, <3>1
    <2>3. QED
      BY <2>1, <2>2
  <1>15. ASSUME NEW U \in SUBSET T, NEW y \in U
         PROVE  G[U] = f[y] + G[U \ {y}]
    <2>1. U \ {y} \in SUBSET T /\ f[y] \in Int
      BY <1>4
    <2>2. CASE y = x
      BY <1>11, <2>1, <2>2
    <2>3. CASE y # x /\ x \in U
      <3> DEFINE V == U \ {x}
      <3>1. /\ V \in SUBSET R /\ y \in V /\ V \ {y} \in SUBSET R
            /\ (U \ {y}) \ {x} = V \ {y}
        BY <2>3
      <3>2. g[V] = f[y] + g[V \ {y}] /\ g[V \ {y}] \in Int
        BY <1>12, <3>1
      <3>3. G[U] = f[x] + g[V]
        BY <1>11, <2>3
      <3>4. G[U \ {y}] = f[x] + g[V \ {y}]
        BY <1>11, <2>1, <2>3, <3>1
      <3> HIDE DEF V
      <3>5. QED
        BY <1>10, <2>1, <3>2, <3>3, <3>4
    <2>4. CASE y # x /\ x \notin U
      <3>1. U \in SUBSET R
        BY <2>4
      <3>2. QED
        BY <1>11, <1>12, <2>1, <2>4, <3>1
    <2>5. QED
      BY <2>2, <2>3, <2>4
  <1>16. Sums(f, T, G)
    BY <1>13, <1>14, <1>15 DEF Sums
  <1>17. QED
    BY <1>4, <1>16

\* MapThenSumSet's recursion.
Some(T) == CHOOSE x \in T : TRUE

Iterates(f, S, h) ==
  h = [T \in SUBSET S |-> IF T = {} THEN 0 ELSE f[Some(T)] + h[T \ {Some(T)}]]

LEMMA IteratesTo ==
  ASSUME NEW S, IsFiniteSet(S), NEW f, NEW G, Sums(f, S, G),
         NEW h, Iterates(f, S, h)
  PROVE  h[S] = G[S]
  <1> DEFINE Bad == {T \in SUBSET S : h[T] # G[T]}
             N == {Cardinality(T) : T \in Bad}
  <1>1. \A T \in SUBSET S : IsFiniteSet(T) /\ Cardinality(T) \in Nat
    BY FS_Subset, FS_CardinalityType
  <1> SUFFICES ASSUME Bad # {}
               PROVE  FALSE
    OBVIOUS
  <1>2. N \in SUBSET Nat /\ N # {}
    BY <1>1
  <1>3. PICK k \in N : \A l \in N : ~(l < k)
    BY <1>2, LeastNumber
  <1>4. PICK T \in Bad : Cardinality(T) = k
    OBVIOUS
  <1>5. h[T] = IF T = {} THEN 0 ELSE f[Some(T)] + h[T \ {Some(T)}]
    BY <1>4 DEF Iterates
  <1>6. T # {}
    BY <1>4, <1>5 DEF Sums
  <1> DEFINE x == Some(T)
             R == T \ {x}
  <1>7. x \in T
    BY <1>6 DEF Some
  <1>8. /\ R \in SUBSET S /\ IsFiniteSet(T)
        /\ Cardinality(R) = Cardinality(T) - 1 /\ Cardinality(R) \in Nat
        /\ Cardinality(T) \in Nat
    BY <1>1, <1>7, FS_RemoveElement
  <1>9. R \notin Bad
    BY <1>3, <1>4, <1>8
  <1>10. h[R] = G[R]
    BY <1>8, <1>9
  <1>11. G[T] = f[x] + G[R]
    BY <1>4, <1>7 DEF Sums
  <1>12. QED
    BY <1>4, <1>5, <1>6, <1>10, <1>11

LEMMA SumIterates ==
  ASSUME NEW S, IsFiniteSet(S), NEW f, \A x \in S : f[x] \in Int
  PROVE  \E h : Iterates(f, S, h)
  <1>1. PICK G : Sums(f, S, G)
    BY SumsExist
  <1> DEFINE h == [T \in SUBSET S |-> G[T]]
  <1>2. \A T \in SUBSET S :
           h[T] = IF T = {} THEN 0 ELSE f[Some(T)] + h[T \ {Some(T)}]
    BY <1>1 DEF Sums, Some
  <1>3. h = [T \in SUBSET S |-> h[T]]
    OBVIOUS
  <1> HIDE DEF h
  <1>4. Iterates(f, S, h)
    BY <1>2, <1>3 DEF Iterates
  <1>5. QED
    BY <1>4

LEMMA SupplyIs ==
  ASSUME NEW S, IsFiniteSet(S), NEW states, NEW token,
         NEW f, \A x \in S : f[x] = states[x].balances[token] /\ f[x] \in Int,
         NEW G, Sums(f, S, G)
  PROVE  Supply(states, S, token) = G[S]
  <1> DEFINE D(h) == [T \in SUBSET S |->
                         IF T = {} THEN 0
                         ELSE states[CHOOSE x \in T : TRUE].balances[token]
                                  + h[T \ {CHOOSE x \in T : TRUE}]]
             F == CHOOSE h : h = D(h)
  <1>1. Supply(states, S, token) = F[S]
    BY DEF Supply, MapThenSumSet, MapThenFoldSet
  <1>2. \A h : D(h) = [T \in SUBSET S |->
                          IF T = {} THEN 0 ELSE f[Some(T)] + h[T \ {Some(T)}]]
    <2>1. ASSUME NEW h, NEW T \in SUBSET S, T # {}
          PROVE  states[CHOOSE x \in T : TRUE].balances[token] = f[Some(T)]
      BY <2>1 DEF Some
    <2>2. QED
      BY <2>1 DEF Some
  <1>3. \A h : Iterates(f, S, h) <=> h = D(h)
    BY <1>2 DEF Iterates
  <1> HIDE DEF D
  <1>4. \E h : h = D(h)
    BY <1>3, SumIterates
  <1>5. F = D(F)
    BY <1>4
  <1> HIDE DEF F
  <1>6. QED
    BY <1>1, <1>3, <1>5, IteratesTo


Numbers(states, S, token) == \A x \in S : states[x].balances[token] \in Int

Same(states, others, S, token) ==
    \A x \in S : others[x].balances[token] = states[x].balances[token]

\* A sum is that of all but one, and the one.
LEMMA SupplySplits ==
  ASSUME NEW S, IsFiniteSet(S), NEW states, NEW token,
         Numbers(states, S, token), NEW y \in S
  PROVE  /\ Supply(states, S \ {y}, token) \in Int
         /\ Supply(states, S, token)
               = states[y].balances[token] + Supply(states, S \ {y}, token)
  <1> DEFINE f == [x \in S |-> states[x].balances[token]]
  <1>1. \A x \in S : f[x] = states[x].balances[token] /\ f[x] \in Int
    BY DEF Numbers
  <1> HIDE DEF f
  <1>2. PICK G : Sums(f, S, G)
    BY <1>1, SumsExist
  <1>3. IsFiniteSet(S \ {y}) /\ Sums(f, S \ {y}, G)
    BY <1>2, FS_RemoveElement DEF Sums
  <1>4. Supply(states, S, token) = G[S]
    BY <1>1, <1>2, SupplyIs
  <1>5. Supply(states, S \ {y}, token) = G[S \ {y}]
    BY <1>1, <1>3, SupplyIs
  <1>6. G[S \ {y}] \in Int /\ G[S] = f[y] + G[S \ {y}]
    BY <1>2 DEF Sums
  <1>7. QED
    BY <1>1, <1>4, <1>5, <1>6

\* It depends on nothing else.
LEMMA SupplyOnly ==
  ASSUME NEW S, IsFiniteSet(S), NEW states, NEW others, NEW token,
         Numbers(states, S, token), Same(states, others, S, token)
  PROVE  Supply(others, S, token) = Supply(states, S, token)
  <1> DEFINE f == [x \in S |-> states[x].balances[token]]
  <1>1. \A x \in S : /\ f[x] = states[x].balances[token] /\ f[x] \in Int
                     /\ f[x] = others[x].balances[token]
    BY DEF Numbers, Same
  <1> HIDE DEF f
  <1>2. PICK G : Sums(f, S, G)
    BY <1>1, SumsExist
  <1>3. Supply(states, S, token) = G[S]
    BY <1>1, <1>2, SupplyIs
  <1>4. Supply(others, S, token) = G[S]
    BY <1>1, <1>2, SupplyIs
  <1>5. QED
    BY <1>3, <1>4

LEMMA SupplyOfNone ==
  ASSUME NEW S, IsFiniteSet(S), NEW states, NEW token,
         \A x \in S : states[x].balances[token] = 0
  PROVE  Supply(states, S, token) = 0
  <1> DEFINE f == [x \in S |-> 0]
             G == [T \in SUBSET S |-> 0]
  <1>1. \A x \in S : f[x] = states[x].balances[token] /\ f[x] \in Int
    OBVIOUS
  <1>2. Sums(f, S, G) /\ G[S] = 0
    BY DEF Sums
  <1> HIDE DEF f, G
  <1>3. QED
    BY <1>1, <1>2, SupplyIs

\* One balance changes.
LEMMA SupplyChanges ==
  ASSUME NEW S, IsFiniteSet(S), NEW states, NEW others, NEW token, NEW y \in S,
         Numbers(states, S, token), Numbers(others, S, token),
         Same(states, others, S \ {y}, token)
  PROVE  /\ Supply(states, S, token) \in Int /\ Supply(others, S, token) \in Int
         /\ Supply(others, S, token) - others[y].balances[token]
               = Supply(states, S, token) - states[y].balances[token]
  <1>1. IsFiniteSet(S \ {y}) /\ Numbers(states, S \ {y}, token)
    BY FS_RemoveElement DEF Numbers
  <1>2. Supply(others, S \ {y}, token) = Supply(states, S \ {y}, token)
    BY <1>1, SupplyOnly
  <1>3. /\ Supply(states, S \ {y}, token) \in Int
        /\ Supply(states, S, token)
              = states[y].balances[token] + Supply(states, S \ {y}, token)
    BY SupplySplits
  <1>4. Supply(others, S, token)
           = others[y].balances[token] + Supply(others, S \ {y}, token)
    BY SupplySplits
  <1>5. states[y].balances[token] \in Int /\ others[y].balances[token] \in Int
    BY DEF Numbers
  <1>6. QED
    BY <1>2, <1>3, <1>4, <1>5

\* Tokens go from one balance to another.
LEMMA SupplyMoves ==
  ASSUME NEW S, IsFiniteSet(S), NEW states, NEW others, NEW token,
         NEW y \in S, NEW z \in S, y # z,
         Numbers(states, S, token), Numbers(others, S, token),
         Same(states, others, S \ {y, z}, token),
         others[y].balances[token] + others[z].balances[token]
             = states[y].balances[token] + states[z].balances[token]
  PROVE  Supply(others, S, token) = Supply(states, S, token)
  <1> DEFINE R == S \ {y}
  <1>1. /\ IsFiniteSet(R) /\ z \in R
        /\ Numbers(states, R, token) /\ Numbers(others, R, token)
    BY FS_RemoveElement DEF Numbers
  <1>2. Same(states, others, R \ {z}, token)
    BY DEF Same
  <1>3. Supply(states, S, token)
           = states[y].balances[token] + Supply(states, R, token)
    BY SupplySplits
  <1>4. Supply(others, S, token)
           = others[y].balances[token] + Supply(others, R, token)
    BY SupplySplits
  <1> HIDE DEF R
  <1>5. /\ Supply(states, R, token) \in Int /\ Supply(others, R, token) \in Int
        /\ Supply(others, R, token) - others[z].balances[token]
              = Supply(states, R, token) - states[z].balances[token]
    BY <1>1, <1>2, SupplyChanges
  <1>6. /\ states[y].balances[token] \in Int /\ others[y].balances[token] \in Int
        /\ states[z].balances[token] \in Int /\ others[z].balances[token] \in Int
    BY DEF Numbers
  <1>7. QED
    BY <1>3, <1>4, <1>5, <1>6

\* The slots of a tree.
LEMMA BalancesOfTree ==
  ASSUME NEW t \in Roots, NEW token \in Tokens
  PROVE  Numbers(t, Slots, token)
  BY DEF Numbers, Roots, States

LEMMA SlotsAreFinite == IsFiniteSet(Slots)
  <1>1. PICK n \in Nat : Slots = 0..(n - 1)
    BY SlotsAreFirst
  <1>2. QED
    BY <1>1, FS_Interval


-----------------------------------------------------------------------------
(***************************************************************************)
(* The supply.                                                             *)
(***************************************************************************)
LEMMA PlannedIs ==
  ASSUME NEW w, NEW t, Apart(w)
  PROVE  /\ \A j \in w : j.slot \in Slots =>
               Planned(w, t)[j.slot] = State(j.address, j.balances)
         /\ \A s \in Slots : (\A j \in w : j.slot # s) => Planned(w, t)[s] = t[s]
  <1>1. ASSUME NEW j \in w, j.slot \in Slots
        PROVE  Planned(w, t)[j.slot] = State(j.address, j.balances)
    <2>1. (CHOOSE i \in w : i.slot = j.slot) = j
      BY DEF Apart
    <2>2. QED
      BY <1>1, <2>1 DEF Planned
  <1>2. QED
    BY <1>1 DEF Planned

LEMMA PlannedType ==
  ASSUME NEW w \in SUBSET Jobs, NEW t \in Roots, Apart(w), AllLand(w)
  PROVE  Planned(w, t) \in Roots
  <1>1. ASSUME NEW s \in Slots
        PROVE  Planned(w, t)[s] \in States
    <2>1. CASE \E j \in w : j.slot = s
      <3>1. PICK j \in w : j.slot = s
        BY <2>1
      <3>2. /\ j.address \in Addresses /\ j.balances \in [Tokens -> Int]
            /\ Encodable(j.balances)
        BY DEF Jobs, AllLand
      <3>3. QED
        BY <3>1, <3>2, PlannedIs, StateIsAState
    <2>2. CASE ~\E j \in w : j.slot = s
      BY <2>2, PlannedIs DEF Roots
    <2>3. QED
      BY <2>1, <2>2
  <1>2. QED
    BY <1>1 DEF Planned, Roots

\* Trees with the same leaves.
LEMMA SamePlan ==
  ASSUME NEW w, NEW t, NEW v, NEW u,
         \A s \in Slots : Planned(v, u)[s] = Planned(w, t)[s]
  PROVE  Planned(v, u) = Planned(w, t)
  <1>1. /\ Planned(v, u) = [s \in Slots |-> Planned(v, u)[s]]
        /\ Planned(w, t) = [s \in Slots |-> Planned(w, t)[s]]
    BY DEF Planned
  <1>2. QED
    BY <1>1

LEMMA NothingPlanned ==
  ASSUME NEW t \in Roots
  PROVE  Apart({}) /\ AllLand({}) /\ Planned({}, t) = t
  BY DEF Apart, AllLand, Planned, Roots

\* A job goes on: it is still to write what it was.
LEMMA JobReplaced ==
  ASSUME NEW w, NEW t, Apart(w), NEW j \in w, NEW k, k.address = j.address,
         k.balances = j.balances, k.slot = j.slot
  PROVE  /\ Apart((w \ {j}) \cup {k})
         /\ Planned((w \ {j}) \cup {k}, t) = Planned(w, t)
  <1> DEFINE v == (w \ {j}) \cup {k}
  <1>1. Apart(v)
    BY DEF Apart
  <1>2. ASSUME NEW s \in Slots
        PROVE  Planned(v, t)[s] = Planned(w, t)[s]
    <2>1. CASE \E i \in w : i.slot = s
      <3>1. PICK i \in w : i.slot = s
        BY <2>1
      <3>2. PICK l \in v : /\ l.slot = s /\ l.address = i.address
                           /\ l.balances = i.balances
        BY <3>1
      <3> HIDE DEF v
      <3>3. QED
        BY <1>1, <3>1, <3>2, PlannedIs
    <2>2. CASE ~\E i \in w : i.slot = s
      <3>1. \A i \in v : i.slot # s
        BY <2>2
      <3> HIDE DEF v
      <3>2. QED
        BY <1>1, <2>2, <3>1, PlannedIs
    <2>3. QED
      BY <2>1, <2>2
  <1>3. QED
    BY <1>1, <1>2, SamePlan

\* A job has written its leaf.
LEMMA JobLands ==
  ASSUME NEW w, NEW t, NEW u, Apart(w), NEW j \in w, j.slot \in Slots,
         u[j.slot] = State(j.address, j.balances),
         \A s \in Slots : s # j.slot => u[s] = t[s]
  PROVE  /\ Apart(w \ {j})
         /\ Planned(w \ {j}, u) = Planned(w, t)
  <1> DEFINE v == w \ {j}
  <1>1. Apart(v)
    BY DEF Apart
  <1>2. ASSUME NEW s \in Slots
        PROVE  Planned(v, u)[s] = Planned(w, t)[s]
    <2>1. CASE s = j.slot
      <3>1. \A i \in v : i.slot # s
        BY <2>1 DEF Apart
      <3> HIDE DEF v
      <3>2. Planned(v, u)[s] = u[s]
        BY <1>1, <3>1, PlannedIs
      <3>3. Planned(w, t)[s] = State(j.address, j.balances)
        BY <2>1, PlannedIs
      <3>4. QED
        BY <2>1, <3>2, <3>3
    <2>2. CASE s # j.slot /\ \E i \in w : i.slot = s
      <3>1. PICK i \in w : i.slot = s
        BY <2>2
      <3>2. i \in v
        BY <2>2, <3>1
      <3> HIDE DEF v
      <3>3. QED
        BY <1>1, <3>1, <3>2, PlannedIs
    <2>3. CASE s # j.slot /\ ~\E i \in w : i.slot = s
      <3>1. \A i \in v : i.slot # s
        BY <2>3
      <3> HIDE DEF v
      <3>2. Planned(v, u)[s] = u[s]
        BY <1>1, <3>1, PlannedIs
      <3>3. Planned(w, t)[s] = t[s]
        BY <2>3, PlannedIs
      <3>4. QED
        BY <2>3, <3>2, <3>3
    <2>4. QED
      BY <2>1, <2>2, <2>3
  <1> HIDE DEF v
  <1>3. Planned(v, u) = Planned(w, t)
    BY <1>2, SamePlan
  <1>4. QED
    BY <1>1, <1>3 DEF v

\* Nothing has gone wrong that could change the supply.
Clean(f) == f \cap {"failed", "broken", "self", "beyond"} = {}

LEMMA FaultsStay == [Next]_vars => faults \subseteq faults'
  BY DEF Next, vars, Start, GenesisWrite, Created, Begin, EntryStored,
         CountStored, LastStored, LeafStored, JobFails, StatesWritten,
         RootStored, Crash

LEMMA CleanIs ==
  ASSUME Inv, [Next]_vars, Clean(faults')
  PROVE  /\ Clean(faults) /\ Whole
         /\ TypeOK /\ AtRest /\ MemoryShape /\ LeafShape /\ LastShape
  <1>1. faults \subseteq faults'
    BY FaultsStay
  <1>2. Clean(faults) /\ Whole
    BY <1>1 DEF Clean, Whole
  <1>3. QED
    BY <1>2 DEF Inv

\* The steps that change neither the memory nor what the jobs are to write.
LEMMA SupplyFrame ==
  ASSUME SupplyShape, Clean(faults), disk'.root = disk.root,
         status' = status, keys' = keys,
         AllLand(jobs') => AllLand(jobs),
         Apart(jobs) /\ AllLand(jobs') =>
             Apart(jobs') /\ Planned(jobs', tree') = Planned(jobs, tree)
  PROVE  SupplyShape'
  <1>1. Minted' = Minted
    BY DEF Minted
  <1>2. QED
    BY <1>1 DEF SupplyShape, Clean, Whole

LEMMA SupplyStart ==
  ASSUME Inv, SupplyShape, Clean(faults'), Start
  PROVE  SupplyShape'
  <1>1. /\ TypeOK /\ jobs = {} /\ Clean(faults) /\ jobs' = jobs
        /\ disk' = disk /\ tree \in Roots
    <2>1. Clean(faults)
      BY CleanIs DEF Next
    <2>2. QED
      BY <2>1, TypeFacts DEF Inv, AtRest, Start
  <1>2. CASE disk.root = NoRoot
    <2>1. /\ status' = "genesis" /\ keys' = <<>> /\ tree' = EmptyTree
          /\ disk'.root = NoRoot
      BY <1>1, <1>2 DEF Start
    <2>2. EmptyTree \in Roots /\ IsFiniteSet(Slots)
      BY EmptyIsAState, SlotsAreFinite DEF EmptyTree, Roots
    <2>3. Apart(jobs') /\ Planned(jobs', tree') = EmptyTree
      BY <1>1, <2>1, <2>2, NothingPlanned
    <2>4. \A token \in Tokens : Supply(EmptyTree, Slots, token) = 0
      <3>1. \A s \in Slots, token \in Tokens : EmptyTree[s].balances[token] = 0
        BY DEF EmptyTree, Empty, State, NoBalance
      <3> HIDE DEF EmptyTree
      <3>2. QED
        BY <2>2, <3>1, SupplyOfNone
    <2>5. /\ Minted' = {} /\ DOMAIN keys' = {} /\ Cardinality(DOMAIN keys') = 0
      BY <2>1, NoDomain DEF Minted
    <2>6. \A token \in Tokens : Supply(Genesis, {}, token) = 0
      BY NoDomain, SupplyOfNone
    <2>7. /\ Cardinality(DOMAIN keys') <= Len(Genesis)
          /\ DOMAIN keys' = {Genesis[i].pubkey :
                                i \in 1..Cardinality(DOMAIN keys')}
      BY <2>5, MachineAssumption
    <2>8. QED
      BY <2>1, <2>3, <2>4, <2>5, <2>6, <2>7 DEF SupplyShape
  <1>3. CASE disk.root # NoRoot
    <2>1. /\ status' \in {"running", "lost"} /\ tree' = tree
          /\ disk.root = tree
      <3>1. /\ status' \in {"running", "lost"} /\ tree' = disk.root
            /\ disk.root # tree => "broken" \in faults'
        BY <1>3 DEF Start
      <3>2. "broken" \notin faults'
        BY DEF Clean
      <3>3. QED
        BY <3>1, <3>2
    <2>2. Apart(jobs') /\ Planned(jobs', tree') = tree
      BY <1>1, <2>1, NothingPlanned
    <2>3. \A token \in Tokens : Supply(disk.root, Slots, token)
                                   = Supply(Genesis, DOMAIN Genesis, token)
      BY <1>1, <1>3 DEF SupplyShape, Clean, Whole
    <2>4. status' = "running" => Minted' = DOMAIN Genesis
      BY DEF Minted
    <2>5. QED
      BY <1>1, <2>1, <2>2, <2>3, <2>4 DEF SupplyShape
  <1>4. QED
    BY <1>2, <1>3

\* A new account's slot has no leaf yet.
LEMMA NewSlotIsEmpty ==
  ASSUME TypeOK, jobs = {}, status \in {"genesis", "running"},
         MemoryShape, LeafShape, LastShape,
         NEW x \in Addresses, x \notin DOMAIN keys,
         NEW n \in Slots, n = WithKey(TheMachine, x).lastOpen
  PROVE  tree[n] = Empty /\ \A y \in DOMAIN keys : keys[y] # n
  <1>1. \A y \in DOMAIN keys : keys[y] # n
    BY TypeFacts, NewKeyIs
  <1>2. QED
    BY <1>1, BetweenJobs

LEMMA GenesisFacts ==
  /\ DOMAIN Genesis = 1..Len(Genesis) /\ Len(Genesis) \in Nat
  /\ \A i \in 1..Len(Genesis) : /\ Genesis[i] \in States
                                /\ Genesis[i].pubkey \in Addresses
                                /\ \A token \in Tokens :
                                      Genesis[i].balances[token] \in Int
  <1>1. /\ DOMAIN Genesis = 1..Len(Genesis) /\ Len(Genesis) \in Nat
        /\ \A i \in 1..Len(Genesis) : Genesis[i] \in States
    BY MachineAssumption
  <1>2. QED
    BY <1>1 DEF States


LEMMA SupplyGenesis ==
  ASSUME Inv, SupplyShape, Clean(faults'), GenesisWrite
  PROVE  SupplyShape'
  <1>0. PICK n, g, x : /\ n = Cardinality(DOMAIN keys)
                       /\ g = Genesis[n + 1] /\ x = g.pubkey
    OBVIOUS
  <1>a. PICK keyed, j : /\ keyed = WithKey(TheMachine, x)
                        /\ j = Job(TheMachine, Write(x, g.balances), 0)
    OBVIOUS
  <1>1. /\ status = "genesis" /\ status' = "genesis" /\ jobs = {} /\ n < Len(Genesis)
        /\ jobs' = {j} /\ keys' = keyed.keys
        /\ tree' = tree /\ disk' = disk /\ faults' = faults
    BY <1>0, <1>a DEF GenesisWrite
  <1>2. /\ TypeOK /\ MemoryShape /\ LeafShape /\ LastShape /\ n \in Nat
        /\ tree \in Roots /\ MachineType(TheMachine)
        /\ TheMachine.keys = keys /\ IsFiniteSet(DOMAIN keys)
    BY <1>0, <1>1, TypeFacts DEF Inv, Clean, Whole
  <1>3. /\ n <= Len(Genesis) /\ n + 1 \in 1..Len(Genesis)
        /\ DOMAIN keys = {Genesis[i].pubkey : i \in 1..n}
        /\ disk'.root # NoRoot => \A token \in Tokens :
              Supply(disk'.root, Slots, token)
                  = Supply(Genesis, DOMAIN Genesis, token)
        /\ \A token \in Tokens :
              Supply(tree, Slots, token) = Supply(Genesis, 1..n, token)
    <2>1. AllLand(jobs) /\ Planned(jobs, tree) = tree
      BY <1>1, <1>2, NothingPlanned
    <2>2. Minted = 1..n
      BY <1>0, <1>1 DEF Minted
    <2>3. n + 1 \in 1..Len(Genesis)
      BY <1>1, <1>2, GenesisFacts
    <2>4. QED
      BY <1>0, <1>1, <2>1, <2>2, <2>3 DEF SupplyShape, Clean, Whole
  <1>4. g \in States /\ x \in Addresses /\ x \notin DOMAIN keys
    <2>1. \A i \in 1..n : i # n + 1 /\ i \in DOMAIN Genesis
      BY <1>2, <1>3, GenesisFacts
    <2>2. \A i \in 1..n : Genesis[i].pubkey # Genesis[n + 1].pubkey
      BY <1>3, <2>1, GenesisFacts, MachineAssumption
    <2>3. QED
      BY <1>0, <1>3, <2>2, GenesisFacts
  <1>5. /\ j.address = x /\ j.balances = g.balances /\ j.slot = keyed.lastOpen
        /\ j.at = IF x \in DOMAIN keyed.keys THEN "entry" ELSE "full"
    BY <1>2, <1>4, <1>a, JobIs
  <1>6. /\ x \in DOMAIN keyed.keys =>
              /\ DOMAIN keyed.keys = DOMAIN keys \cup {x}
              /\ Cardinality(DOMAIN keyed.keys) = n + 1
        /\ x \notin DOMAIN keyed.keys => keyed.keys = keys
    BY <1>0, <1>2, <1>4, <1>a, NewKeyIs
  <1>7. /\ Cardinality(DOMAIN keys') <= Len(Genesis)
        /\ DOMAIN keys' = {Genesis[i].pubkey : i \in 1..Cardinality(DOMAIN keys')}
    <2>1. CASE x \in DOMAIN keyed.keys
      <3>1. DOMAIN keys' = DOMAIN keys \cup {x} /\ Cardinality(DOMAIN keys') = n + 1
        BY <1>1, <1>6, <2>1
      <3>2. 1..(n + 1) = 1..n \cup {n + 1}
        BY <1>2
      <3>3. DOMAIN keys' = {Genesis[i].pubkey : i \in 1..(n + 1)}
        BY <1>0, <1>3, <3>1, <3>2
      <3>4. Cardinality(DOMAIN keys') <= Len(Genesis)
        BY <1>3, <3>1, GenesisFacts
      <3>5. QED
        BY <3>1, <3>3, <3>4
    <2>2. CASE x \notin DOMAIN keyed.keys
      <3>1. keys' = keys
        BY <1>1, <1>6, <2>2
      <3>2. QED
        BY <1>0, <1>3, <3>1
    <2>3. QED
      BY <2>1, <2>2
  <1>8. ASSUME AllLand(jobs')
        PROVE  /\ Apart(jobs')
               /\ \A token \in Tokens : Supply(Planned(jobs', tree'), Slots, token)
                                           = Supply(Genesis, Minted', token)
    <2>0. PICK p, s : p = Planned(jobs', tree) /\ s = j.slot
      OBVIOUS
    <2>1. j \in jobs' /\ s \in Slots /\ j.at # "full" /\ Apart(jobs')
      BY <1>1, <1>8, <2>0 DEF AllLand, Apart
    <2>2. Minted' = 1..(n + 1)
      BY <1>1, <1>5, <1>6, <2>1 DEF Minted
    <2>3. tree[s] = Empty
      BY <1>1, <1>2, <1>4, <1>5, <1>a, <2>0, <2>1, NewSlotIsEmpty
    <2>4. /\ p[s] = State(x, g.balances)
          /\ \A i \in Slots : i # s => p[i] = tree[i]
      <3>1. Planned(jobs', tree)[j.slot] = State(j.address, j.balances)
        BY <2>0, <2>1, PlannedIs
      <3>2. \A i \in Slots : (\A k \in jobs' : k.slot # i) => p[i] = tree[i]
        BY <2>0, <2>1, PlannedIs
      <3>3. QED
        BY <1>1, <1>5, <2>0, <3>1, <3>2
    <2>5. ASSUME NEW token \in Tokens
          PROVE  Supply(p, Slots, token) = Supply(Genesis, 1..(n + 1), token)
      <3>1. /\ tree[s].balances[token] = 0
            /\ p[s].balances[token] = g.balances[token]
            /\ g.balances[token] \in Int
        BY <1>4, <2>3, <2>4 DEF Empty, State, NoBalance, States
      <3>2. Numbers(tree, Slots, token)
        BY <1>2, BalancesOfTree
      <3>3. /\ Supply(tree, Slots, token) \in Int
            /\ Supply(p, Slots, token) \in Int
            /\ Supply(p, Slots, token) - p[s].balances[token]
                  = Supply(tree, Slots, token) - tree[s].balances[token]
        <4>1. /\ Numbers(p, Slots, token)
              /\ Same(tree, p, Slots \ {s}, token)
          BY <2>4, <3>1, <3>2 DEF Numbers, Same
        <4>2. IsFiniteSet(Slots) /\ s \in Slots
          BY <2>1, SlotsAreFinite
        <4>3. Supply(tree, Slots, token) \in Int /\ Supply(p, Slots, token) \in Int
          BY <3>2, <4>1, <4>2, SupplyChanges
        <4>4. Supply(p, Slots, token) - p[s].balances[token]
                 = Supply(tree, Slots, token) - tree[s].balances[token]
          BY <3>2, <4>1, <4>2, SupplyChanges
        <4>5. QED
          BY <4>3, <4>4
      <3> DEFINE S == 1..(n + 1)
      <3>4. /\ IsFiniteSet(S) /\ n + 1 \in S /\ S \ {n + 1} = 1..n
            /\ \A i \in S : i \in 1..Len(Genesis)
        <4>1. IsFiniteSet(S)
          BY <1>2, FS_Interval
        <4>2. \A i \in S : i \in 1..Len(Genesis)
          BY <1>2, <1>3, GenesisFacts
        <4>3. n + 1 \in S /\ S \ {n + 1} = 1..n
          BY <1>2
        <4>4. QED
          BY <4>1, <4>2, <4>3
      <3>5. Numbers(Genesis, S, token)
        BY <3>4, GenesisFacts DEF Numbers
      <3> HIDE DEF S
      <3>6. PICK last : last = n + 1
        OBVIOUS
      <3>7. Supply(Genesis, S, token)
               = g.balances[token] + Supply(Genesis, 1..n, token)
        <4>1. last \in S
          BY <3>4, <3>6
        <4>2. Supply(Genesis, S, token) = Genesis[last].balances[token]
                  + Supply(Genesis, S \ {last}, token)
          BY <3>4, <3>5, <4>1, SupplySplits
        <4>3. QED
          BY <1>0, <3>4, <3>6, <4>2
      <3>8. Supply(tree, Slots, token) = Supply(Genesis, 1..n, token)
        BY <1>3
      <3>9. QED
        BY <3>1, <3>3, <3>7, <3>8 DEF S
    <2>6. QED
      BY <1>1, <2>0, <2>1, <2>2, <2>5
  <1>9. QED
    BY <1>1, <1>3, <1>7, <1>8 DEF SupplyShape

LEMMA SupplyCreated ==
  ASSUME Inv, SupplyShape, Clean(faults'), Created
  PROVE  SupplyShape'
  <1>1. /\ status = "genesis" /\ status' = "running" /\ jobs' = jobs
        /\ tree' = tree /\ disk' = disk /\ faults' = faults
        /\ Cardinality(DOMAIN keys) = Len(Genesis)
    BY DEF Created
  <1>2. Minted = DOMAIN Genesis /\ Minted' = DOMAIN Genesis
    BY <1>1, GenesisFacts DEF Minted
  <1>3. QED
    BY <1>1, <1>2 DEF SupplyShape, Clean, Whole


LEMMA SupplyBegin ==
  ASSUME Inv, SupplyShape, Clean(faults), Clean(faults'),
         NEW tx \in Transactions, Begin(tx)
  PROVE  SupplyShape'
  <1>1. /\ status = "running" /\ op = Idle /\ status' = "running"
        /\ tree' = tree /\ disk' = disk
    BY DEF Begin
  <1>2. /\ TypeOK /\ MemoryShape /\ LeafShape /\ LastShape /\ jobs = {}
        /\ tree \in Roots /\ MachineType(TheMachine)
        /\ TheMachine.keys = keys /\ TheMachine.leaves = tree
        /\ IsFiniteSet(DOMAIN keys)
    BY <1>1, TypeFacts, WholeIsSeen, IdleIs
       DEF Inv, Clean, Whole, MemoryShape, OpFollows
  <1>3. PICK w, middle : w = Writes(TheMachine, tx)
                         /\ middle = WithKey(TheMachine, w[1].address)
    OBVIOUS
  <1>4. PICK j, k : /\ j = Job(TheMachine, w[1], accepted + 1)
                    /\ k = Job(middle, w[2], accepted + 1)
    OBVIOUS
  <1>5. /\ TransactionType(tx) /\ jobs' = {j, k}
        /\ w[1].address \in Addresses /\ w[2].address \in Addresses
        /\ w[1] = Write(w[1].address, w[1].balances)
        /\ w[2] = Write(w[2].address, w[2].balances)
        /\ MachineType(middle) /\ j \in Jobs /\ k \in Jobs
    BY <1>2, <1>3, <1>4, BeginIs
  <1>6. w[1].address # w[2].address
    BY <1>3 DEF Begin, Clean, Whole
  <1>7. /\ Uniswap \in DOMAIN keys
        /\ w[1].address \in DOMAIN keys \/ w[2].address \in DOMAIN keys
    BY <1>2, <1>3, OneIsKnown
  <1>8. /\ j.address = w[1].address /\ j.balances = w[1].balances
        /\ k.address = w[2].address /\ k.balances = w[2].balances
        /\ w[1].address \in DOMAIN keys => j.slot = keys[w[1].address]
        /\ w[1].address \notin DOMAIN keys => j.slot = middle.lastOpen
    BY <1>2, <1>3, <1>4, <1>5, JobIs
  <1>9. /\ w[1].address \in DOMAIN keys => middle = TheMachine
        /\ w[2].address \in DOMAIN keys =>
              w[2].address \in DOMAIN middle.keys
                  /\ middle.keys[w[2].address] = keys[w[2].address]
    BY <1>2, <1>3, <1>5, KnownKeyIs, WithKeyType
  <1>10. /\ w[2].address \in DOMAIN keys => k.slot = keys[w[2].address]
         /\ w[2].address \notin DOMAIN keys =>
               k.slot = WithKey(TheMachine, w[2].address).lastOpen
    BY <1>2, <1>4, <1>5, <1>7, <1>9, JobIs
  <1>11. /\ \A x, y \in DOMAIN keys : keys[x] = keys[y] => x = y
         /\ DOMAIN tree = Slots
    BY <1>1, <1>2, BetweenJobs, TypeFacts
  <1>12. ASSUME NEW i \in {1, 2}, NEW s \in Slots,
                w[i].address \in DOMAIN keys => s = keys[w[i].address],
                w[i].address \notin DOMAIN keys =>
                    s = WithKey(TheMachine, w[i].address).lastOpen
         PROVE  /\ GetBalances(TheMachine, w[i].address) = tree[s].balances
                /\ w[i].address \notin DOMAIN keys =>
                      \A y \in DOMAIN keys : keys[y] # s
    <2>1. CASE w[i].address \in DOMAIN keys
      BY <1>2, <1>11, <1>12, <2>1 DEF GetBalances, GetLeaf
    <2>2. CASE w[i].address \notin DOMAIN keys
      <3>1. w[i].address \in Addresses
        BY <1>5
      <3>2. tree[s] = Empty /\ \A y \in DOMAIN keys : keys[y] # s
        BY <1>1, <1>2, <1>12, <2>2, <3>1, NewSlotIsEmpty
      <3>3. GetBalances(TheMachine, w[i].address) = NoBalance
        BY <1>2, <2>2, BalancesOfUnknown
      <3>4. QED
        BY <3>2, <3>3 DEF Empty, State
    <2>3. QED
      BY <2>1, <2>2
  <1>13. ASSUME AllLand(jobs')
         PROVE  /\ Apart(jobs')
                /\ \A token \in Tokens :
                      Supply(Planned(jobs', tree'), Slots, token)
                          = Supply(tree, Slots, token)
    <2>1. j.slot \in Slots /\ k.slot \in Slots
      BY <1>5, <1>13 DEF AllLand
    <2>2. /\ GetBalances(TheMachine, w[1].address) = tree[j.slot].balances
          /\ w[1].address \notin DOMAIN keys =>
                \A y \in DOMAIN keys : keys[y] # j.slot
      BY <1>3, <1>8, <1>12, <2>1
    <2>3. /\ GetBalances(TheMachine, w[2].address) = tree[k.slot].balances
          /\ w[2].address \notin DOMAIN keys =>
                \A y \in DOMAIN keys : keys[y] # k.slot
      BY <1>10, <1>12, <2>1
    <2>4. j.slot # k.slot
      BY <1>6, <1>7, <1>8, <1>10, <1>11, <2>2, <2>3
    <2>5. Apart(jobs')
      BY <1>5, <2>4 DEF Apart
    <2>6. PICK p, y, z : p = Planned(jobs', tree) /\ y = j.slot /\ z = k.slot
      OBVIOUS
    <2>7. /\ p[y].balances = w[1].balances /\ p[z].balances = w[2].balances
          /\ \A s \in Slots : s \notin {y, z} => p[s] = tree[s]
          /\ p \in Roots
      <3>1. /\ p[y] = State(j.address, j.balances)
            /\ p[z] = State(k.address, k.balances)
        BY <1>5, <2>1, <2>5, <2>6, PlannedIs
      <3>2. \A s \in Slots : (\A i \in jobs' : i.slot # s) => p[s] = tree[s]
        BY <2>5, <2>6, PlannedIs
      <3>3. p \in Roots
        BY <1>2, <1>5, <1>13, <2>5, <2>6, PlannedType
      <3>4. QED
        BY <1>5, <1>8, <2>6, <3>1, <3>2, <3>3 DEF State
    <2>8. ASSUME NEW token \in Tokens
          PROVE  Supply(p, Slots, token) = Supply(tree, Slots, token)
      <3>1. w[1].balances[token] + w[2].balances[token]
               = GetBalances(TheMachine, w[1].address)[token]
                     + GetBalances(TheMachine, w[2].address)[token]
        BY <1>2, <1>3, <1>5, TokensAreMoved
      <3>2. p[y].balances[token] + p[z].balances[token]
               = tree[y].balances[token] + tree[z].balances[token]
        BY <2>2, <2>3, <2>6, <2>7, <3>1
      <3>3. /\ Numbers(tree, Slots, token) /\ Numbers(p, Slots, token)
            /\ Same(tree, p, Slots \ {y, z}, token)
        BY <1>2, <2>7, BalancesOfTree DEF Same
      <3>4. y \in Slots /\ z \in Slots /\ y # z /\ IsFiniteSet(Slots)
        BY <2>1, <2>4, <2>6, SlotsAreFinite
      <3>5. QED
        BY <3>2, <3>3, <3>4, SupplyMoves
    <2>9. QED
      BY <1>1, <2>5, <2>6, <2>8
  <1>14. Planned(jobs, tree) = tree /\ AllLand(jobs)
    BY <1>2, NothingPlanned
  <1>15. Minted = DOMAIN Genesis /\ Minted' = DOMAIN Genesis
    BY <1>1 DEF Minted
  <1>16. QED
    BY <1>1, <1>13, <1>14, <1>15 DEF SupplyShape, Clean, Whole

LEMMA SupplyJobs ==
  ASSUME Inv, SupplyShape, Clean(faults), Clean(faults'), NEW j \in jobs,
         EntryStored(j) \/ CountStored(j) \/ LastStored(j) \/ LeafStored(j)
             \/ JobFails(j)
  PROVE  SupplyShape'
  <1>1. TypeOK /\ tree \in Roots
    BY TypeFacts DEF Inv
  <1>2. CASE EntryStored(j) \/ CountStored(j) \/ LastStored(j)
    <2>1. PICK k : /\ jobs' = (jobs \ {j}) \cup {k} /\ k.address = j.address
                   /\ k.balances = j.balances /\ k.slot = j.slot
      <3>1. CASE EntryStored(j)
        BY <1>1, <3>1, EntryStoredIs
      <3>2. CASE CountStored(j) \/ LastStored(j)
        <4>1. PICK key \in j.left : Counted(j, key)
          BY <3>2 DEF CountStored, LastStored
        <4>2. QED
          BY <1>1, <4>1, CountedIs
      <3>3. QED
        BY <1>2, <3>1, <3>2
    <2>2. /\ status' = status /\ keys' = keys /\ tree' = tree
          /\ disk'.root = disk.root
      BY <1>1, <1>2, EntryStoredIs, CountStoredIs, LastStoredIs
         DEF EntryStored, CountStored, LastStored
    <2>3. j.at # "full"
      <3>1. j.at = "entry" \/ j.left # {}
        BY <1>2 DEF EntryStored, CountStored, LastStored
      <3>2. JobsFollow \/ status \notin {"genesis", "running"}
        BY DEF Inv, MemoryShape, Clean, Whole
      <3>3. status \in {"genesis", "running"}
        BY <1>1 DEF Inv, AtRest, TypeOK
      <3>4. QED
        BY <3>1, <3>2, <3>3 DEF JobsFollow
    <2>4. AllLand(jobs') => AllLand(jobs)
      BY <2>1, <2>3 DEF AllLand
    <2>5. Apart(jobs) =>
             Apart(jobs') /\ Planned(jobs', tree') = Planned(jobs, tree)
      BY <2>1, <2>2, JobReplaced
    <2>6. QED
      BY <2>2, <2>4, <2>5, SupplyFrame
  <1>3. CASE LeafStored(j)
    <2>1. /\ j.at = "leaf" /\ Encodable(j.balances) /\ j.slot \in Slots
          /\ tree' = [tree EXCEPT ![j.slot] = State(j.address, j.balances)]
          /\ jobs' = jobs \ {j}
          /\ status' = status /\ keys' = keys /\ disk' = disk
      <3>1. j.slot \in Slots
        BY <1>3 DEF LeafStored, Clean
      <3>2. Whole
        BY DEF Clean, Whole
      <3>3. QED
        BY <1>1, <1>3, <3>1, <3>2, LeafIsWritten DEF LeafStored
    <2>2. AllLand(jobs') => AllLand(jobs)
      BY <2>1 DEF AllLand
    <2>3. /\ tree'[j.slot] = State(j.address, j.balances)
          /\ \A s \in Slots : s # j.slot => tree'[s] = tree[s]
      BY <1>1, <2>1 DEF Roots
    <2>4. Apart(jobs) =>
             Apart(jobs') /\ Planned(jobs', tree') = Planned(jobs, tree)
      <3>1. j.slot \in Slots
        BY <2>1
      <3>2. ASSUME Apart(jobs)
            PROVE  /\ Apart(jobs \ {j})
                   /\ Planned(jobs \ {j}, tree') = Planned(jobs, tree)
        BY ONLY <2>3, <3>1, <3>2, j \in jobs, JobLands
      <3>3. QED
        BY <2>1, <3>2
    <2>5. QED
      BY <2>1, <2>2, <2>4, SupplyFrame
  <1>4. CASE JobFails(j)
    BY <1>4 DEF JobFails, Clean, Whole
  <1>5. QED
    BY <1>2, <1>3, <1>4

LEMMA SupplyRoot ==
  ASSUME Inv, SupplyShape, Clean(faults), RootStored
  PROVE  SupplyShape'
  <1>1. /\ TypeOK /\ op.doing = "rooting" /\ tree \in Roots
        /\ status' = status /\ keys' = keys /\ tree' = tree /\ jobs' = jobs
    BY TypeFacts DEF Inv, RootStored
  <1>2. status = "running"
    BY <1>1, IdleIs DEF Inv, AtRest, TypeOK
  <1>3. jobs = {} /\ op.root = tree
    BY <1>1, <1>2 DEF Inv, Clean, Whole, MemoryShape, OpFollows
  <1>4. disk'.root = tree
    BY <1>1, <1>3, RootStoredIs
  <1>5. AllLand(jobs) /\ Planned(jobs, tree) = tree
    BY <1>1, <1>3, NothingPlanned
  <1>6. Minted' = Minted /\ Minted = DOMAIN Genesis
    BY <1>1, <1>2 DEF Minted
  <1>7. QED
    BY <1>1, <1>2, <1>4, <1>5, <1>6 DEF SupplyShape, Clean, Whole

LEMMA SupplyNext ==
  ASSUME Inv, SupplyShape, [Next]_vars
  PROVE  SupplyShape'
  <1> SUFFICES ASSUME Clean(faults')
               PROVE  SupplyShape'
    BY DEF SupplyShape, Clean, Whole
  <1>1. Clean(faults)
    BY CleanIs
  <1>2. CASE Start
    BY <1>2, SupplyStart
  <1>3. CASE GenesisWrite
    BY <1>3, SupplyGenesis
  <1>4. CASE Created
    BY <1>4, SupplyCreated
  <1>5. ASSUME NEW tx \in Transactions, Begin(tx)
        PROVE  SupplyShape'
    BY <1>1, <1>5, SupplyBegin
  <1>6. ASSUME NEW j \in jobs,
               EntryStored(j) \/ CountStored(j) \/ LastStored(j)
                   \/ LeafStored(j) \/ JobFails(j)
        PROVE  SupplyShape'
    BY <1>1, <1>6, SupplyJobs
  <1>7. CASE StatesWritten \/ UNCHANGED vars
    <2>1. /\ status' = status /\ keys' = keys /\ tree' = tree
          /\ jobs' = jobs /\ disk' = disk
      BY <1>7 DEF StatesWritten, vars
    <2>2. QED
      BY <1>1, <2>1, SupplyFrame
  <1>8. CASE RootStored
    BY <1>1, <1>8, SupplyRoot
  <1>9. CASE Crash
    <2>1. disk' = disk /\ status' = "down"
      BY <1>9 DEF Crash
    <2>2. QED
      BY <1>1, <2>1 DEF SupplyShape, Clean, Whole
  <1>10. QED
    BY <1>2, <1>3, <1>4, <1>5, <1>6, <1>7, <1>8, <1>9 DEF Next

\* Whatever the transactions, and over any restarts: when nothing is under way,
\* the balances of the tree add up to those of the genesis states, of each
\* token, unless a transaction failed half-way, an account paid itself or was
\* given a slot beyond the tree, or a crash fell between the first leaf of a
\* transaction and its root, or into the update of a leaf: after that the
\* process runs on with leaves it cannot read, and nothing is claimed.
THEOREM SupplyStays == Spec => []SupplyIsConserved
  <1>1. Init => SupplyShape
    BY DEF Init, SupplyShape
  <1>2. Inv /\ SupplyShape /\ [Next]_vars => SupplyShape'
    BY SupplyNext
  <1>3. Inv /\ SupplyShape => SupplyIsConserved
    <2> SUFFICES ASSUME Inv, SupplyShape, Quiet, Clean(faults)
                 PROVE  \A token \in Tokens :
                           Supply(tree, Slots, token)
                               = Supply(Genesis, DOMAIN Genesis, token)
      BY DEF SupplyIsConserved, Clean, Whole
    <2>1. status = "running" /\ jobs = {} /\ tree \in Roots
      BY TypeFacts DEF Quiet, Inv
    <2>2. AllLand(jobs) /\ Planned(jobs, tree) = tree
      BY <2>1, NothingPlanned
    <2>3. QED
      BY <2>1, <2>2 DEF SupplyShape, Minted, Clean, Whole
  <1>4. QED
    BY <1>1, <1>2, <1>3, InvInit, InvNext, PTL DEF Spec

=============================================================================
