---------------------------- MODULE CoreDb_proofs ---------------------------
(***************************************************************************)
(* Proofs about two components of core-db: SparseMerkleTree, for every     *)
(* height, every set of values and any number of operations, restarts and  *)
(* crashes; and EventProcessor, for every log, every number of crashes and *)
(* every interleaving of live events, writes, listeners and the fetch of the*)
(* history.                                                                *)
(*                                                                         *)
(* The two share no variable, and each theorem is about one of them.       *)
(***************************************************************************)
EXTENDS EventProcessor, SparseMerkleTree, SequenceTheorems,
        WellFoundedInduction, TLAPS

\* A set of natural numbers has a least one.
LEMMA NatMin ==
    ASSUME NEW S \in SUBSET Nat, S # {}
    PROVE  Min(S) \in S /\ \A n \in S : Min(S) <= n
  <1>1. PICK m \in S : \A n \in S : ~(<<n, m>> \in OpToRel(<, Nat))
    BY NatLessThanWellFounded, WFMin
  <1>2. \A n \in S : ~(n < m)
    BY <1>1 DEF OpToRel
  <1>3. \A n \in S : m <= n
    BY <1>2
  <1>4. QED
    BY <1>3 DEF Min

-----------------------------------------------------------------------------
(***************************************************************************)
(* SparseMerkleTree.                                                       *)
(***************************************************************************)

(***************************************************************************)
(* Induction over the levels of the tree, from the root and from the       *)
(* leaves.                                                                 *)
(***************************************************************************)
LEMMA FromZero ==
  ASSUME NEW n \in Nat, NEW S, 0 \in S,
         \A d \in 0..(n - 1) : d \in S => d + 1 \in S
  PROVE  0..n \subseteq S
  <1> DEFINE Bad == {d \in 0..n : d \notin S}
  <1> SUFFICES ASSUME Bad # {}
               PROVE  FALSE
    OBVIOUS
  <1> DEFINE m == Min(Bad)
  <1>1. m \in Bad /\ \A d \in Bad : m <= d
    BY NatMin
  <1> HIDE DEF m
  <1>2. m \in 0..n /\ m # 0 /\ m \notin S
    BY <1>1
  <1>3. m - 1 \in 0..(n - 1)
    BY <1>2
  <1>4. m - 1 \notin Bad
    BY <1>1, <1>3
  <1>5. m - 1 \in S
    BY <1>3, <1>4
  <1>6. (m - 1) + 1 = m
    BY <1>2
  <1>7. QED
    BY <1>2, <1>3, <1>5, <1>6

LEMMA ToZero ==
  ASSUME NEW n \in Nat, NEW S, n \in S,
         \A d \in 0..(n - 1) : d + 1 \in S => d \in S
  PROVE  0..n \subseteq S
  <1> DEFINE R == {d \in 0..n : n - d \in S}
  <1>1. 0 \in R
    BY n - 0 = n
  <1>2. ASSUME NEW d \in 0..(n - 1), d \in R
        PROVE  d + 1 \in R
    <2>1. n - (d + 1) \in 0..(n - 1) /\ (n - (d + 1)) + 1 = n - d
      OBVIOUS
    <2>2. n - (d + 1) \in S
      BY <1>2, <2>1
    <2>3. QED
      BY <2>2
  <1> HIDE DEF R
  <1>3. 0..n \subseteq R
    BY <1>1, <1>2, FromZero
  <1>4. ASSUME NEW d \in 0..n
        PROVE  d \in S
    <2>1. n - d \in 0..n /\ n - (n - d) = d
      OBVIOUS
    <2>2. n - d \in R
      BY <1>3, <2>1
    <2>3. QED
      BY <2>1, <2>2 DEF R
  <1>5. QED
    BY <1>4

-----------------------------------------------------------------------------
(***************************************************************************)
(* Places.                                                                 *)
(***************************************************************************)
LEMMA HeightIs == Height \in Nat /\ Height - 2 \in Nat /\ Height - 1 \in Nat
  BY TreeAssumption

LEMMA Powers ==
  ASSUME NEW d \in 0..Height
  PROVE  2^d \in Nat \ {0} /\ 2^(d + 1) = 2 * 2^d
  BY TreeAssumption

LEMMA PlacesBelow ==
  ASSUME NEW d \in 0..(Height - 2), NEW k \in Places(d)
  PROVE  2 * k \in Places(d + 1) /\ 2 * k + 1 \in Places(d + 1)
  <1>1. 2^d \in Nat \ {0} /\ 2^(d + 1) = 2 * 2^d
    BY HeightIs, Powers
  <1>2. QED
    BY <1>1 DEF Places

LEMMA PlaceAbove ==
  ASSUME NEW d \in 0..(Height - 2), NEW k \in Places(d + 1)
  PROVE  /\ k \div 2 \in Places(d)
         /\ k = 2 * (k \div 2) \/ k = 2 * (k \div 2) + 1
  <1>1. 2^d \in Nat \ {0} /\ 2^(d + 1) = 2 * 2^d
    BY HeightIs, Powers
  <1>2. QED
    BY <1>1 DEF Places

LEMMA LeafPlaces == Keys = Places(Height - 1)
  BY DEF Keys, Places

LEMMA TopPlace == Places(0) = {0}
  BY TreeAssumption DEF Places

LEMMA HalfAgain ==
  ASSUME NEW k \in Nat, NEW p \in Nat \ {0}
  PROVE  k \div (2 * p) = (k \div p) \div 2 /\ k \div p \in Nat
  <1>1. PICK q \in Nat, r \in 0..(p - 1) : k = q * p + r
    <2> DEFINE q == k \div p
    <2>1. q \in Nat /\ k = q * p + (k % p) /\ k % p \in 0..(p - 1)
      OBVIOUS
    <2>2. QED
      BY <2>1
  <1>2. k \div p = q
    BY <1>1
  <1>3. PICK h \in Nat : q = 2 * h \/ q = 2 * h + 1
    BY <1>1, q \div 2 \in Nat
  <1>4. q \div 2 = h
    BY <1>3
  <1>5. k \div (2 * p) = h
    <2>1. CASE q = 2 * h
      <3>1. k = h * (2 * p) + r /\ r \in 0..(2 * p - 1)
        BY <1>1, <2>1
      <3>2. QED
        BY <3>1
    <2>2. CASE q = 2 * h + 1
      <3>1. k = h * (2 * p) + (p + r) /\ p + r \in 0..(2 * p - 1)
        BY <1>1, <2>2
      <3>2. QED
        BY <3>1
    <2>3. QED
      BY <1>3, <2>1, <2>2
  <1>6. QED
    BY <1>2, <1>4, <1>5

LEMMA NodeKeyIsNat ==
  ASSUME NEW key \in Keys, NEW d \in Depths
  PROVE  NodeKey(key, d) \in Nat
  <1>1. 2^(Height - 1 - d) \in Nat \ {0} /\ 2^(Height - 1) \in Nat
    BY HeightIs, Powers DEF Depths
  <1>2. QED
    BY <1>1 DEF NodeKey, Keys

\* A node's place and that of its child on the way to a leaf.
LEMMA NextNode ==
  ASSUME NEW key \in Keys, NEW d \in 0..(Height - 2)
  PROVE  /\ NodeKey(key, d) = NodeKey(key, d + 1) \div 2
         /\ NodeKey(key, d + 1) = IF IsLeft(key, d) THEN 2 * NodeKey(key, d)
                                                   ELSE 2 * NodeKey(key, d) + 1
  <1> DEFINE p == 2^(Height - 2 - d)
  <1>1. Height - 2 - d \in 0..Height
    BY HeightIs
  <1>2. p \in Nat \ {0} /\ 2^((Height - 2 - d) + 1) = 2 * p
    BY <1>1, Powers
  <1>3. /\ (Height - 2 - d) + 1 = Height - 1 - d
        /\ Height - 1 - (d + 1) = Height - 2 - d
    BY HeightIs
  <1>4. NodeKey(key, d) = key \div (2 * p) /\ NodeKey(key, d + 1) = key \div p
    BY <1>2, <1>3 DEF NodeKey
  <1>5. IsLeft(key, d) <=> (key \div p) % 2 = 0
    BY DEF IsLeft
  <1>6. key \in Nat
    BY HeightIs, Powers DEF Keys
  <1> HIDE DEF p
  <1>7. NodeKey(key, d) = (key \div p) \div 2 /\ key \div p \in Nat
    BY <1>2, <1>4, <1>6, HalfAgain
  <1>8. QED
    BY <1>4, <1>5, <1>7

LEMMA NodePlaces ==
  ASSUME NEW key \in Keys
  PROVE  \A d \in Depths : NodeKey(key, d) \in Places(d)
  <1> DEFINE S == {d \in Depths : NodeKey(key, d) \in Places(d)}
  <1>1. Height - 1 \in S
    <2>1. Height - 1 - (Height - 1) = 0 /\ Height - 1 \in Depths
      BY HeightIs DEF Depths
    <2>2. NodeKey(key, Height - 1) = key
      <3>1. key \in Nat /\ 2^0 = 1
        BY HeightIs, Powers, TreeAssumption DEF Keys
      <3>2. key \div 1 = key
        BY <3>1
      <3>3. QED
        BY <2>1, <3>1, <3>2 DEF NodeKey
    <2>3. QED
      BY <2>1, <2>2, LeafPlaces
  <1>2. ASSUME NEW d \in 0..(Height - 1 - 1), d + 1 \in S
        PROVE  d \in S
    <2>1. d \in 0..(Height - 2) /\ d \in Depths
      BY HeightIs DEF Depths
    <2>2. NodeKey(key, d) = NodeKey(key, d + 1) \div 2
      BY <2>1, NextNode
    <2>3. QED
      BY <1>2, <2>1, <2>2, PlaceAbove
  <1> HIDE DEF S
  <1>3. 0..(Height - 1) \subseteq S
    BY <1>1, <1>2, HeightIs, ToZero
  <1>4. QED
    BY <1>3 DEF S, Depths

LEMMA LeafNode ==
  ASSUME NEW key \in Keys
  PROVE  NodeKey(key, Height - 1) = key /\ NodeKey(key, 0) = 0
  <1>1. key \in Nat /\ 2^0 = 1 /\ Height - 1 - (Height - 1) = 0
    BY HeightIs, Powers, TreeAssumption DEF Keys
  <1>2. NodeKey(key, Height - 1) = key
    <2>1. key \div 1 = key
      BY <1>1
    <2>2. QED
      BY <1>1, <2>1 DEF NodeKey
  <1>3. 0 \in Depths
    BY HeightIs DEF Depths
  <1>4. QED
    BY <1>2, <1>3, NodePlaces, TopPlace

\* A node's sibling is the other child of the node above.
LEMMA SiblingNode ==
  ASSUME NEW key \in Keys, NEW d \in 0..(Height - 2)
  PROVE  /\ SiblingKey(key, d + 1) = IF IsLeft(key, d)
                                     THEN 2 * NodeKey(key, d) + 1
                                     ELSE 2 * NodeKey(key, d)
         /\ SiblingKey(key, d + 1) \in Places(d + 1)
         /\ SiblingKey(key, d + 1) # NodeKey(key, d + 1)
  <1>1. d \in Depths
    BY HeightIs DEF Depths
  <1>2. NodeKey(key, d) \in Places(d) /\ NodeKey(key, d) \in Nat
    BY <1>1, NodePlaces, NodeKeyIsNat
  <1>3. NodeKey(key, d + 1) = IF IsLeft(key, d) THEN 2 * NodeKey(key, d)
                                               ELSE 2 * NodeKey(key, d) + 1
    BY NextNode
  <1>4. SiblingKey(key, d + 1) = IF NodeKey(key, d + 1) % 2 = 0
                                 THEN NodeKey(key, d + 1) + 1
                                 ELSE NodeKey(key, d + 1) - 1
    BY DEF SiblingKey
  <1>5. SiblingKey(key, d + 1) = IF IsLeft(key, d)
                                 THEN 2 * NodeKey(key, d) + 1
                                 ELSE 2 * NodeKey(key, d)
    <2>1. CASE IsLeft(key, d)
      BY <1>2, <1>3, <1>4, <2>1
    <2>2. CASE ~IsLeft(key, d)
      BY <1>2, <1>3, <1>4, <2>2
    <2>3. QED
      BY <2>1, <2>2
  <1>6. SiblingKey(key, d + 1) # NodeKey(key, d + 1)
    BY <1>2, <1>3, <1>5
  <1>7. QED
    BY <1>2, <1>5, <1>6, PlacesBelow


-----------------------------------------------------------------------------
(***************************************************************************)
(* The levels of a tree.  They are a recursive function, which exists for  *)
(* each number of levels.                                                  *)
(***************************************************************************)
LevelOf(c, L, d) ==
    IF d = Height - 1 THEN [k \in Keys |-> Hash(<<c[k]>>)]
    ELSE LET below == L[d + 1]
         IN  [k \in 0..(2^d - 1) |-> Hash(<<below[2 * k], below[2 * k + 1]>>)]

Levelled(c, n, L) ==
    L = [d \in n..(Height - 1) |-> LevelOf(c, L, d)]

LEMMA LevelsExist ==
  ASSUME NEW c
  PROVE  \E L : Levelled(c, 0, L)
  <1> DEFINE S == {n \in Depths : \E L : Levelled(c, n, L)}
  <1>1. Height - 1 \in S
    <2> DEFINE l == [k \in Keys |-> Hash(<<c[k]>>)]
    <2> HIDE DEF l
    <2> DEFINE L == [d \in (Height - 1)..(Height - 1) |-> l]
    <2>1. \A d \in (Height - 1)..(Height - 1) : LevelOf(c, L, d) = l
      BY HeightIs DEF LevelOf, l
    <2>2. Levelled(c, Height - 1, L)
      BY <2>1 DEF Levelled
    <2>3. QED
      BY <2>2, HeightIs DEF Depths
  <1>2. ASSUME NEW n \in 0..(Height - 1 - 1), n + 1 \in S
        PROVE  n \in S
    <2>1. PICK M : Levelled(c, n + 1, M)
      BY <1>2
    <2> DEFINE l == LevelOf(c, M, n)
    <2> HIDE DEF l
    <2> DEFINE L == [d \in n..(Height - 1) |-> IF d = n THEN l ELSE M[d]]
    <2>2. ASSUME NEW d \in n..(Height - 1)
          PROVE  L[d] = LevelOf(c, L, d)
      <3>1. d # Height - 1 => d + 1 \in n..(Height - 1) /\ d + 1 # n
        BY HeightIs
      <3>2. d # Height - 1 => L[d + 1] = M[d + 1]
        BY <3>1
      <3> HIDE DEF L
      <3>3. LevelOf(c, L, d) = LevelOf(c, M, d)
        BY <3>2 DEF LevelOf
      <3>4. d = n => L[d] = l
        BY DEF L
      <3>5. d # n => L[d] = M[d] /\ d \in (n + 1)..(Height - 1)
        BY HeightIs DEF L
      <3>6. d # n => M[d] = LevelOf(c, M, d)
        BY <2>1, <3>5 DEF Levelled
      <3>7. QED
        BY <3>3, <3>4, <3>5, <3>6 DEF l
    <2>3. Levelled(c, n, L)
      BY <2>2 DEF Levelled
    <2>4. QED
      BY <2>3, HeightIs DEF Depths
  <1> HIDE DEF S
  <1>3. 0..(Height - 1) \subseteq S
    BY <1>1, <1>2, HeightIs, ToZero
  <1>4. QED
    BY <1>3, HeightIs DEF S

LEMMA LevelsAre ==
  ASSUME NEW c
  PROVE  Levelled(c, 0, Levels(c))
  <1>1. Levels(c) = CHOOSE L : Levelled(c, 0, L)
    BY DEF Levels, Levelled, LevelOf
  <1>2. QED
    BY <1>1, LevelsExist

LEMMA LeafHash ==
  ASSUME NEW c, NEW key \in Keys
  PROVE  Levels(c)[Height - 1][key] = <<c[key]>>
  <1>1. Levels(c)[Height - 1] = LevelOf(c, Levels(c), Height - 1)
    BY LevelsAre, HeightIs DEF Levelled
  <1>2. QED
    BY <1>1 DEF LevelOf, Hash

LEMMA InnerHash ==
  ASSUME NEW c, NEW d \in 0..(Height - 2), NEW k \in Places(d)
  PROVE  Levels(c)[d][k]
             = <<Levels(c)[d + 1][2 * k], Levels(c)[d + 1][2 * k + 1]>>
  <1>1. d \in 0..(Height - 1) /\ d # Height - 1
    BY HeightIs
  <1>2. Levels(c)[d] = LevelOf(c, Levels(c), d)
    BY <1>1, LevelsAre DEF Levelled
  <1>3. QED
    BY <1>1, <1>2 DEF LevelOf, Hash, Places

LEMMA PairIs ==
  ASSUME NEW h, NEW a, NEW b, NEW c, NEW d, h = <<a, b>>, h = <<c, d>>
  PROVE  a = c /\ b = d
  <1>1. h[1] = a /\ h[2] = b /\ h[1] = c /\ h[2] = d
    OBVIOUS
  <1>2. QED
    BY <1>1

LEMMA LeafIsNoPair ==
  ASSUME NEW h, NEW a, NEW b, NEW c, h = <<a, b>>, h = <<c>>
  PROVE  FALSE
  <1>1. Len(<<a, b>>) = 2 /\ Len(<<c>>) = 1
    OBVIOUS
  <1>2. QED
    BY <1>1

\* A hash tells how far from the leaves it is.
LEMMA DepthIsKnown ==
  ASSUME NEW b, NEW c, NEW d \in Depths, NEW k \in Places(d),
         NEW e \in Depths, NEW l \in Places(e),
         Levels(b)[d][k] = Levels(c)[e][l]
  PROVE  d = e
  <1> DEFINE Differ(x) ==
                 \A y \in Depths : x < y =>
                     \A i \in Places(x) : \A j \in Places(y) :
                         \A f, g : Levels(f)[x][i] # Levels(g)[y][j]
             S == {x \in Depths : Differ(x)}
  <1>1. Height - 1 \in S
    BY HeightIs DEF Depths
  <1>2. ASSUME NEW x \in 0..(Height - 1 - 1), x + 1 \in S
        PROVE  x \in S
    <2>1. x \in Depths /\ x \in 0..(Height - 2)
      BY HeightIs DEF Depths
    <2>2. ASSUME NEW y \in Depths, x < y, NEW i \in Places(x),
                 NEW j \in Places(y), NEW f, NEW g,
                 Levels(f)[x][i] = Levels(g)[y][j]
          PROVE  FALSE
      <3>1. Levels(f)[x][i] = <<Levels(f)[x + 1][2 * i],
                                Levels(f)[x + 1][2 * i + 1]>>
        BY <2>1, InnerHash
      <3>2. CASE y = Height - 1
        <4>1. Levels(g)[y][j] = <<g[j]>>
          BY <3>2, LeafHash, LeafPlaces
        <4>2. Levels(f)[x][i] = <<g[j]>>
          BY ONLY <4>1, Levels(f)[x][i] = Levels(g)[y][j]
        <4>3. QED
          BY ONLY <3>1, <4>2, LeafIsNoPair
      <3>3. CASE y # Height - 1
        <4>1. y \in 0..(Height - 2) /\ y + 1 \in Depths /\ x + 1 < y + 1
          BY <2>1, <2>2, <3>3, HeightIs DEF Depths
        <4>2. Levels(g)[y][j] = <<Levels(g)[y + 1][2 * j],
                                  Levels(g)[y + 1][2 * j + 1]>>
          BY <4>1, InnerHash
        <4>3. Levels(f)[x + 1][2 * i] = Levels(g)[y + 1][2 * j]
          <5>1. Levels(f)[x][i] = <<Levels(g)[y + 1][2 * j],
                                    Levels(g)[y + 1][2 * j + 1]>>
            BY ONLY <4>2, Levels(f)[x][i] = Levels(g)[y][j]
          <5>2. QED
            BY ONLY <3>1, <5>1, PairIs
        <4>4. 2 * i \in Places(x + 1) /\ 2 * j \in Places(y + 1)
          BY <2>1, <4>1, PlacesBelow
        <4>5. Differ(x + 1)
          BY <1>2
        <4> HIDE DEF Differ
        <4>6. QED
          BY <4>1, <4>3, <4>4, <4>5 DEF Differ
      <3>4. QED
        BY <3>2, <3>3
    <2>3. Differ(x)
      BY <2>2
    <2>4. QED
      BY <2>1, <2>3
  <1> HIDE DEF S
  <1>3. 0..(Height - 1) \subseteq S
    BY <1>1, <1>2, HeightIs, ToZero
  <1>4. Differ(d) /\ Differ(e)
    BY <1>3 DEF Depths, S
  <1>5. ~(d < e) /\ ~(e < d)
    BY <1>4
  <1>6. QED
    BY <1>5 DEF Depths

LEMMA IdIsKnown ==
  ASSUME NEW b, NEW c, NEW d \in Depths, NEW k \in Places(d),
         NEW e \in Depths, NEW l \in Places(e),
         IdAt(b, d, k) = IdAt(c, e, l)
  PROVE  d = e /\ k = l /\ Levels(b)[d][k] = Levels(c)[e][l]
  <1>1. k = l /\ Levels(b)[d][k] = Levels(c)[e][l]
    BY DEF IdAt, NodeID
  <1>2. QED
    BY <1>1, DepthIsKnown

\* A root commits to all leaves.
LEMMA SameLeaves ==
  ASSUME NEW b \in [Keys -> Values], NEW c \in [Keys -> Values],
         Commitment(b) = Commitment(c)
  PROVE  b = c
  <1> DEFINE S == {d \in Depths : \A k \in Places(d) :
                                     Levels(b)[d][k] = Levels(c)[d][k]}
  <1>1. 0 \in S
    BY HeightIs, TopPlace DEF Depths, Commitment
  <1>2. ASSUME NEW d \in 0..(Height - 1 - 1), d \in S
        PROVE  d + 1 \in S
    <2>1. d \in 0..(Height - 2) /\ d + 1 \in Depths
      BY HeightIs DEF Depths
    <2>2. ASSUME NEW k \in Places(d + 1)
          PROVE  Levels(b)[d + 1][k] = Levels(c)[d + 1][k]
      <3>1. PICK j \in Places(d) : k = 2 * j \/ k = 2 * j + 1
        BY <2>1, PlaceAbove
      <3>2. Levels(b)[d][j] = Levels(c)[d][j]
        BY <1>2
      <3>3. /\ Levels(b)[d][j] = <<Levels(b)[d + 1][2 * j],
                                   Levels(b)[d + 1][2 * j + 1]>>
            /\ Levels(c)[d][j] = <<Levels(c)[d + 1][2 * j],
                                   Levels(c)[d + 1][2 * j + 1]>>
        BY <2>1, InnerHash
      <3>4. /\ Levels(b)[d + 1][2 * j] = Levels(c)[d + 1][2 * j]
            /\ Levels(b)[d + 1][2 * j + 1] = Levels(c)[d + 1][2 * j + 1]
        <4>1. Levels(b)[d][j] = <<Levels(c)[d + 1][2 * j],
                                  Levels(c)[d + 1][2 * j + 1]>>
          BY ONLY <3>2, <3>3
        <4>2. QED
          BY ONLY <3>3, <4>1, PairIs
      <3>5. QED
        BY <3>1, <3>4
    <2>3. QED
      BY <2>1, <2>2
  <1> HIDE DEF S
  <1>3. 0..(Height - 1) \subseteq S
    BY <1>1, <1>2, HeightIs, FromZero
  <1>4. ASSUME NEW key \in Keys
        PROVE  b[key] = c[key]
    <2>1. Levels(b)[Height - 1][key] = Levels(c)[Height - 1][key]
      BY <1>3, HeightIs, LeafPlaces DEF S
    <2>2. <<b[key]>> = <<c[key]>>
      BY <2>1, LeafHash
    <2>3. QED
      BY <2>2
  <1>5. QED
    BY <1>4

\* The hash of the empty trees.
LEMMA ZeroHashes ==
  ASSUME NEW d \in Depths, NEW k \in Places(d)
  PROVE  Levels(AllEmpty)[d][k] = ZeroHash[d]
  <1> DEFINE L == Levels(AllEmpty)
             S == {x \in Depths : \A i \in Places(x) : L[x][i] = L[x][0]}
  <1>0. Height - 1 \in Depths /\ 0 \in Keys
    <2>1. 2^(Height - 1) \in Nat \ {0}
      BY HeightIs, Powers
    <2>2. QED
      BY <2>1, HeightIs DEF Depths, Keys
  <1>1. \A i \in Keys : L[Height - 1][i] = <<Empty>>
    BY LeafHash DEF AllEmpty
  <1>2. Height - 1 \in S
    BY <1>0, <1>1, LeafPlaces
  <1> HIDE DEF L
  <1>3. \A x \in 0..(Height - 2) : \A i \in Places(x) :
            L[x][i] = <<L[x + 1][2 * i], L[x + 1][2 * i + 1]>>
    BY InnerHash DEF L
  <1>4. ASSUME NEW x \in 0..(Height - 1 - 1), x + 1 \in S
        PROVE  x \in S
    <2>1. x \in 0..(Height - 2) /\ x \in Depths
      BY HeightIs DEF Depths
    <2>2. 0 \in Places(x)
      <3>1. 2^x \in Nat \ {0}
        BY <2>1, HeightIs, Powers
      <3>2. QED
        BY <3>1 DEF Places
    <2>3. ASSUME NEW i \in Places(x)
          PROVE  L[x][i] = <<L[x + 1][0], L[x + 1][0]>>
      <3>1. 2 * i \in Places(x + 1) /\ 2 * i + 1 \in Places(x + 1)
        BY <2>1, PlacesBelow
      <3>2. L[x + 1][2 * i] = L[x + 1][0] /\ L[x + 1][2 * i + 1] = L[x + 1][0]
        BY <1>4, <3>1
      <3>3. QED
        BY <1>3, <2>1, <3>2
    <2>4. QED
      BY <2>1, <2>2, <2>3
  <1> HIDE DEF S
  <1>5. 0..(Height - 1) \subseteq S
    BY <1>2, <1>4, HeightIs, ToZero
  <1>6. \A x \in Depths : \A i \in Places(x) : L[x][i] = L[x][0]
    BY <1>5 DEF S, Depths
  <1>7. \A x \in 0..(Height - 2) : L[x] [0] = <<L[x + 1][0], L[x + 1][0]>>
    <2>1. TAKE x \in 0..(Height - 2)
    <2>2. x + 1 \in Depths /\ x + 1 \in 0..Height /\ x \in 0..Height
      BY HeightIs DEF Depths
    <2>3. 2^x \in Nat \ {0} /\ 2^(x + 1) = 2 * 2^x
      BY <2>2, Powers
    <2>4. 0 \in Places(x) /\ 1 \in Places(x + 1)
      BY <2>3 DEF Places
    <2>5. L[x][0] = <<L[x + 1][0], L[x + 1][1]>>
      BY <1>3, <2>4
    <2>6. L[x + 1][1] = L[x + 1][0]
      BY <1>6, <2>2, <2>4
    <2>7. QED
      BY <2>5, <2>6
  <1>8. L[Height - 1][0] = <<Empty>>
    BY <1>0, <1>1
  <1> DEFINE Zeros(z) ==
                 z = [x \in 0..(Height - 1) |->
                         IF x = Height - 1 THEN Hash(<<Empty>>)
                         ELSE Hash(<<z[x + 1], z[x + 1]>>)]
             w == [x \in 0..(Height - 1) |-> L[x][0]]
  <1>9. Zeros(w)
    <2>1. ASSUME NEW x \in 0..(Height - 1)
          PROVE  w[x] = IF x = Height - 1 THEN <<Empty>>
                        ELSE <<w[x + 1], w[x + 1]>>
      <3>1. x # Height - 1 => x \in 0..(Height - 2) /\ x + 1 \in 0..(Height - 1)
        BY HeightIs
      <3>2. QED
        BY <1>7, <1>8, <3>1
    <2> HIDE DEF w
    <2>2. w = [x \in 0..(Height - 1) |-> w[x]]
      BY DEF w
    <2>3. QED
      BY <2>1, <2>2 DEF Hash
  <1>10. ZeroHash = CHOOSE z : Zeros(z)
    BY DEF ZeroHash
  <1>11. Zeros(ZeroHash)
    BY <1>9, <1>10
  <1>12. \A x \in 0..(Height - 1) :
            ZeroHash[x] = IF x = Height - 1 THEN <<Empty>>
                          ELSE <<ZeroHash[x + 1], ZeroHash[x + 1]>>
    BY <1>11 DEF Hash
  <1> DEFINE R == {x \in Depths : ZeroHash[x] = L[x][0]}
  <1>13. Height - 1 \in R
    BY <1>0, <1>8, <1>12 DEF Depths
  <1>14. ASSUME NEW x \in 0..(Height - 1 - 1), x + 1 \in R
         PROVE  x \in R
    <2>1. x \in 0..(Height - 2) /\ x \in 0..(Height - 1) /\ x # Height - 1
      BY HeightIs
    <2>2. ZeroHash[x] = <<ZeroHash[x + 1], ZeroHash[x + 1]>>
      BY <1>12, <2>1
    <2>3. QED
      BY <1>7, <1>14, <2>1, <2>2 DEF Depths
  <1> HIDE DEF R
  <1>15. 0..(Height - 1) \subseteq R
    BY <1>13, <1>14, HeightIs, ToZero
  <1>16. QED
    BY <1>6, <1>15 DEF R, Depths, L


-----------------------------------------------------------------------------
(***************************************************************************)
(* Two trees that differ in one leaf differ on its path and nowhere else.  *)
(***************************************************************************)
LEMMA OffPath ==
  ASSUME NEW b, NEW c, NEW key \in Keys,
         \A k \in Keys : k # key => b[k] = c[k]
  PROVE  \A d \in Depths : \A k \in Places(d) :
             k # NodeKey(key, d) => Levels(b)[d][k] = Levels(c)[d][k]
  <1> DEFINE S == {d \in Depths : \A k \in Places(d) :
                      k # NodeKey(key, d) =>
                          Levels(b)[d][k] = Levels(c)[d][k]}
  <1>1. Height - 1 \in S
    <2>1. Height - 1 \in Depths /\ NodeKey(key, Height - 1) = key
      BY HeightIs, LeafNode DEF Depths
    <2>2. ASSUME NEW k \in Places(Height - 1), k # key
          PROVE  Levels(b)[Height - 1][k] = Levels(c)[Height - 1][k]
      <3>1. k \in Keys /\ b[k] = c[k]
        BY <2>2, LeafPlaces
      <3>2. /\ Levels(b)[Height - 1][k] = <<b[k]>>
            /\ Levels(c)[Height - 1][k] = <<c[k]>>
        BY <3>1, LeafHash
      <3>3. QED
        BY <3>1, <3>2
    <2>3. QED
      BY <2>1, <2>2
  <1>2. ASSUME NEW d \in 0..(Height - 1 - 1), d + 1 \in S
        PROVE  d \in S
    <2>1. d \in 0..(Height - 2) /\ d \in Depths
      BY HeightIs DEF Depths
    <2>2. ASSUME NEW k \in Places(d), k # NodeKey(key, d)
          PROVE  Levels(b)[d][k] = Levels(c)[d][k]
      <3>1. 2 * k \in Places(d + 1) /\ 2 * k + 1 \in Places(d + 1)
        BY <2>1, PlacesBelow
      <3>2. k \in Nat /\ NodeKey(key, d) \in Nat
        BY <2>1, HeightIs, Powers, NodeKeyIsNat DEF Places
      <3>3. \/ NodeKey(key, d + 1) = 2 * NodeKey(key, d)
            \/ NodeKey(key, d + 1) = 2 * NodeKey(key, d) + 1
        BY <2>1, NextNode
      <3>4. 2 * k # NodeKey(key, d + 1) /\ 2 * k + 1 # NodeKey(key, d + 1)
        BY <2>2, <3>2, <3>3
      <3>5. /\ Levels(b)[d + 1][2 * k] = Levels(c)[d + 1][2 * k]
            /\ Levels(b)[d + 1][2 * k + 1] = Levels(c)[d + 1][2 * k + 1]
        BY <1>2, <3>1, <3>4
      <3>6. /\ Levels(b)[d][k] = <<Levels(b)[d + 1][2 * k],
                                   Levels(b)[d + 1][2 * k + 1]>>
            /\ Levels(c)[d][k] = <<Levels(c)[d + 1][2 * k],
                                   Levels(c)[d + 1][2 * k + 1]>>
        BY <2>1, InnerHash
      <3>7. QED
        BY ONLY <3>5, <3>6
    <2>3. QED
      BY <2>1, <2>2
  <1> HIDE DEF S
  <1>3. 0..(Height - 1) \subseteq S
    BY <1>1, <1>2, HeightIs, ToZero
  <1>4. QED
    BY <1>3 DEF S, Depths

\* The hash of a node on the way to a leaf.
HashOn(c, key, d) == Levels(c)[d][NodeKey(key, d)]

\* And that of its sibling.
HashBeside(c, key, d) == Levels(c)[d][SiblingKey(key, d)]

LEMMA PairOnPath ==
  ASSUME NEW c, NEW key \in Keys, NEW d \in 0..(Height - 2)
  PROVE  HashOn(c, key, d) = Pair(HashOn(c, key, d + 1),
                                  HashBeside(c, key, d + 1), d, key)
  <1>1. d \in Depths
    BY HeightIs DEF Depths
  <1> DEFINE n == NodeKey(key, d)
  <1>2. n \in Places(d)
    BY <1>1, NodePlaces
  <1>3. HashOn(c, key, d) = <<Levels(c)[d + 1][2 * n],
                              Levels(c)[d + 1][2 * n + 1]>>
    BY <1>2, InnerHash DEF HashOn
  <1>4. NodeKey(key, d + 1) = IF IsLeft(key, d) THEN 2 * n ELSE 2 * n + 1
    BY NextNode
  <1>5. SiblingKey(key, d + 1) = IF IsLeft(key, d) THEN 2 * n + 1 ELSE 2 * n
    BY SiblingNode
  <1> HIDE DEF n
  <1>6. QED
    BY <1>3, <1>4, <1>5 DEF Pair, HashOn, HashBeside

LEMMA PairIsKnown ==
  ASSUME NEW key, NEW d, NEW h, NEW s, NEW g, NEW t,
         Pair(h, s, d, key) = Pair(g, t, d, key)
  PROVE  h = g /\ s = t
  <1>1. CASE IsLeft(key, d)
    <2>1. <<h, s>> = <<g, t>>
      BY <1>1 DEF Pair
    <2>2. QED
      BY ONLY <2>1, PairIs
  <1>2. CASE ~IsLeft(key, d)
    <2>1. <<s, h>> = <<t, g>>
      BY <1>2 DEF Pair
    <2>2. QED
      BY ONLY <2>1, PairIs
  <1>3. QED
    BY <1>1, <1>2

LEMMA OnPathDiffers ==
  ASSUME NEW b, NEW c, NEW key \in Keys, b[key] # c[key]
  PROVE  \A d \in Depths : HashOn(b, key, d) # HashOn(c, key, d)
  <1> DEFINE S == {d \in Depths : HashOn(b, key, d) # HashOn(c, key, d)}
  <1>1. Height - 1 \in S
    <2>1. Height - 1 \in Depths /\ NodeKey(key, Height - 1) = key
      BY HeightIs, LeafNode DEF Depths
    <2>2. /\ HashOn(b, key, Height - 1) = <<b[key]>>
          /\ HashOn(c, key, Height - 1) = <<c[key]>>
      BY <2>1, LeafHash DEF HashOn
    <2>3. <<b[key]>> # <<c[key]>>
      OBVIOUS
    <2>4. QED
      BY <2>1, <2>2, <2>3
  <1>2. ASSUME NEW d \in 0..(Height - 1 - 1), d + 1 \in S
        PROVE  d \in S
    <2>1. d \in 0..(Height - 2) /\ d \in Depths
      BY HeightIs DEF Depths
    <2>2. HashOn(b, key, d + 1) # HashOn(c, key, d + 1)
      BY <1>2
    <2>3. /\ HashOn(b, key, d) = Pair(HashOn(b, key, d + 1),
                                      HashBeside(b, key, d + 1), d, key)
          /\ HashOn(c, key, d) = Pair(HashOn(c, key, d + 1),
                                      HashBeside(c, key, d + 1), d, key)
      BY <2>1, PairOnPath
    <2>4. HashOn(b, key, d) # HashOn(c, key, d)
      BY ONLY <2>2, <2>3, PairIsKnown
    <2>5. QED
      BY <2>1, <2>4
  <1> HIDE DEF S
  <1>3. 0..(Height - 1) \subseteq S
    BY <1>1, <1>2, HeightIs, ToZero
  <1>4. QED
    BY <1>3 DEF S, Depths

LEMMA SiblingsAre ==
  ASSUME NEW c, NEW key, NEW d \in 1..(Height - 1)
  PROVE  TrueSiblings(c, key)[d] = HashBeside(c, key, d)
  BY DEF TrueSiblings, HashBeside

-----------------------------------------------------------------------------
(***************************************************************************)
(* The branch from a leaf to the root.                                     *)
(***************************************************************************)
Climbs(leaf, places, siblings, key, n, up) ==
    up = [d \in n..(Height - 1) |->
             IF d = Height - 1 THEN leaf
             ELSE NewNode(Pair(up[d + 1].hash, siblings[d + 1], d, key),
                          Pair(up[d + 1].hash, siblings[d + 1], d, key),
                          places[d])]

LEMMA ClimbExists ==
  ASSUME NEW leaf, NEW places, NEW siblings, NEW key
  PROVE  \E up : Climbs(leaf, places, siblings, key, 0, up)
  <1> DEFINE S == {n \in Depths :
                      \E up : Climbs(leaf, places, siblings, key, n, up)}
  <1>1. Height - 1 \in S
    <2> DEFINE up == [d \in (Height - 1)..(Height - 1) |-> leaf]
    <2>1. Climbs(leaf, places, siblings, key, Height - 1, up)
      BY HeightIs DEF Climbs
    <2>2. QED
      BY <2>1, HeightIs DEF Depths
  <1>2. ASSUME NEW n \in 0..(Height - 1 - 1), n + 1 \in S
        PROVE  n \in S
    <2>1. PICK g : Climbs(leaf, places, siblings, key, n + 1, g)
      BY <1>2
    <2> DEFINE NodeFrom(f, d) ==
                   IF d = Height - 1 THEN leaf
                   ELSE NewNode(Pair(f[d + 1].hash, siblings[d + 1], d, key),
                                Pair(f[d + 1].hash, siblings[d + 1], d, key),
                                places[d])
               up == [d \in n..(Height - 1) |->
                         IF d = n THEN NodeFrom(g, n) ELSE g[d]]
    <2>2. \A d \in (n + 1)..(Height - 1) : g[d] = NodeFrom(g, d)
      BY <2>1 DEF Climbs
    <2>3. ASSUME NEW d \in n..(Height - 1)
          PROVE  up[d] = NodeFrom(up, d)
      <3>1. d # Height - 1 => d + 1 \in n..(Height - 1) /\ d + 1 # n
        BY HeightIs
      <3>2. d # Height - 1 => up[d + 1] = g[d + 1]
        BY <3>1
      <3> HIDE DEF up
      <3>3. NodeFrom(up, d) = NodeFrom(g, d)
        BY <3>2
      <3> HIDE DEF NodeFrom
      <3>4. d = n => up[d] = NodeFrom(g, n)
        BY DEF up
      <3>5. d # n => up[d] = g[d] /\ d \in (n + 1)..(Height - 1)
        BY HeightIs DEF up
      <3>6. QED
        BY <2>2, <3>3, <3>4, <3>5
    <2>4. up = [d \in n..(Height - 1) |-> up[d]]
      OBVIOUS
    <2> HIDE DEF up
    <2>5. Climbs(leaf, places, siblings, key, n, up)
      BY <2>3, <2>4 DEF Climbs
    <2>6. QED
      BY <2>5, HeightIs DEF Depths
  <1> HIDE DEF S
  <1>3. 0..(Height - 1) \subseteq S
    BY <1>1, <1>2, HeightIs, ToZero
  <1>4. QED
    BY <1>3, HeightIs DEF S

IsBranch(up, value, key, siblings) ==
    /\ up = [d \in Depths |-> up[d]]
    /\ up[Height - 1] = NewNode(<<value>>, <<value>>, key)
    /\ \A d \in 0..(Height - 2) :
          up[d] = NewNode(Pair(up[d + 1].hash, siblings[d + 1], d, key),
                          Pair(up[d + 1].hash, siblings[d + 1], d, key),
                          NodeKey(key, d))

LEMMA ClimbIsBranch ==
  ASSUME NEW value, NEW places, NEW siblings, NEW key, NEW up,
         Climbs(NewNode(<<value>>, <<value>>, key), places, siblings, key, 0,
                up),
         \A d \in Depths : places[d] = NodeKey(key, d)
  PROVE  IsBranch(up, value, key, siblings)
  <1>1. up = [d \in Depths |-> up[d]]
    BY DEF Climbs, Depths
  <1>2. up[Height - 1] = NewNode(<<value>>, <<value>>, key)
    BY HeightIs DEF Climbs
  <1>3. ASSUME NEW d \in 0..(Height - 2)
        PROVE  up[d] = NewNode(Pair(up[d + 1].hash, siblings[d + 1], d, key),
                               Pair(up[d + 1].hash, siblings[d + 1], d, key),
                               NodeKey(key, d))
    <2>1. d \in 0..(Height - 1) /\ d # Height - 1 /\ d \in Depths
      BY HeightIs DEF Depths
    <2>2. QED
      BY <2>1 DEF Climbs
  <1>4. QED
    BY <1>1, <1>2, <1>3 DEF IsBranch

LEMMA BranchIs ==
  ASSUME NEW value, NEW key, NEW siblings
  PROVE  IsBranch(Branch(NewNode(Hash(<<value>>), <<value>>, key), key,
                         siblings),
                  value, key, siblings)
  <1> DEFINE leaf == NewNode(<<value>>, <<value>>, key)
             places == [d \in Depths |-> NodeKey(key, d)]
  <1> HIDE DEF leaf
  <1>1. Branch(leaf, key, siblings)
            = CHOOSE up : Climbs(leaf, places, siblings, key, 0, up)
    <2>1. \A up : Climbs(leaf, places, siblings, key, 0, up) <=>
             up = [depth \in 0..(Height - 1) |->
                      IF depth = Height - 1 THEN leaf
                      ELSE LET pair == Pair(up[depth + 1].hash,
                                            siblings[depth + 1], depth, key)
                           IN  NewNode(Hash(pair), pair, NodeKey(key, depth))]
      BY DEF Climbs, Depths, Hash
    <2> HIDE DEF places
    <2>2. QED
      BY <2>1 DEF Branch
  <1>2. Climbs(leaf, places, siblings, key, 0, Branch(leaf, key, siblings))
    BY <1>1, ClimbExists
  <1>3. \A d \in Depths : places[d] = NodeKey(key, d)
    OBVIOUS
  <1> HIDE DEF places
  <1>4. QED
    BY <1>2, <1>3, ClimbIsBranch DEF leaf, Hash


TrueNode(c, key, d) ==
    NewNode(HashOn(c, key, d), HashOn(c, key, d), NodeKey(key, d))

LEMMA NodeFields ==
  ASSUME NEW h, NEW v, NEW k
  PROVE  /\ NewNode(h, v, k).hash = h
         /\ NewNode(h, v, k).value = v
         /\ NewNode(h, v, k).key = k
  BY DEF NewNode

LEMMA TrueNodeFields ==
  ASSUME NEW c, NEW key, NEW d
  PROVE  /\ TrueNode(c, key, d).hash = HashOn(c, key, d)
         /\ TrueNode(c, key, d).value = HashOn(c, key, d)
         /\ TrueNode(c, key, d).key = NodeKey(key, d)
  BY NodeFields DEF TrueNode

LEMMA BranchHash ==
  ASSUME NEW up, NEW value, NEW key, NEW siblings,
         IsBranch(up, value, key, siblings), NEW d \in 0..(Height - 2)
  PROVE  /\ up[d].hash = Pair(up[d + 1].hash, siblings[d + 1], d, key)
         /\ up[d] = NewNode(up[d].hash, up[d].hash, NodeKey(key, d))
  <1> DEFINE pair == Pair(up[d + 1].hash, siblings[d + 1], d, key)
  <1>1. up[d] = NewNode(pair, pair, NodeKey(key, d))
    BY DEF IsBranch
  <1> HIDE DEF pair
  <1>2. up[d].hash = pair
    BY <1>1, NodeFields
  <1>3. QED
    BY <1>1, <1>2 DEF pair

\* A branch that leads to the root of a tree is of that tree.
LEMMA BranchLeads ==
  ASSUME NEW c, NEW key \in Keys, NEW value, NEW siblings, NEW up,
         IsBranch(up, value, key, siblings), up[0].hash = Commitment(c)
  PROVE  /\ value = c[key]
         /\ \A d \in Depths : up[d] = TrueNode(c, key, d)
         /\ \A d \in 1..(Height - 1) : siblings[d] = HashBeside(c, key, d)
  <1> DEFINE S == {d \in Depths : up[d].hash = HashOn(c, key, d)}
  <1>1. 0 \in S
    BY HeightIs, LeafNode DEF Depths, HashOn, Commitment
  <1>2. ASSUME NEW d \in 0..(Height - 2), up[d].hash = HashOn(c, key, d)
        PROVE  /\ up[d + 1].hash = HashOn(c, key, d + 1)
               /\ siblings[d + 1] = HashBeside(c, key, d + 1)
    <2>1. up[d].hash = Pair(up[d + 1].hash, siblings[d + 1], d, key)
      BY BranchHash
    <2>2. HashOn(c, key, d) = Pair(HashOn(c, key, d + 1),
                                   HashBeside(c, key, d + 1), d, key)
      BY PairOnPath
    <2>3. Pair(up[d + 1].hash, siblings[d + 1], d, key)
              = Pair(HashOn(c, key, d + 1), HashBeside(c, key, d + 1), d, key)
      BY <1>2, <2>1, <2>2
    <2>4. QED
      BY ONLY <2>3, PairIsKnown
  <1>3. ASSUME NEW d \in 0..(Height - 1 - 1), d \in S
        PROVE  d + 1 \in S
    <2>1. d \in 0..(Height - 2) /\ d + 1 \in Depths
      BY HeightIs DEF Depths
    <2>2. QED
      BY <1>2, <1>3, <2>1
  <1> HIDE DEF S
  <1>4. 0..(Height - 1) \subseteq S
    BY <1>1, <1>3, HeightIs, FromZero
  <1>5. \A d \in Depths : up[d].hash = HashOn(c, key, d)
    BY <1>4 DEF S, Depths
  <1>6. ASSUME NEW d \in 1..(Height - 1)
        PROVE  siblings[d] = HashBeside(c, key, d)
    <2>1. d - 1 \in 0..(Height - 2) /\ d - 1 \in Depths /\ (d - 1) + 1 = d
      BY HeightIs DEF Depths
    <2>2. QED
      BY <1>2, <1>5, <2>1
  <1>7. value = c[key]
    <2>1. up[Height - 1].hash = <<value>>
      BY NodeFields DEF IsBranch
    <2>2. HashOn(c, key, Height - 1) = <<c[key]>>
      BY LeafNode, LeafHash DEF HashOn
    <2>3. <<value>> = <<c[key]>>
      BY <1>5, <2>1, <2>2, HeightIs DEF Depths
    <2>4. <<value>>[1] = <<c[key]>>[1]
      BY <2>3
    <2>5. QED
      BY <2>4
  <1>8. ASSUME NEW d \in Depths
        PROVE  up[d] = TrueNode(c, key, d)
    <2>1. CASE d = Height - 1
      <3>1. NodeKey(key, Height - 1) = key
        BY LeafNode
      <3>2. HashOn(c, key, Height - 1) = <<value>>
        BY <1>7, LeafNode, LeafHash DEF HashOn
      <3>3. QED
        BY <2>1, <3>1, <3>2 DEF IsBranch, TrueNode
    <2>2. CASE d # Height - 1
      <3>1. d \in 0..(Height - 2)
        BY <2>2, HeightIs DEF Depths
      <3>2. up[d] = NewNode(up[d].hash, up[d].hash, NodeKey(key, d))
        BY <3>1, BranchHash
      <3>3. QED
        BY <1>5, <3>2 DEF TrueNode
    <2>3. QED
      BY <2>1, <2>2
  <1>9. QED
    BY <1>6, <1>7, <1>8

\* And one made of a tree's siblings leads to its root.
LEMMA BranchOfTree ==
  ASSUME NEW c, NEW key \in Keys, NEW siblings, NEW up,
         IsBranch(up, c[key], key, siblings),
         \A d \in 1..(Height - 1) : siblings[d] = HashBeside(c, key, d)
  PROVE  /\ \A d \in Depths : up[d] = TrueNode(c, key, d)
         /\ up[0].hash = Commitment(c)
  <1> DEFINE S == {d \in Depths : up[d] = TrueNode(c, key, d)}
  <1>1. Height - 1 \in S
    <2>1. HashOn(c, key, Height - 1) = <<c[key]>>
      BY LeafNode, LeafHash DEF HashOn
    <2>2. QED
      BY <2>1, HeightIs, LeafNode DEF Depths, IsBranch, TrueNode
  <1>2. ASSUME NEW d \in 0..(Height - 1 - 1), d + 1 \in S
        PROVE  d \in S
    <2>1. d \in 0..(Height - 2) /\ d \in Depths /\ d + 1 \in 1..(Height - 1)
      BY HeightIs DEF Depths
    <2>2. up[d + 1].hash = HashOn(c, key, d + 1)
      <3>1. up[d + 1] = TrueNode(c, key, d + 1)
        BY <1>2
      <3>2. QED
        BY <3>1, TrueNodeFields
    <2>3. siblings[d + 1] = HashBeside(c, key, d + 1)
      BY <2>1
    <2>4. HashOn(c, key, d) = Pair(up[d + 1].hash, siblings[d + 1], d, key)
      BY <2>1, <2>2, <2>3, PairOnPath
    <2>5. up[d] = NewNode(HashOn(c, key, d), HashOn(c, key, d),
                          NodeKey(key, d))
      BY <2>1, <2>4 DEF IsBranch
    <2>6. QED
      BY <2>1, <2>5 DEF TrueNode
  <1> HIDE DEF S
  <1>3. 0..(Height - 1) \subseteq S
    BY <1>1, <1>2, HeightIs, ToZero
  <1>4. \A d \in Depths : up[d] = TrueNode(c, key, d)
    BY <1>3 DEF S, Depths
  <1>5. up[0].hash = HashOn(c, key, 0)
    <2>1. up[0] = TrueNode(c, key, 0)
      BY <1>4, HeightIs DEF Depths
    <2>2. QED
      BY <2>1, TrueNodeFields
  <1>6. QED
    BY <1>4, <1>5, LeafNode DEF HashOn, Commitment

LEMMA UpdatedIs ==
  ASSUME NEW key \in Keys, NEW value, NEW path, Len(path) = Height,
         \A d \in Depths : path[d + 1].key = NodeKey(key, d)
  PROVE  IsBranch(UpdatedPath(path, key, value), value, key,
                  [d \in 1..(Height - 1) |->
                      SiblingHash(path[d], d - 1, key)])
  <1> DEFINE siblings == [d \in 1..(Height - 1) |->
                             SiblingHash(path[d], d - 1, key)]
             places == [d \in Depths |-> path[d + 1].key]
             leaf == NewNode(<<value>>, <<value>>, path[Height].key)
  <1>1. \A d \in 0..(Height - 2) :
            siblings[d + 1] = SiblingHash(path[d + 1], d, key)
    BY HeightIs
  <1>2. \A d \in Depths : places[d] = path[d + 1].key
    OBVIOUS
  <1> HIDE DEF siblings, places, leaf
  <1>3. UpdatedPath(path, key, value)
            = CHOOSE up : Climbs(leaf, places, siblings, key, 0, up)
    <2>1. ASSUME NEW up
          PROVE  Climbs(leaf, places, siblings, key, 0, up) <=>
             up = [depth \in 0..(Height - 1) |->
                      IF depth = Height - 1 THEN leaf
                      ELSE LET pair == Pair(up[depth + 1].hash,
                                            SiblingHash(path[depth + 1],
                                                        depth, key),
                                            depth, key)
                           IN  NewNode(Hash(pair), pair, path[depth + 1].key)]
      <3>1. ASSUME NEW d \in 0..(Height - 1)
            PROVE  (IF d = Height - 1 THEN leaf
                    ELSE NewNode(Pair(up[d + 1].hash, siblings[d + 1], d, key),
                                 Pair(up[d + 1].hash, siblings[d + 1], d, key),
                                 places[d]))
                   = (IF d = Height - 1 THEN leaf
                      ELSE LET pair == Pair(up[d + 1].hash,
                                            SiblingHash(path[d + 1], d, key),
                                            d, key)
                           IN  NewNode(Hash(pair), pair, path[d + 1].key))
        <4>1. d # Height - 1 => d \in 0..(Height - 2) /\ d \in Depths
          BY HeightIs DEF Depths
        <4>2. QED
          BY <1>1, <1>2, <4>1 DEF Hash
      <3>2. QED
        BY <3>1 DEF Climbs
    <2>2. Height - 1 = Len(path) - 1 /\ path[Len(path)].key = path[Height].key
      OBVIOUS
    <2>3. leaf = NewNode(Hash(<<value>>), <<value>>, path[Len(path)].key)
      BY DEF leaf, Hash
    <2>4. ASSUME NEW up
          PROVE  Climbs(leaf, places, siblings, key, 0, up) <=>
             up = [depth \in 0..(Len(path) - 1) |->
                      IF depth = Len(path) - 1
                      THEN NewNode(Hash(<<value>>), <<value>>,
                                   path[Len(path)].key)
                      ELSE LET pair == Pair(up[depth + 1].hash,
                                            SiblingHash(path[depth + 1],
                                                        depth, key),
                                            depth, key)
                           IN  NewNode(Hash(pair), pair, path[depth + 1].key)]
      BY <2>1, <2>2, <2>3
    <2>5. QED
      BY ONLY ZenonT(40), <2>4 DEF UpdatedPath
  <1>4. Climbs(leaf, places, siblings, key, 0, UpdatedPath(path, key, value))
    BY <1>3, ClimbExists
  <1>5. leaf = NewNode(<<value>>, <<value>>, key)
    <2>1. Height - 1 \in Depths /\ (Height - 1) + 1 = Height
      BY HeightIs DEF Depths
    <2>2. path[Height].key = NodeKey(key, Height - 1)
      BY <2>1
    <2>3. QED
      BY <2>2, LeafNode DEF leaf
  <1>6. \A d \in Depths : places[d] = NodeKey(key, d)
    BY <1>2
  <1>7. QED
    BY <1>4, <1>5, <1>6, ClimbIsBranch DEF siblings


-----------------------------------------------------------------------------
(***************************************************************************)
(* The stored nodes on the way to a leaf.                                  *)
(***************************************************************************)
\* The identifier of the child on the way, of the node of a path at a place.
NextId(node, key, depth) ==
    NodeID(ChildHash(node, depth - 1, key), NodeKey(key, depth))

Continues(store, node, key, depth) ==
    IsInner(node) /\ NextId(node, key, depth) \in DOMAIN store

StoredNode(store, id) == NewNode(id.hash, store[id], id.key)

Extended(store, key, above, depth) ==
    IF Len(above) = depth /\ Continues(store, Last(above), key, depth)
    THEN Append(above, StoredNode(store, NextId(Last(above), key, depth)))
    ELSE above

Walks(store, top, key, n, path) ==
    path = [d \in 0..n |-> IF d = 0 THEN <<top>>
                           ELSE Extended(store, key, path[d - 1], d)]

LEMMA WalkExists ==
  ASSUME NEW store, NEW top, NEW key
  PROVE  \E path : Walks(store, top, key, Height - 1, path)
  <1> DEFINE S == {n \in Depths : \E path : Walks(store, top, key, n, path)}
  <1>1. 0 \in S
    <2> DEFINE path == [d \in 0..0 |-> <<top>>]
    <2>1. Walks(store, top, key, 0, path)
      BY DEF Walks
    <2>2. QED
      BY <2>1, HeightIs DEF Depths
  <1>2. ASSUME NEW n \in 0..(Height - 1 - 1), n \in S
        PROVE  n + 1 \in S
    <2>1. PICK g : Walks(store, top, key, n, g)
      BY <1>2
    <2> DEFINE NodesTo(f, d) == IF d = 0 THEN <<top>>
                                ELSE Extended(store, key, f[d - 1], d)
               path == [d \in 0..(n + 1) |->
                           IF d = n + 1 THEN NodesTo(g, n + 1) ELSE g[d]]
    <2>2. \A d \in 0..n : g[d] = NodesTo(g, d)
      BY <2>1 DEF Walks
    <2>3. ASSUME NEW d \in 0..(n + 1)
          PROVE  path[d] = NodesTo(path, d)
      <3>1. d # 0 => d - 1 \in 0..(n + 1) /\ d - 1 # n + 1
        OBVIOUS
      <3>2. d # 0 => path[d - 1] = g[d - 1]
        BY <3>1
      <3> HIDE DEF path
      <3>3. NodesTo(path, d) = NodesTo(g, d)
        BY <3>2
      <3> HIDE DEF NodesTo
      <3>4. d = n + 1 => path[d] = NodesTo(g, n + 1)
        BY DEF path
      <3>5. d # n + 1 => path[d] = g[d] /\ d \in 0..n
        BY DEF path
      <3>6. QED
        BY <2>2, <3>3, <3>4, <3>5
    <2>4. path = [d \in 0..(n + 1) |-> path[d]]
      OBVIOUS
    <2> HIDE DEF path
    <2>5. Walks(store, top, key, n + 1, path)
      BY <2>3, <2>4 DEF Walks
    <2>6. QED
      BY <2>5, HeightIs DEF Depths
  <1> HIDE DEF S
  <1>3. 0..(Height - 1) \subseteq S
    BY <1>1, <1>2, HeightIs, FromZero
  <1>4. QED
    BY <1>3, HeightIs DEF S

\* The nodes that a path is made of.
Nodes(store, top) == {top} \cup {StoredNode(store, id) : id \in DOMAIN store}

IsPath(p, store, top, key, n) ==
    /\ p \in Seq(Nodes(store, top))
    /\ Len(p) \in 1..(n + 1) /\ p[1] = top
    /\ \A i \in 1..(Len(p) - 1) :
          /\ Continues(store, p[i], key, i)
          /\ p[i + 1] = StoredNode(store, NextId(p[i], key, i))
    /\ Len(p) # n + 1 => ~Continues(store, p[Len(p)], key, Len(p))

LEMMA PathGrows ==
  ASSUME NEW store, NEW top, NEW key, NEW n \in Nat, NEW p,
         IsPath(p, store, top, key, n)
  PROVE  IsPath(Extended(store, key, p, n + 1), store, top, key, n + 1)
  <1> DEFINE N == Nodes(store, top)
             id == NextId(p[Len(p)], key, n + 1)
             q == Append(p, StoredNode(store, id))
  <1>1. p \in Seq(N) /\ Len(p) \in Nat /\ Len(p) \in 1..(n + 1)
    BY DEF IsPath
  <1>2. Last(p) = p[Len(p)]
    BY DEF Last
  <1>3. CASE Len(p) = n + 1 /\ Continues(store, p[Len(p)], key, n + 1)
    <2>1. Extended(store, key, p, n + 1) = q
      BY <1>2, <1>3 DEF Extended
    <2>2. StoredNode(store, id) \in N
      BY <1>3 DEF Continues, Nodes
    <2> HIDE DEF N
    <2>3. /\ q \in Seq(N) /\ Len(q) = n + 2
          /\ \A i \in 1..(n + 1) : q[i] = p[i]
          /\ q[n + 2] = StoredNode(store, id)
      BY <1>1, <1>3, <2>2, AppendProperties
    <2> HIDE DEF q
    <2>4. ASSUME NEW i \in 1..(Len(q) - 1)
          PROVE  /\ Continues(store, q[i], key, i)
                 /\ q[i + 1] = StoredNode(store, NextId(q[i], key, i))
      <3>1. CASE i = n + 1
        BY <1>3, <2>3, <3>1
      <3>2. CASE i # n + 1
        <4>1. i \in 1..(Len(p) - 1) /\ q[i] = p[i] /\ q[i + 1] = p[i + 1]
          BY <1>3, <2>3, <3>2
        <4>2. QED
          BY <4>1 DEF IsPath
      <3>3. QED
        BY <3>1, <3>2
    <2>5. q[1] = top
      BY <1>1, <2>3 DEF IsPath
    <2>6. IsPath(q, store, top, key, n + 1)
      BY <2>3, <2>4, <2>5 DEF IsPath, N
    <2>7. QED
      BY <2>1, <2>6
  <1>4. CASE ~(Len(p) = n + 1 /\ Continues(store, p[Len(p)], key, n + 1))
    <2>1. Extended(store, key, p, n + 1) = p
      BY <1>2, <1>4 DEF Extended
    <2>2. ~Continues(store, p[Len(p)], key, Len(p))
      BY <1>4 DEF IsPath
    <2>3. Len(p) \in 1..(n + 1 + 1)
      BY <1>1
    <2>4. IsPath(p, store, top, key, n + 1)
      BY <2>2, <2>3 DEF IsPath
    <2>5. QED
      BY <2>1, <2>4
  <1>5. QED
    BY <1>3, <1>4

LEMMA PathIs ==
  ASSUME NEW store, NEW top, NEW key
  PROVE  IsPath(NodesInPath(store, top, key), store, top, key, Height - 1)
  <1>1. NodesInPath(store, top, key)
            = (CHOOSE path : Walks(store, top, key, Height - 1, path))
                  [Height - 1]
    <2>1. ASSUME NEW path
          PROVE  Walks(store, top, key, Height - 1, path) <=>
            path = [depth \in 0..(Height - 1) |->
                IF depth = 0 THEN <<top>>
                ELSE LET above == path[depth - 1]
                         node  == Last(above)
                         id    == NodeID(ChildHash(node, depth - 1, key),
                                         NodeKey(key, depth))
                     IN  IF /\ Len(above) = depth
                            /\ IsInner(node)
                            /\ id \in DOMAIN store
                         THEN Append(above, NewNode(id.hash, store[id], id.key))
                         ELSE above]
      BY DEF Walks, Extended, Continues, StoredNode, NextId
    <2>2. QED
      BY ONLY ZenonT(40), <2>1 DEF NodesInPath
  <1> DEFINE path == CHOOSE path : Walks(store, top, key, Height - 1, path)
  <1>2. Walks(store, top, key, Height - 1, path)
    BY WalkExists
  <1> HIDE DEF path
  <1> DEFINE S == {d \in Depths : IsPath(path[d], store, top, key, d)}
  <1>3. 0 \in S
    <2>1. 0 \in Depths /\ path[0] = <<top>>
      BY <1>2, HeightIs DEF Walks, Depths
    <2>2. IsPath(<<top>>, store, top, key, 0)
      <3>1. top \in Nodes(store, top)
        BY DEF Nodes
      <3>2. <<top>> \in Seq(Nodes(store, top)) /\ Len(<<top>>) = 1
        BY <3>1
      <3>3. QED
        BY <3>2 DEF IsPath
    <2>3. QED
      BY <2>1, <2>2
  <1>4. ASSUME NEW d \in 0..(Height - 1 - 1), d \in S
        PROVE  d + 1 \in S
    <2>1. /\ d + 1 \in 0..(Height - 1) /\ d + 1 \in Depths /\ d + 1 # 0
          /\ (d + 1) - 1 = d
      BY HeightIs DEF Depths
    <2>2. path[d + 1] = Extended(store, key, path[d], d + 1)
      BY <1>2, <2>1 DEF Walks
    <2>3. IsPath(path[d], store, top, key, d)
      BY <1>4
    <2>4. IsPath(path[d + 1], store, top, key, d + 1)
      BY <2>2, <2>3, PathGrows
    <2>5. QED
      BY <2>1, <2>4
  <1> HIDE DEF S
  <1>5. 0..(Height - 1) \subseteq S
    BY <1>3, <1>4, HeightIs, FromZero
  <1>6. IsPath(path[Height - 1], store, top, key, Height - 1)
    BY <1>5, HeightIs DEF S
  <1>7. QED
    BY <1>1, <1>6 DEF path


-----------------------------------------------------------------------------
(***************************************************************************)
(* The path of a leaf in the store of a tree.                              *)
(***************************************************************************)
NodeIs(node, store, c, d, k) ==
    /\ node.hash = Levels(c)[d][k]
    /\ node.key = k
    /\ node.value = IF Open(store, c, d, k) THEN Levels(c)[d][k]
                                            ELSE Placeholder

HeldOn(store, c, key, d) == Held(store, c, d, NodeKey(key, d))

OpenOn(store, c, key, d) == Open(store, c, d, NodeKey(key, d))

PathOf(p, store, c, key) ==
    /\ Len(p) \in 1..Height /\ DOMAIN p = 1..Len(p)
    /\ \A i \in 1..Len(p) : NodeIs(p[i], store, c, i - 1, NodeKey(key, i - 1))
    /\ \A i \in 1..(Len(p) - 1) :
          OpenOn(store, c, key, i - 1) /\ HeldOn(store, c, key, i)
    /\ Len(p) # Height => ~(/\ OpenOn(store, c, key, Len(p) - 1)
                            /\ HeldOn(store, c, key, Len(p)))

LEMMA HashIsNoPlaceholder ==
  ASSUME NEW c, NEW d \in Depths, NEW k \in Places(d)
  PROVE  /\ Levels(c)[d][k] # Placeholder
         /\ Len(Levels(c)[d][k]) = IF d = Height - 1 THEN 1 ELSE 2
  <1>1. CASE d = Height - 1
    <2>1. Levels(c)[d][k] = <<c[k]>>
      BY <1>1, LeafHash, LeafPlaces
    <2>2. Len(<<c[k]>>) = 1 /\ Len(Placeholder) = 0
      BY DEF Placeholder
    <2>3. QED
      BY <1>1, <2>1, <2>2
  <1>2. CASE d # Height - 1
    <2>1. d \in 0..(Height - 2)
      BY <1>2, HeightIs DEF Depths
    <2>2. Levels(c)[d][k]
              = <<Levels(c)[d + 1][2 * k], Levels(c)[d + 1][2 * k + 1]>>
      BY <2>1, InnerHash
    <2>3. /\ Len(<<Levels(c)[d + 1][2 * k], Levels(c)[d + 1][2 * k + 1]>>) = 2
          /\ Len(Placeholder) = 0
      BY DEF Placeholder
    <2>4. QED
      BY <1>2, <2>2, <2>3
  <1>3. QED
    BY <1>1, <1>2

LEMMA IdFields ==
  ASSUME NEW c, NEW d, NEW k
  PROVE  IdAt(c, d, k).hash = Levels(c)[d][k] /\ IdAt(c, d, k).key = k
  BY DEF IdAt, NodeID

LEMMA StoredNodeIs ==
  ASSUME NEW store, StoreIsTrue(store), NEW c, NEW d, NEW k,
         Held(store, c, d, k)
  PROVE  NodeIs(StoredNode(store, IdAt(c, d, k)), store, c, d, k)
  <1>1. IdAt(c, d, k) \in DOMAIN store
    BY DEF Held
  <1>2. \/ store[IdAt(c, d, k)] = Placeholder
        \/ store[IdAt(c, d, k)] = Levels(c)[d][k]
    BY <1>1, IdFields DEF StoreIsTrue, Hash
  <1>3. QED
    BY <1>1, <1>2, IdFields, NodeFields DEF NodeIs, Open, Held, StoredNode

LEMMA TopHash ==
  ASSUME NEW c
  PROVE  /\ Commitment(c) = Levels(c)[0][0] /\ Commitment(c) # NoHash
         /\ IdAt(c, 0, 0) = NodeID(Commitment(c), 0)
  BY HashIsNoPlaceholder, HeightIs, TopPlace
     DEF Commitment, NoHash, Placeholder, IdAt, Depths

LEMMA TopIs ==
  ASSUME NEW store, StoreIsTrue(store), NEW c,
         NEW top, top = Loaded(store, Commitment(c))
  PROVE  NodeIs(top, store, c, 0, 0)
  <1> DEFINE id == IdAt(c, 0, 0)
  <1>1. top = NewNode(Commitment(c),
                      IF id \in DOMAIN store THEN store[id] ELSE Placeholder,
                      0)
    BY TopHash DEF Loaded
  <1>2. id \in DOMAIN store => \/ store[id] = Placeholder
                               \/ store[id] = Levels(c)[0][0]
    BY IdFields DEF StoreIsTrue, Hash
  <1> HIDE DEF id
  <1>3. /\ top.hash = Commitment(c) /\ top.key = 0
        /\ top.value = IF id \in DOMAIN store THEN store[id] ELSE Placeholder
    BY <1>1, NodeFields
  <1>4. QED
    BY <1>2, <1>3, TopHash DEF NodeIs, Open, Held, id

LEMMA InnerNode ==
  ASSUME NEW node, NEW store, NEW c, NEW d \in Depths, NEW k \in Places(d),
         NodeIs(node, store, c, d, k)
  PROVE  IsInner(node) <=> d # Height - 1 /\ Open(store, c, d, k)
  <1>1. Len(Placeholder) = 0
    BY DEF Placeholder
  <1>2. Len(Levels(c)[d][k]) = IF d = Height - 1 THEN 1 ELSE 2
    BY HashIsNoPlaceholder
  <1>3. CASE Open(store, c, d, k)
    <2>1. node.value = Levels(c)[d][k]
      BY <1>3 DEF NodeIs
    <2>2. Len(node.value) = IF d = Height - 1 THEN 1 ELSE 2
      BY ONLY <1>2, <2>1
    <2>3. QED
      BY ONLY <1>3, <2>2 DEF IsInner
  <1>4. CASE ~Open(store, c, d, k)
    <2>1. node.value = Placeholder
      BY <1>4 DEF NodeIs
    <2>2. QED
      BY <1>1, <1>4, <2>1 DEF IsInner
  <1>5. QED
    BY <1>3, <1>4

LEMMA ChildrenAre ==
  ASSUME NEW node, NEW store, NEW c, NEW key \in Keys,
         NEW d \in 0..(Height - 2),
         NodeIs(node, store, c, d, NodeKey(key, d)), OpenOn(store, c, key, d)
  PROVE  /\ NextId(node, key, d + 1) = IdAt(c, d + 1, NodeKey(key, d + 1))
         /\ SiblingHash(node, d, key) = HashBeside(c, key, d + 1)
  <1>1. node.value = HashOn(c, key, d)
    BY DEF NodeIs, OpenOn, HashOn
  <1>2. node.value = Pair(HashOn(c, key, d + 1), HashBeside(c, key, d + 1),
                          d, key)
    BY <1>1, PairOnPath
  <1>3. /\ ChildHash(node, d, key) = HashOn(c, key, d + 1)
        /\ SiblingHash(node, d, key) = HashBeside(c, key, d + 1)
    BY <1>2 DEF Pair, ChildHash, SiblingHash
  <1>4. (d + 1) - 1 = d
    OBVIOUS
  <1>5. QED
    BY <1>3, <1>4 DEF NextId, IdAt, HashOn

LEMMA PathInTree ==
  ASSUME NEW store, StoreIsTrue(store), NEW c,
         NEW top, top = Loaded(store, Commitment(c)), NEW key \in Keys
  PROVE  PathOf(NodesInPath(store, top, key), store, c, key)
  <1> DEFINE p == NodesInPath(store, top, key)
             n == Len(p)
             Right(i) == NodeIs(p[i], store, c, i - 1, NodeKey(key, i - 1))
  <1>1. IsPath(p, store, top, key, Height - 1)
    BY PathIs
  <1> HIDE DEF p
  <1>2. n \in 1..Height /\ n \in Nat /\ DOMAIN p = 1..n /\ p[1] = top
    BY <1>1, HeightIs DEF IsPath
  <1>3. \A i \in 1..(n - 1) :
            /\ Continues(store, p[i], key, i)
            /\ p[i + 1] = StoredNode(store, NextId(p[i], key, i))
    BY <1>1 DEF IsPath
  <1>4. n # Height => ~Continues(store, p[n], key, n)
    BY <1>1, HeightIs DEF IsPath
  <1> HIDE DEF n
  <1>5. ASSUME NEW i \in 1..n, Right(i), i # Height
        PROVE  /\ Continues(store, p[i], key, i) <=>
                      OpenOn(store, c, key, i - 1) /\ HeldOn(store, c, key, i)
               /\ OpenOn(store, c, key, i - 1) =>
                      NextId(p[i], key, i) = IdAt(c, i, NodeKey(key, i))
    <2>1. i - 1 \in 0..(Height - 2) /\ i - 1 \in Depths /\ (i - 1) + 1 = i
          /\ i - 1 # Height - 1
      BY <1>2, <1>5, HeightIs DEF Depths
    <2>2. NodeKey(key, i - 1) \in Places(i - 1)
      BY <2>1, NodePlaces
    <2>3. IsInner(p[i]) <=> OpenOn(store, c, key, i - 1)
      BY <1>5, <2>1, <2>2, InnerNode DEF OpenOn
    <2>4. OpenOn(store, c, key, i - 1) =>
              NextId(p[i], key, i) = IdAt(c, i, NodeKey(key, i))
      BY <1>5, <2>1, ChildrenAre
    <2>5. QED
      BY <2>3, <2>4 DEF Continues, HeldOn, Held
  <1> DEFINE S == {d \in 0..(n - 1) : Right(d + 1)}
  <1>6. 0 \in S
    <2>1. NodeIs(top, store, c, 0, 0)
      BY TopIs
    <2>2. 0 \in 0..(n - 1) /\ 0 + 1 = 1 /\ 1 - 1 = 0
      BY <1>2
    <2>3. QED
      BY <1>2, <2>1, <2>2, LeafNode
  <1>7. ASSUME NEW d \in 0..(n - 1 - 1), d \in S
        PROVE  d + 1 \in S
    <2>1. d + 1 \in 1..(n - 1) /\ d + 1 \in 1..n /\ d + 1 # Height
          /\ d + 1 \in 0..(n - 1) /\ (d + 1) + 1 - 1 = d + 1
      BY <1>2, HeightIs
    <2>2. Right(d + 1)
      BY <1>7
    <2> HIDE DEF S
    <2>3. Continues(store, p[d + 1], key, d + 1)
      BY <1>3, <2>1
    <2>4. /\ HeldOn(store, c, key, d + 1)
          /\ NextId(p[d + 1], key, d + 1)
                 = IdAt(c, d + 1, NodeKey(key, d + 1))
      BY <1>5, <2>1, <2>2, <2>3
    <2>5. p[(d + 1) + 1] = StoredNode(store, IdAt(c, d + 1, NodeKey(key, d + 1)))
      BY <1>3, <2>1, <2>4
    <2>6. NodeIs(p[(d + 1) + 1], store, c, d + 1, NodeKey(key, d + 1))
      BY <2>4, <2>5, StoredNodeIs DEF HeldOn
    <2>7. QED
      BY <2>1, <2>6 DEF S
  <1> HIDE DEF S
  <1>8. 0..(n - 1) \subseteq S
    BY <1>2, <1>6, <1>7, n - 1 \in Nat, FromZero
  <1>9. ASSUME NEW i \in 1..n
        PROVE  Right(i)
    <2>1. i - 1 \in 0..(n - 1) /\ (i - 1) + 1 = i
      BY <1>2
    <2>2. QED
      BY <1>8, <2>1 DEF S
  <1> HIDE DEF Right
  <1>10. ASSUME NEW i \in 1..(n - 1)
         PROVE  OpenOn(store, c, key, i - 1) /\ HeldOn(store, c, key, i)
    <2>1. i \in 1..n /\ i # Height
      BY <1>2, HeightIs
    <2>2. QED
      BY <1>3, <1>5, <1>9, <2>1
  <1>11. n # Height => ~(/\ OpenOn(store, c, key, n - 1)
                         /\ HeldOn(store, c, key, n))
    <2>1. n \in 1..n
      BY <1>2
    <2>2. QED
      BY <1>4, <1>5, <1>9, <2>1
  <1>12. QED
    BY <1>2, <1>9, <1>10, <1>11 DEF PathOf, Right, n, p

\* The node above one that is stored is stored with its value.
LEMMA ParentIsOpen ==
  ASSUME NEW store, NEW c, Connected(store, c), NEW d \in 0..(Height - 2),
         NEW k \in Places(d + 1), Held(store, c, d + 1, k)
  PROVE  Open(store, c, d, k \div 2)
  <1>1. d + 1 \in Depths /\ (d + 1) - 1 = d /\ d + 1 # 0
    BY HeightIs DEF Depths
  <1>2. PICK x \in Depths : \E i \in Places(x) :
           /\ IdAt(c, d + 1, k) = IdAt(c, x, i)
           /\ x # 0 => Open(store, c, x - 1, i \div 2)
    BY DEF Connected, Held
  <1>3. PICK i \in Places(x) :
           /\ IdAt(c, d + 1, k) = IdAt(c, x, i)
           /\ x # 0 => Open(store, c, x - 1, i \div 2)
    BY <1>2
  <1>4. x = d + 1 /\ i = k
    <2>1. PICK y \in Depths : y = d + 1
      BY <1>1
    <2>2. IdAt(c, y, k) = IdAt(c, x, i) /\ k \in Places(y)
      BY <1>3, <2>1
    <2>3. y = x /\ k = i
      BY ONLY <2>2, y \in Depths, x \in Depths, i \in Places(x), IdIsKnown
    <2>4. QED
      BY <2>1, <2>3
  <1>5. QED
    BY <1>1, <1>3, <1>4

\* A leaf that is stored can be reached.
LEMMA HeldPath ==
  ASSUME NEW store, NEW c, Connected(store, c), NEW key \in Keys,
         NEW e \in Depths, HeldOn(store, c, key, e)
  PROVE  \A d \in 0..(e - 1) :
             OpenOn(store, c, key, d) /\ HeldOn(store, c, key, d + 1)
  <1>1. ASSUME NEW d \in 0..(Height - 2), HeldOn(store, c, key, d + 1)
        PROVE  OpenOn(store, c, key, d)
    <2>1. d + 1 \in Depths
      BY HeightIs DEF Depths
    <2>2. NodeKey(key, d + 1) \in Places(d + 1)
      BY <2>1, NodePlaces
    <2>3. NodeKey(key, d) = NodeKey(key, d + 1) \div 2
      BY NextNode
    <2>4. Open(store, c, d, NodeKey(key, d + 1) \div 2)
      BY <1>1, <2>2, ParentIsOpen DEF HeldOn
    <2>5. QED
      BY <2>3, <2>4 DEF OpenOn
  <1> DEFINE S == {d \in 0..e : HeldOn(store, c, key, d)}
  <1>2. e \in Nat /\ e \in S /\ e <= Height - 1
    BY HeightIs DEF Depths
  <1>3. ASSUME NEW d \in 0..(e - 1), d + 1 \in S
        PROVE  d \in S
    <2>1. d \in 0..(Height - 2)
      BY <1>2, HeightIs
    <2>2. OpenOn(store, c, key, d)
      BY <1>1, <1>3, <2>1
    <2>3. QED
      BY <1>2, <2>2 DEF OpenOn, Open, HeldOn
  <1> HIDE DEF S
  <1>4. 0..e \subseteq S
    BY <1>2, <1>3, ToZero
  <1>5. ASSUME NEW d \in 0..(e - 1)
        PROVE  OpenOn(store, c, key, d) /\ HeldOn(store, c, key, d + 1)
    <2>1. d + 1 \in 0..e /\ d \in 0..(Height - 2)
      BY <1>2, HeightIs
    <2>2. QED
      BY <1>1, <1>4, <2>1 DEF S
  <1>6. QED
    BY <1>5

LEMMA FullPath ==
  ASSUME NEW store, NEW c, NEW key \in Keys, NEW p, PathOf(p, store, c, key),
         Connected(store, c), Held(store, c, Height - 1, key)
  PROVE  Len(p) = Height
  <1>1. Height - 1 \in Depths /\ HeldOn(store, c, key, Height - 1)
    BY HeightIs, LeafNode DEF Depths, HeldOn
  <1>2. ASSUME Len(p) # Height
        PROVE  FALSE
    <2>1. Len(p) - 1 \in 0..(Height - 1 - 1) /\ (Len(p) - 1) + 1 = Len(p)
      <3>1. Len(p) \in 1..Height
        BY DEF PathOf
      <3>2. QED
        BY <1>2, <3>1, HeightIs
    <2>2. OpenOn(store, c, key, Len(p) - 1) /\ HeldOn(store, c, key, Len(p))
      BY <1>1, <2>1, HeldPath
    <2>3. QED
      BY <1>2, <2>2 DEF PathOf
  <1>3. QED
    BY <1>2


-----------------------------------------------------------------------------
(***************************************************************************)
(* What is read of a tree.                                                 *)
(***************************************************************************)
LEMMA FullPathReads ==
  ASSUME NEW store, NEW top, NEW c, NEW key \in Keys,
         PathOf(NodesInPath(store, top, key), store, c, key),
         Len(NodesInPath(store, top, key)) = Height
  PROVE  /\ GetLeaf(store, top, key) = IF Open(store, c, Height - 1, key)
                                       THEN <<c[key]>> ELSE NoLeaf
         /\ HasProof(store, top, key, c[key])
         /\ GivenSiblings(store, top, key) = TrueSiblings(c, key)
  <1> DEFINE p == NodesInPath(store, top, key)
  <1>1. /\ Len(p) = Height /\ DOMAIN p = 1..Height
        /\ \A i \in 1..Height :
              NodeIs(p[i], store, c, i - 1, NodeKey(key, i - 1))
        /\ \A i \in 1..(Height - 1) : OpenOn(store, c, key, i - 1)
    BY DEF PathOf
  <1>2. Last(p) = p[Height]
    BY DEF Last
  <1>3. /\ GetLeaf(store, top, key) = Last(p).value
        /\ HasProof(store, top, key, c[key]) <=>
              Last(p).hash = Hash(<<c[key]>>)
    BY DEF GetLeaf, HasProof
  <1>4. GivenSiblings(store, top, key)
            = [d \in {n \in DOMAIN p : IsInner(p[n])} |->
                  SiblingHash(p[d], d - 1, key)]
    BY DEF GivenSiblings
  <1> HIDE DEF p
  <1>5. NodeIs(Last(p), store, c, Height - 1, key)
    BY <1>1, <1>2, HeightIs, LeafNode
  <1>6. Levels(c)[Height - 1][key] = <<c[key]>>
    BY LeafHash
  <1>7. GetLeaf(store, top, key) = IF Open(store, c, Height - 1, key)
                                   THEN <<c[key]>> ELSE NoLeaf
    BY <1>3, <1>5, <1>6 DEF NodeIs, NoLeaf
  <1>8. HasProof(store, top, key, c[key])
    BY <1>3, <1>5, <1>6 DEF NodeIs, Hash
  <1>9. ASSUME NEW i \in 1..Height
        PROVE  /\ IsInner(p[i]) <=> i # Height
               /\ i # Height =>
                     SiblingHash(p[i], i - 1, key) = HashBeside(c, key, i)
    <2>1. i - 1 \in Depths /\ (i - 1 = Height - 1 <=> i = Height)
          /\ (i # Height => i \in 1..(Height - 1))
          /\ (i # Height => i - 1 \in 0..(Height - 2)) /\ (i - 1) + 1 = i
      BY HeightIs DEF Depths
    <2>2. NodeKey(key, i - 1) \in Places(i - 1)
      BY <2>1, NodePlaces
    <2>3. NodeIs(p[i], store, c, i - 1, NodeKey(key, i - 1))
      BY <1>1
    <2>4. IsInner(p[i]) <=> i - 1 # Height - 1
                            /\ Open(store, c, i - 1, NodeKey(key, i - 1))
      BY <2>1, <2>2, <2>3, InnerNode
    <2>5. i # Height => Open(store, c, i - 1, NodeKey(key, i - 1))
      BY <1>1, <2>1 DEF OpenOn
    <2>6. i # Height => SiblingHash(p[i], i - 1, key) = HashBeside(c, key, i)
      BY <2>1, <2>3, <2>5, ChildrenAre DEF OpenOn
    <2>7. QED
      BY <2>1, <2>4, <2>5, <2>6
  <1>10. {n \in DOMAIN p : IsInner(p[n])} = 1..(Height - 1)
    BY <1>1, <1>9, HeightIs
  <1>11. GivenSiblings(store, top, key) = TrueSiblings(c, key)
    <2>1. GivenSiblings(store, top, key)
              = [d \in 1..(Height - 1) |-> SiblingHash(p[d], d - 1, key)]
      BY <1>4, <1>10
    <2>2. ASSUME NEW d \in 1..(Height - 1)
          PROVE  SiblingHash(p[d], d - 1, key)
                     = Levels(c)[d][SiblingKey(key, d)]
      <3>1. d \in 1..Height /\ d # Height
        BY HeightIs
      <3>2. QED
        BY <1>9, <3>1 DEF HashBeside
    <2>3. QED
      BY <2>1, <2>2 DEF TrueSiblings
  <1>12. QED
    BY <1>7, <1>8, <1>11

\* Whatever is stored: what can be read is so.
LEMMA ReadIsTrue ==
  ASSUME NEW store, StoreIsTrue(store), NEW c,
         NEW top, top = Loaded(store, Commitment(c)), NEW key \in Keys,
         GetLeaf(store, top, key) # NoLeaf
  PROVE  /\ GetLeaf(store, top, key) = <<c[key]>>
         /\ GivenSiblings(store, top, key) = TrueSiblings(c, key)
  <1>1. PathOf(NodesInPath(store, top, key), store, c, key)
    BY PathInTree
  <1>2. Len(NodesInPath(store, top, key)) = Height
    BY DEF GetLeaf
  <1>3. QED
    BY <1>1, <1>2, FullPathReads

LEMMA OpenIsRead ==
  ASSUME NEW store, NEW top, NEW c, Sound(store, top, c), NEW key \in Keys,
         Open(store, c, Height - 1, key)
  PROVE  /\ GetLeaf(store, top, key) = <<c[key]>>
         /\ HasProof(store, top, key, c[key])
         /\ GivenSiblings(store, top, key) = TrueSiblings(c, key)
  <1>1. PathOf(NodesInPath(store, top, key), store, c, key)
    BY PathInTree DEF Sound
  <1>2. Len(NodesInPath(store, top, key)) = Height
    BY <1>1, FullPath DEF Sound, Open
  <1>3. QED
    BY <1>1, <1>2, FullPathReads

-----------------------------------------------------------------------------
(***************************************************************************)
(* What is written.                                                        *)
(***************************************************************************)
LEMMA BatchFields ==
  ASSUME NEW nodes, NEW ids
  PROVE  Batch(nodes, ids).put = nodes /\ Batch(nodes, ids).del = ids
  BY DEF Batch

Alike(nodes) == \A m, n \in nodes : ID(m) = ID(n) => m.value = n.value

LEMMA AppliedIs ==
  ASSUME NEW store, NEW b, Alike(b.put)
  PROVE  LET st == Applied(store, b)
         IN  /\ DOMAIN st = (DOMAIN store \cup {ID(n) : n \in b.put}) \ b.del
             /\ \A n \in b.put : ID(n) \notin b.del => st[ID(n)] = n.value
             /\ \A id \in DOMAIN store \ b.del :
                   (\A n \in b.put : ID(n) # id) => st[id] = store[id]
  <1> DEFINE new == {ID(n) : n \in b.put}
             st == Applied(store, b)
             At(id) == (CHOOSE n \in b.put : ID(n) = id).value
  <1>1. st = [id \in (DOMAIN store \cup new) \ b.del |->
                 IF id \in new THEN At(id) ELSE store[id]]
    BY DEF Applied
  <1>2. ASSUME NEW n \in b.put
        PROVE  At(ID(n)) = n.value
    BY DEF Alike
  <1>3. \A n \in b.put : ID(n) \in new
    OBVIOUS
  <1> HIDE DEF st, At
  <1>4. DOMAIN st = (DOMAIN store \cup new) \ b.del
    BY <1>1
  <1>5. \A n \in b.put : ID(n) \notin b.del => st[ID(n)] = n.value
    BY <1>1, <1>2, <1>3
  <1>6. \A id \in DOMAIN store \ b.del :
            (\A n \in b.put : ID(n) # id) => st[id] = store[id]
    BY <1>1
  <1>7. QED
    BY <1>4, <1>5, <1>6 DEF st

\* What a batch puts: placeholders, and nodes whose hash is that of their
\* value.
TrueNodes(nodes) ==
    \A n \in nodes : n.value = Placeholder \/ n.value = n.hash

LEMMA AppliedIsTrue ==
  ASSUME NEW store, NEW b, StoreIsTrue(store), TrueNodes(b.put)
  PROVE  StoreIsTrue(Applied(store, b))
  <1> DEFINE new == {ID(n) : n \in b.put}
             st == Applied(store, b)
             At(id) == (CHOOSE n \in b.put : ID(n) = id).value
  <1>1. st = [id \in (DOMAIN store \cup new) \ b.del |->
                 IF id \in new THEN At(id) ELSE store[id]]
    BY DEF Applied
  <1>2. ASSUME NEW id \in new
        PROVE  At(id) = Placeholder \/ At(id) = id.hash
    <2>1. PICK m \in b.put : ID(m) = id
      OBVIOUS
    <2> DEFINE n == CHOOSE n \in b.put : ID(n) = id
    <2>2. n \in b.put /\ ID(n) = id
      BY <2>1
    <2> HIDE DEF n
    <2>3. id.hash = n.hash
      BY <2>2 DEF ID, NodeID
    <2>4. n.value = Placeholder \/ n.value = id.hash
      BY <2>2, <2>3 DEF TrueNodes
    <2>5. QED
      BY <2>4 DEF n
  <1> HIDE DEF st, At, new
  <1>3. ASSUME NEW id \in DOMAIN st
        PROVE  st[id] = Placeholder \/ Hash(st[id]) = id.hash
    <2>1. id \in DOMAIN store \cup new
      BY <1>1
    <2>2. CASE id \in new
      <3>1. st[id] = At(id)
        BY <1>1, <2>2
      <3>2. QED
        BY <1>2, <2>2, <3>1 DEF Hash
    <2>3. CASE id \notin new
      <3>1. st[id] = store[id] /\ id \in DOMAIN store
        BY <1>1, <2>1, <2>3
      <3>2. QED
        BY <3>1 DEF StoreIsTrue
    <2>4. QED
      BY <2>2, <2>3
  <1>4. QED
    BY <1>3 DEF StoreIsTrue, st

-----------------------------------------------------------------------------
(***************************************************************************)
(* What an operation makes of the store: it has the whole path of a leaf,  *)
(* and whatever else it had.                                               *)
(***************************************************************************)
\* The nodes of the path of a leaf, and those beside them.
OnPath(key, d, k) == k = NodeKey(key, d)

Beside(key, d, k) == d # 0 /\ k = SiblingKey(key, d)

InTree(store, c) ==
    \A id \in DOMAIN store :
        \E d \in Depths : \E k \in Places(d) : id = IdAt(c, d, k)

\* A store of c becomes one of b with the path of a leaf.
Widened(store, c, key, b, st) ==
    /\ StoreIsTrue(st)
    /\ InTree(st, b)
    /\ \A d \in Depths : \A k \in Places(d) :
          /\ Open(st, b, d, k) <=> Open(store, c, d, k) \/ OnPath(key, d, k)
          /\ Held(st, b, d, k) <=> \/ Held(store, c, d, k)
                                   \/ OnPath(key, d, k)
                                   \/ Beside(key, d, k)

\* The nodes that are stored for one tree are so for another one.
Keeps(store, c, st, b) ==
    /\ \A d \in Depths : \A k \in Places(d) :
          /\ Open(store, c, d, k) => Open(st, b, d, k)
          /\ Held(store, c, d, k) => Held(st, b, d, k)
    /\ Spare(store, c) => Spare(st, b)

LEMMA KeepsAll ==
  ASSUME NEW store, NEW c
  PROVE  Keeps(store, c, store, c)
  BY DEF Keeps

LEMMA KeepsOn ==
  ASSUME NEW store, NEW c, NEW st, NEW b, NEW su, NEW a,
         Keeps(store, c, st, b), Keeps(st, b, su, a)
  PROVE  Keeps(store, c, su, a)
  BY DEF Keeps

LEMMA LeafKeeps ==
  ASSUME NEW store, NEW c, NEW st, NEW b, Keeps(store, c, st, b),
         NEW key \in Keys
  PROVE  /\ Open(store, c, Height - 1, key) => Open(st, b, Height - 1, key)
         /\ Held(store, c, Height - 1, key) => Held(st, b, Height - 1, key)
  <1>1. Height - 1 \in Depths /\ key \in Places(Height - 1)
    BY HeightIs, LeafPlaces DEF Depths
  <1>2. QED
    BY <1>1 DEF Keeps

\* A place is below the path of a leaf when its node is on or beside it.
LEMMA BelowPath ==
  ASSUME NEW key \in Keys, NEW d \in 0..(Height - 2)
  PROVE  /\ NodeKey(key, d + 1) \div 2 = NodeKey(key, d)
         /\ SiblingKey(key, d + 1) \div 2 = NodeKey(key, d)
         /\ \A k \in {2 * NodeKey(key, d), 2 * NodeKey(key, d) + 1} :
               OnPath(key, d + 1, k) \/ Beside(key, d + 1, k)
  <1> DEFINE n == NodeKey(key, d)
             m == NodeKey(key, d + 1)
             s == SiblingKey(key, d + 1)
  <1>1. d \in Depths /\ d + 1 # 0
    BY HeightIs DEF Depths
  <1>2. n \in Nat
    BY <1>1, NodeKeyIsNat
  <1>3. /\ m = IF IsLeft(key, d) THEN 2 * n ELSE 2 * n + 1
        /\ s = IF IsLeft(key, d) THEN 2 * n + 1 ELSE 2 * n
    BY NextNode, SiblingNode
  <1> HIDE DEF n, m, s
  <1>4. m \div 2 = n /\ s \div 2 = n
    BY <1>2, <1>3
  <1>5. \A k \in {2 * n, 2 * n + 1} : k = m \/ k = s
    BY <1>3
  <1>6. \A k \in {2 * n, 2 * n + 1} :
            OnPath(key, d + 1, k) \/ Beside(key, d + 1, k)
    BY <1>1, <1>5 DEF OnPath, Beside, m, s
  <1>7. QED
    BY <1>4, <1>6 DEF n, m, s

LEMMA WidenedConnects ==
  ASSUME NEW store, NEW c, NEW key \in Keys, NEW b, NEW st,
         Connected(store, c), Widened(store, c, key, b, st)
  PROVE  Connected(st, b)
  <1>1. ASSUME NEW d \in 0..(Height - 2), NEW k \in Places(d + 1),
               Held(st, b, d + 1, k)
        PROVE  Open(st, b, d, k \div 2)
    <2>1. d \in Depths /\ d + 1 \in Depths /\ k \div 2 \in Places(d)
      BY HeightIs, PlaceAbove DEF Depths
    <2>2. CASE Held(store, c, d + 1, k)
      <3>1. Open(store, c, d, k \div 2)
        BY <2>2, ParentIsOpen
      <3>2. QED
        BY <2>1, <3>1 DEF Widened
    <2>3. CASE OnPath(key, d + 1, k) \/ Beside(key, d + 1, k)
      <3>1. OnPath(key, d, k \div 2)
        BY <2>3, BelowPath DEF OnPath, Beside
      <3>2. QED
        BY <2>1, <3>1 DEF Widened
    <2>4. QED
      BY <1>1, <2>1, <2>2, <2>3 DEF Widened
  <1>2. ASSUME NEW id \in DOMAIN st
        PROVE  \E d \in Depths : \E k \in Places(d) :
                  /\ id = IdAt(b, d, k)
                  /\ d # 0 => Open(st, b, d - 1, k \div 2)
    <2>1. PICK d \in Depths : \E k \in Places(d) : id = IdAt(b, d, k)
      BY DEF Widened, InTree
    <2>2. PICK k \in Places(d) : id = IdAt(b, d, k)
      BY <2>1
    <2>3. Held(st, b, d, k)
      BY <2>2 DEF Held
    <2>4. ASSUME d # 0
          PROVE  Open(st, b, d - 1, k \div 2)
      <3>1. PICK e \in 0..(Height - 2) : d = e + 1 /\ d - 1 = e
        <4>1. d - 1 \in 0..(Height - 2) /\ d = (d - 1) + 1
          BY <2>4, HeightIs DEF Depths
        <4>2. QED
          BY <4>1
      <3>2. k \in Places(e + 1) /\ Held(st, b, e + 1, k)
        BY <2>3, <3>1
      <3>3. Open(st, b, e, k \div 2)
        BY <1>1, <3>2
      <3>4. QED
        BY <3>1, <3>3
    <2>5. QED
      BY <2>2, <2>4
  <1>3. QED
    BY <1>2 DEF Connected

LEMMA WidenedPairs ==
  ASSUME NEW store, NEW c, NEW key \in Keys, NEW b, NEW st,
         Paired(store, c), Widened(store, c, key, b, st)
  PROVE  Paired(st, b)
  <1>1. ASSUME NEW d \in 0..(Height - 2), NEW k \in Places(d),
               Open(st, b, d, k)
        PROVE  Held(st, b, d + 1, 2 * k) /\ Held(st, b, d + 1, 2 * k + 1)
    <2>1. d \in Depths /\ d + 1 \in Depths
      BY HeightIs DEF Depths
    <2>2. 2 * k \in Places(d + 1) /\ 2 * k + 1 \in Places(d + 1)
      BY PlacesBelow
    <2>3. CASE Open(store, c, d, k)
      <3>1. Held(store, c, d + 1, 2 * k) /\ Held(store, c, d + 1, 2 * k + 1)
        BY <2>3 DEF Paired
      <3>2. QED
        BY <2>1, <2>2, <3>1 DEF Widened
    <2>4. CASE OnPath(key, d, k)
      <3>1. \A i \in {2 * k, 2 * k + 1} :
                OnPath(key, d + 1, i) \/ Beside(key, d + 1, i)
        BY <2>4, BelowPath DEF OnPath
      <3>2. QED
        BY <2>1, <2>2, <3>1 DEF Widened
    <2>5. QED
      BY <1>1, <2>1, <2>3, <2>4 DEF Widened
  <1>2. QED
    BY <1>1 DEF Paired

LEMMA WidenedIsSound ==
  ASSUME NEW store, NEW top, NEW c, Sound(store, top, c),
         NEW key \in Keys, NEW b, NEW st, Widened(store, c, key, b, st)
  PROVE  Sound(st, TrueNode(b, key, 0), b)
  <1>1. 0 \in Depths /\ NodeKey(key, 0) = 0 /\ 0 \in Places(0)
    BY HeightIs, LeafNode, TopPlace DEF Depths
  <1>2. Open(st, b, 0, 0)
    BY <1>1 DEF Widened, OnPath
  <1>3. /\ NodeID(Commitment(b), 0) \in DOMAIN st
        /\ st[NodeID(Commitment(b), 0)] # Placeholder
    BY <1>2, TopHash DEF Open, Held
  <1>4. StoreIsTrue(st)
    BY DEF Widened
  <1>5. st[NodeID(Commitment(b), 0)] = Commitment(b)
    BY <1>3, <1>4 DEF StoreIsTrue, Hash, NodeID
  <1>6. Commitment(b) # NoHash
    BY TopHash
  <1>7. Loaded(st, Commitment(b))
            = NewNode(Commitment(b), Commitment(b), 0)
    BY <1>3, <1>5, <1>6 DEF Loaded
  <1>8. TrueNode(b, key, 0) = NewNode(Commitment(b), Commitment(b), 0)
    BY <1>1, TopHash DEF TrueNode, HashOn
  <1>9. Connected(st, b) /\ Paired(st, b)
    BY WidenedConnects, WidenedPairs DEF Sound
  <1>10. QED
    BY <1>4, <1>7, <1>8, <1>9 DEF Sound

LEMMA WidenedKeeps ==
  ASSUME NEW store, NEW c, NEW key \in Keys, NEW b, NEW st,
         Widened(store, c, key, b, st), \A k \in Keys : k # key => b[k] = c[k]
  PROVE  /\ Keeps(store, c, st, b)
         /\ Open(st, b, Height - 1, key)
  <1>1. ASSUME Spare(store, c), NEW d \in Depths, NEW k \in Places(d),
               ~Open(st, b, d, k)
        PROVE  Levels(b)[d][k] = ZeroHash[d]
    <2>1. ~Open(store, c, d, k) /\ k # NodeKey(key, d)
      BY <1>1 DEF Widened, OnPath
    <2>2. Levels(c)[d][k] = ZeroHash[d]
      BY <1>1, <2>1 DEF Spare
    <2>3. Levels(b)[d][k] = Levels(c)[d][k]
      BY <2>1, OffPath
    <2>4. QED
      BY <2>2, <2>3
  <1>2. Keeps(store, c, st, b)
    <2>1. Spare(store, c) => Spare(st, b)
      BY <1>1 DEF Spare
    <2>2. QED
      BY <2>1 DEF Keeps, Widened
  <1>3. Height - 1 \in Depths /\ key \in Places(Height - 1)
    BY HeightIs, LeafPlaces DEF Depths
  <1>4. OnPath(key, Height - 1, key)
    BY LeafNode DEF OnPath
  <1>5. QED
    BY <1>2, <1>3, <1>4 DEF Widened

-----------------------------------------------------------------------------
(***************************************************************************)
(* The path of a leaf is stored: verifyAndStore.                           *)
(***************************************************************************)
PathIds(c, key) == {IdAt(c, d, NodeKey(key, d)) : d \in Depths}

SiblingIds(c, key) == {IdAt(c, d, SiblingKey(key, d)) : d \in 1..(Height - 1)}

LEMMA NodeIds ==
  ASSUME NEW node, NEW store, NEW c, NEW d, NEW k, NodeIs(node, store, c, d, k)
  PROVE  ID(node) = IdAt(c, d, k)
  BY DEF NodeIs, ID, IdAt

LEMMA OldIds ==
  ASSUME NEW p, NEW store, NEW c, NEW key, PathOf(p, store, c, key)
  PROVE  /\ {ID(n) : n \in ToSet(p)} \subseteq PathIds(c, key)
         /\ Len(p) = Height =>
                PathIds(c, key) \subseteq {ID(n) : n \in ToSet(p)}
  <1>1. /\ Len(p) \in 1..Height /\ DOMAIN p = 1..Len(p)
        /\ \A i \in 1..Len(p) :
              NodeIs(p[i], store, c, i - 1, NodeKey(key, i - 1))
    BY DEF PathOf
  <1>2. ToSet(p) = {p[i] : i \in 1..Len(p)}
    BY <1>1 DEF ToSet
  <1>3. \A i \in 1..Len(p) : ID(p[i]) = IdAt(c, i - 1, NodeKey(key, i - 1))
    BY <1>1, NodeIds
  <1>4. \A i \in 1..Len(p) : i - 1 \in Depths
    BY <1>1, HeightIs DEF Depths
  <1>5. {ID(n) : n \in ToSet(p)} \subseteq PathIds(c, key)
    BY <1>2, <1>3, <1>4 DEF PathIds
  <1>6. ASSUME Len(p) = Height, NEW d \in Depths
        PROVE  IdAt(c, d, NodeKey(key, d)) \in {ID(n) : n \in ToSet(p)}
    <2>1. d + 1 \in 1..Len(p) /\ (d + 1) - 1 = d
      BY <1>6, HeightIs DEF Depths
    <2>2. ID(p[d + 1]) = IdAt(c, d, NodeKey(key, d)) /\ p[d + 1] \in ToSet(p)
      BY <1>2, <1>3, <2>1
    <2>3. QED
      BY <2>2
  <1>7. QED
    BY <1>5, <1>6 DEF PathIds

LEMMA TrueNodeId ==
  ASSUME NEW c, NEW key, NEW d
  PROVE  /\ ID(TrueNode(c, key, d)) = IdAt(c, d, NodeKey(key, d))
         /\ TrueNode(c, key, d).value = HashOn(c, key, d)
         /\ TrueNode(c, key, d).hash = HashOn(c, key, d)
  BY TrueNodeFields DEF ID, IdAt, HashOn

LEMMA PathPlace ==
  ASSUME NEW c, NEW key \in Keys, NEW d \in Depths, NEW k \in Places(d)
  PROVE  /\ IdAt(c, d, k) \in PathIds(c, key) <=> OnPath(key, d, k)
         /\ IdAt(c, d, k) \in SiblingIds(c, key) <=> Beside(key, d, k)
  <1>1. ASSUME IdAt(c, d, k) \in PathIds(c, key)
        PROVE  OnPath(key, d, k)
    <2>1. PICK e \in Depths : IdAt(c, d, k) = IdAt(c, e, NodeKey(key, e))
      BY <1>1 DEF PathIds
    <2>2. PICK l \in Places(e) : l = NodeKey(key, e)
      BY NodePlaces
    <2>3. IdAt(c, d, k) = IdAt(c, e, l)
      BY <2>1, <2>2
    <2>4. d = e /\ k = l
      BY ONLY <2>3, d \in Depths, k \in Places(d), e \in Depths,
              l \in Places(e), IdIsKnown
    <2>5. QED
      BY <2>2, <2>4 DEF OnPath
  <1>2. OnPath(key, d, k) => IdAt(c, d, k) \in PathIds(c, key)
    BY DEF OnPath, PathIds
  <1>3. ASSUME IdAt(c, d, k) \in SiblingIds(c, key)
        PROVE  Beside(key, d, k)
    <2>1. PICK e \in 1..(Height - 1) :
             IdAt(c, d, k) = IdAt(c, e, SiblingKey(key, e))
      BY <1>3 DEF SiblingIds
    <2>2. e \in Depths /\ e # 0 /\ e - 1 \in 0..(Height - 2)
          /\ (e - 1) + 1 = e
      BY HeightIs DEF Depths
    <2>3. SiblingKey(key, e) \in Places(e)
      BY <2>2, SiblingNode
    <2>4. PICK l \in Places(e) : l = SiblingKey(key, e)
      BY <2>3
    <2>5. IdAt(c, d, k) = IdAt(c, e, l)
      BY <2>1, <2>4
    <2>6. PICK f \in Depths : f = e
      BY <2>2
    <2>7. IdAt(c, d, k) = IdAt(c, f, l) /\ l \in Places(f)
      BY <2>5, <2>6
    <2>8. d = f /\ k = l
      BY ONLY <2>7, d \in Depths, k \in Places(d), f \in Depths, IdIsKnown
    <2>9. QED
      BY <2>2, <2>4, <2>6, <2>8 DEF Beside
  <1>4. ASSUME Beside(key, d, k)
        PROVE  IdAt(c, d, k) \in SiblingIds(c, key)
    <2>1. d \in 1..(Height - 1) /\ k = SiblingKey(key, d)
      BY <1>4, HeightIs DEF Beside, Depths
    <2>2. QED
      BY <2>1 DEF SiblingIds
  <1>5. QED
    BY <1>1, <1>2, <1>3, <1>4

\* A node is not beside its own place.
LEMMA NotBoth ==
  ASSUME NEW key \in Keys, NEW d \in Depths, NEW k,
         OnPath(key, d, k), Beside(key, d, k)
  PROVE  FALSE
  <1>1. d - 1 \in 0..(Height - 2) /\ (d - 1) + 1 = d
    BY HeightIs DEF Depths, Beside
  <1>2. PICK e \in 0..(Height - 2) : e + 1 = d
    BY <1>1
  <1>3. SiblingKey(key, e + 1) # NodeKey(key, e + 1)
    BY SiblingNode
  <1>4. QED
    BY <1>2, <1>3 DEF OnPath, Beside

LEMMA PathIsNoSibling ==
  ASSUME NEW c, NEW key \in Keys, NEW id,
         id \in PathIds(c, key), id \in SiblingIds(c, key)
  PROVE  FALSE
  <1>1. PICK d \in Depths : id = IdAt(c, d, NodeKey(key, d))
    BY DEF PathIds
  <1>2. PICK k \in Places(d) : k = NodeKey(key, d)
    BY NodePlaces
  <1>3. id = IdAt(c, d, k)
    BY <1>1, <1>2
  <1>4. OnPath(key, d, k) /\ Beside(key, d, k)
    BY <1>3, PathPlace
  <1>5. QED
    BY <1>4, NotBoth

\* A batch of deletes, and one of puts.
LEMMA DeletedIs ==
  ASSUME NEW store, NEW ids
  PROVE  LET st == Applied(store, Batch({}, ids))
         IN  /\ DOMAIN st = DOMAIN store \ ids
             /\ \A id \in DOMAIN store \ ids : st[id] = store[id]
  <1> DEFINE b == Batch({}, ids)
             st == Applied(store, b)
  <1>1. b.put = {} /\ b.del = ids
    BY BatchFields
  <1>2. Alike(b.put)
    BY <1>1 DEF Alike
  <1> HIDE DEF b
  <1>3. /\ DOMAIN st = (DOMAIN store \cup {ID(n) : n \in b.put}) \ b.del
        /\ \A id \in DOMAIN store \ b.del :
              (\A n \in b.put : ID(n) # id) => st[id] = store[id]
    BY <1>2, AppliedIs
  <1> HIDE DEF st
  <1>4. /\ DOMAIN st = DOMAIN store \ ids
        /\ \A id \in DOMAIN store \ ids : st[id] = store[id]
    BY <1>1, <1>3
  <1>5. QED
    BY <1>4 DEF st, b

LEMMA PutIs ==
  ASSUME NEW store, NEW nodes, Alike(nodes)
  PROVE  LET st == Applied(store, Batch(nodes, {}))
         IN  /\ DOMAIN st = DOMAIN store \cup {ID(n) : n \in nodes}
             /\ \A n \in nodes : st[ID(n)] = n.value
             /\ \A id \in DOMAIN store :
                   (\A n \in nodes : ID(n) # id) => st[id] = store[id]
  <1> DEFINE b == Batch(nodes, {})
             st == Applied(store, b)
  <1>1. b.put = nodes /\ b.del = {}
    BY BatchFields
  <1>2. Alike(b.put)
    BY <1>1
  <1> HIDE DEF b
  <1>3. /\ DOMAIN st = (DOMAIN store \cup {ID(n) : n \in b.put}) \ b.del
        /\ \A n \in b.put : ID(n) \notin b.del => st[ID(n)] = n.value
        /\ \A id \in DOMAIN store \ b.del :
              (\A n \in b.put : ID(n) # id) => st[id] = store[id]
    BY <1>2, AppliedIs
  <1> HIDE DEF st
  <1>4. /\ DOMAIN st = DOMAIN store \cup {ID(n) : n \in nodes}
        /\ \A n \in nodes : st[ID(n)] = n.value
        /\ \A id \in DOMAIN store :
              (\A n \in nodes : ID(n) # id) => st[id] = store[id]
    BY <1>1, <1>3
  <1>5. QED
    BY <1>4 DEF st, b

\* All nodes of the path of a leaf.
TrueBranch(c, key) == {TrueNode(c, key, d) : d \in Depths}

LEMMA BranchNodes ==
  ASSUME NEW c, NEW key
  PROVE  /\ \A n \in TrueBranch(c, key) : /\ ID(n) \in PathIds(c, key)
                                          /\ n.value = ID(n).hash
                                          /\ n.value = n.hash
         /\ \A id \in PathIds(c, key) :
               \E n \in TrueBranch(c, key) : ID(n) = id
  <1> DEFINE nodes == TrueBranch(c, key)
  <1>1. nodes = {TrueNode(c, key, d) : d \in Depths}
    BY DEF TrueBranch
  <1>2. ASSUME NEW d \in Depths
        PROVE  /\ ID(TrueNode(c, key, d)) = IdAt(c, d, NodeKey(key, d))
               /\ ID(TrueNode(c, key, d)) \in PathIds(c, key)
               /\ TrueNode(c, key, d).value = ID(TrueNode(c, key, d)).hash
               /\ TrueNode(c, key, d).value = TrueNode(c, key, d).hash
    <2>1. /\ ID(TrueNode(c, key, d)) = IdAt(c, d, NodeKey(key, d))
          /\ TrueNode(c, key, d).value = HashOn(c, key, d)
          /\ TrueNode(c, key, d).hash = HashOn(c, key, d)
      BY TrueNodeId
    <2>2. IdAt(c, d, NodeKey(key, d)).hash = HashOn(c, key, d)
      BY IdFields DEF HashOn
    <2>3. IdAt(c, d, NodeKey(key, d)) \in PathIds(c, key)
      BY DEF PathIds
    <2>4. QED
      BY <2>1, <2>2, <2>3
  <1> HIDE DEF nodes
  <1>3. \A n \in nodes : /\ ID(n) \in PathIds(c, key)
                         /\ n.value = ID(n).hash /\ n.value = n.hash
    BY <1>1, <1>2
  <1>4. ASSUME NEW id \in PathIds(c, key)
        PROVE  \E n \in nodes : ID(n) = id
    <2>1. PICK d \in Depths : id = IdAt(c, d, NodeKey(key, d))
      BY DEF PathIds
    <2>2. TrueNode(c, key, d) \in nodes /\ ID(TrueNode(c, key, d)) = id
      BY <1>1, <1>2, <2>1
    <2>3. QED
      BY <2>2
  <1>5. QED
    BY <1>3, <1>4 DEF nodes

LEMMA UnknownNodes ==
  ASSUME NEW store, NEW c, NEW key, NEW siblings,
         \A d \in 1..(Height - 1) : siblings[d] = HashBeside(c, key, d)
  PROVE  /\ \A n \in Unknown(store, key, siblings) :
               /\ ID(n) \in SiblingIds(c, key) /\ ID(n) \notin DOMAIN store
               /\ n.value = Placeholder
         /\ \A id \in SiblingIds(c, key) \ DOMAIN store :
               \E n \in Unknown(store, key, siblings) : ID(n) = id
  <1> DEFINE node(d) ==
                 NewNode(siblings[d], Placeholder, SiblingKey(key, d))
             nodes == Unknown(store, key, siblings)
  <1>1. ASSUME NEW d \in 1..(Height - 1)
        PROVE  /\ node(d).value = Placeholder
               /\ ID(node(d)) = IdAt(c, d, SiblingKey(key, d))
    <2>1. /\ node(d).value = Placeholder /\ node(d).hash = siblings[d]
          /\ node(d).key = SiblingKey(key, d)
      BY NodeFields
    <2>2. siblings[d] = Levels(c)[d][SiblingKey(key, d)]
      BY DEF HashBeside
    <2>3. QED
      BY <2>1, <2>2 DEF ID, IdAt
  <1>2. nodes = {n \in {node(d) : d \in 1..(Height - 1)} :
                    ID(n) \notin DOMAIN store}
    BY DEF Unknown
  <1> HIDE DEF nodes, node
  <1>3. ASSUME NEW n \in nodes
        PROVE  /\ ID(n) \in SiblingIds(c, key) /\ ID(n) \notin DOMAIN store
               /\ n.value = Placeholder
    <2>1. PICK d \in 1..(Height - 1) : n = node(d)
      BY <1>2
    <2>2. ID(n) \notin DOMAIN store
      BY <1>2
    <2>3. QED
      BY <1>1, <2>1, <2>2 DEF SiblingIds
  <1>4. ASSUME NEW id \in SiblingIds(c, key) \ DOMAIN store
        PROVE  \E n \in nodes : ID(n) = id
    <2>1. PICK d \in 1..(Height - 1) : id = IdAt(c, d, SiblingKey(key, d))
      BY DEF SiblingIds
    <2>2. node(d) \in nodes /\ ID(node(d)) = id
      BY <1>1, <1>2, <2>1
    <2>3. QED
      BY <2>2
  <1>5. QED
    BY <1>3, <1>4 DEF nodes

LEMMA StoredIs ==
  ASSUME NEW store, NEW top, NEW key, NEW branch, NEW siblings
  PROVE  LET r   == Stored(store, top, key, branch, siblings)
             del == Batch({}, {ID(n) : n \in
                                  ToSet(NodesInPath(store, top, key))})
             put == Batch({branch[d] : d \in 0..(Height - 1)}
                             \cup Unknown(store, key, siblings), {})
         IN  /\ r.ok = TRUE /\ r.root = branch[0]
             /\ r.db = Applied(Applied(store, del), put)
             /\ r.writes = Append(Append(<<>>, del), put)
  BY DEF Stored, Writes, Returns, Outcome

LEMMA StoredWidens ==
  ASSUME NEW store, NEW top, NEW c, Sound(store, top, c), NEW key \in Keys,
         NEW branch, NEW siblings,
         \A d \in Depths : branch[d] = TrueNode(c, key, d),
         \A d \in 1..(Height - 1) : siblings[d] = HashBeside(c, key, d)
  PROVE  Widened(store, c, key, c,
                 Stored(store, top, key, branch, siblings).db)
  <1> DEFINE old == {ID(n) : n \in ToSet(NodesInPath(store, top, key))}
             nodes == {branch[d] : d \in 0..(Height - 1)}
             more == Unknown(store, key, siblings)
             mid == Applied(store, Batch({}, old))
             st == Applied(mid, Batch(nodes \cup more, {}))
             P == PathIds(c, key)
             Q == SiblingIds(c, key)
  <1>1. Stored(store, top, key, branch, siblings).db = st
    BY DEF Stored, Writes, Returns, Outcome
  <1>2. /\ \A n \in nodes : ID(n) \in P /\ n.value = ID(n).hash
        /\ \A id \in P : \E n \in nodes : ID(n) = id
    <2>1. nodes = TrueBranch(c, key)
      BY DEF TrueBranch, Depths
    <2>2. QED
      BY <2>1, BranchNodes
  <1>3. /\ \A n \in more : /\ ID(n) \in Q /\ ID(n) \notin DOMAIN store
                           /\ n.value = Placeholder
        /\ \A id \in Q \ DOMAIN store : \E n \in more : ID(n) = id
    BY UnknownNodes
  <1>4. P \cap Q = {}
    BY PathIsNoSibling
  <1>5. old \subseteq P
    <2>1. PathOf(NodesInPath(store, top, key), store, c, key)
      BY PathInTree DEF Sound
    <2>2. QED
      BY <2>1, OldIds
  <1>6. /\ DOMAIN mid = DOMAIN store \ old
        /\ \A id \in DOMAIN store \ old : mid[id] = store[id]
    BY DeletedIs
  <1> HIDE DEF nodes, more, old, mid, P, Q
  <1>7. Alike(nodes \cup more)
    BY <1>2, <1>3, <1>4 DEF Alike
  <1>8. /\ DOMAIN st = DOMAIN mid \cup {ID(n) : n \in nodes \cup more}
        /\ \A n \in nodes \cup more : st[ID(n)] = n.value
        /\ \A id \in DOMAIN mid :
              (\A n \in nodes \cup more : ID(n) # id) => st[id] = mid[id]
    BY <1>7, PutIs
  <1> HIDE DEF st
  <1>9. DOMAIN st = DOMAIN store \cup P \cup Q
    BY <1>2, <1>3, <1>5, <1>6, <1>8
  <1>10. \A id \in P : st[id] = id.hash
    BY <1>2, <1>8
  <1>11. \A id \in Q \ DOMAIN store : st[id] = Placeholder
    BY <1>3, <1>8
  <1>12. \A id \in DOMAIN store \ P : st[id] = store[id]
    BY <1>2, <1>3, <1>5, <1>6, <1>8
  <1>13. StoreIsTrue(st)
    <2>1. StoreIsTrue(store)
      BY DEF Sound
    <2>2. ASSUME NEW id \in DOMAIN st
          PROVE  st[id] = Placeholder \/ st[id] = id.hash
      <3>1. id \in DOMAIN store => store[id] = Placeholder
                                   \/ store[id] = id.hash
        BY <2>1 DEF StoreIsTrue, Hash
      <3>2. QED
        BY <1>9, <1>10, <1>11, <1>12, <3>1
    <2>3. QED
      BY <2>2 DEF StoreIsTrue, Hash
  <1>14. InTree(st, c)
    <2>1. ASSUME NEW id \in DOMAIN st
          PROVE  \E d \in Depths : \E k \in Places(d) : id = IdAt(c, d, k)
      <3>1. CASE id \in DOMAIN store
        BY <3>1 DEF Sound, Connected
      <3>2. CASE id \in P
        BY <3>2, NodePlaces DEF P, PathIds
      <3>3. CASE id \in Q
        <4>1. PICK d \in 1..(Height - 1) : id = IdAt(c, d, SiblingKey(key, d))
          BY <3>3 DEF Q, SiblingIds
        <4>2. PICK e \in 0..(Height - 2) : e + 1 = d
          <5>1. d - 1 \in 0..(Height - 2) /\ (d - 1) + 1 = d
            BY HeightIs
          <5>2. QED
            BY <5>1
        <4>3. SiblingKey(key, d) \in Places(d) /\ d \in Depths
          BY <4>2, SiblingNode, HeightIs DEF Depths
        <4>4. QED
          BY <4>1, <4>3
      <3>4. QED
        BY <1>9, <3>1, <3>2, <3>3
    <2>2. QED
      BY <2>1 DEF InTree
  <1>15. ASSUME NEW d \in Depths, NEW k \in Places(d)
         PROVE  /\ Open(st, c, d, k) <=> \/ Open(store, c, d, k)
                                         \/ OnPath(key, d, k)
                /\ Held(st, c, d, k) <=> \/ Held(store, c, d, k)
                                         \/ OnPath(key, d, k)
                                         \/ Beside(key, d, k)
    <2> DEFINE id == IdAt(c, d, k)
    <2>1. (id \in P <=> OnPath(key, d, k)) /\ (id \in Q <=> Beside(key, d, k))
      BY PathPlace DEF P, Q
    <2>2. id.hash # Placeholder
      BY IdFields, HashIsNoPlaceholder
    <2>3. /\ Held(st, c, d, k) <=> id \in DOMAIN st
          /\ Held(store, c, d, k) <=> id \in DOMAIN store
          /\ Open(st, c, d, k) <=> id \in DOMAIN st /\ st[id] # Placeholder
          /\ Open(store, c, d, k) <=>
                id \in DOMAIN store /\ store[id] # Placeholder
      BY DEF Held, Open
    <2> HIDE DEF id
    <2>4. QED
      BY <1>9, <1>10, <1>11, <1>12, <2>1, <2>2, <2>3
  <1>16. Widened(store, c, key, c, st)
    BY <1>13, <1>14, <1>15 DEF Widened
  <1>17. QED
    BY <1>1, <1>16

-----------------------------------------------------------------------------
(***************************************************************************)
(* What verifyAndStore returns and leaves.                                 *)
(***************************************************************************)
LEMMA OutcomeFields ==
  ASSUME NEW ok, NEW store, NEW top, NEW writes
  PROVE  /\ Outcome(ok, store, top, writes).ok = ok
         /\ Outcome(ok, store, top, writes).db = store
         /\ Outcome(ok, store, top, writes).root = top
         /\ Outcome(ok, store, top, writes).writes = writes
  BY DEF Outcome

LEMMA ReturnsFields ==
  ASSUME NEW ok, NEW store, NEW top
  PROVE  /\ Returns(ok, store, top).ok = ok
         /\ Returns(ok, store, top).db = store
         /\ Returns(ok, store, top).root = top
         /\ Returns(ok, store, top).writes = <<>>
  BY OutcomeFields DEF Returns

\* Batches of which each puts true nodes.
TrueWrites(writes) ==
    /\ \E S : writes \in Seq(S)
    /\ \A i \in 1..Len(writes) : TrueNodes(writes[i].put)

LEMMA NoWrites == TrueWrites(<<>>)
  <1>1. <<>> \in Seq({})
    OBVIOUS
  <1>2. Len(<<>>) = 0
    OBVIOUS
  <1>3. QED
    BY <1>1, <1>2 DEF TrueWrites

LEMMA SeqGrows ==
  ASSUME NEW S, NEW T, S \subseteq T, NEW s \in Seq(S)
  PROVE  s \in Seq(T)
  OBVIOUS

LEMMA MoreWrites ==
  ASSUME NEW writes, NEW b, TrueWrites(writes), TrueNodes(b.put)
  PROVE  TrueWrites(Append(writes, b))
  <1> DEFINE more == Append(writes, b)
  <1>1. PICK S : writes \in Seq(S)
    BY DEF TrueWrites
  <1> DEFINE T == S \cup {b}
  <1>2. S \subseteq T /\ b \in T
    OBVIOUS
  <1> HIDE DEF T
  <1>3. writes \in Seq(T)
    BY <1>1, <1>2, SeqGrows
  <1>4. /\ more \in Seq(T) /\ Len(more) = Len(writes) + 1
        /\ Len(writes) \in Nat
    BY <1>2, <1>3
  <1>5. \A i \in 1..Len(more) :
            more[i] = IF i = Len(more) THEN b ELSE writes[i]
    BY <1>2, <1>3
  <1> HIDE DEF more
  <1>6. ASSUME NEW i \in 1..Len(more)
        PROVE  TrueNodes(more[i].put)
    <2>1. CASE i = Len(more)
      BY <1>5, <2>1
    <2>2. CASE i # Len(more)
      <3>1. more[i] = writes[i] /\ i \in 1..Len(writes)
        BY <1>4, <1>5, <2>2
      <3>2. QED
        BY <3>1 DEF TrueWrites
    <2>3. QED
      BY <2>1, <2>2
  <1>7. TrueWrites(more)
    BY <1>4, <1>6 DEF TrueWrites
  <1>8. QED
    BY <1>7 DEF more

LEMMA TwoWrites ==
  ASSUME NEW a, NEW b, TrueNodes(a.put), TrueNodes(b.put)
  PROVE  TrueWrites(Append(Append(<<>>, a), b))
  <1>1. TrueWrites(Append(<<>>, a))
    BY NoWrites, MoreWrites
  <1>2. QED
    BY <1>1, MoreWrites

LEMMA VerifyIs ==
  ASSUME NEW store, NEW top, NEW key, NEW value, NEW siblings
  PROVE  LET leaf == NewNode(Hash(<<value>>), <<value>>, key)
             up   == Branch(leaf, key, siblings)
             r    == VerifyAndStoreResult(store, top, key, value, siblings)
         IN  r = IF NodeID(<<value>>, key) \in DOMAIN store
                 THEN Returns(TRUE, store, top)
                 ELSE IF up[0].hash # top.hash THEN Returns(FALSE, store, top)
                 ELSE Stored(store, top, key, up, siblings)
  <1> DEFINE leaf == NewNode(Hash(<<value>>), <<value>>, key)
             up   == Branch(leaf, key, siblings)
  <1>1. ID(leaf) = NodeID(<<value>>, key)
    BY NodeFields DEF ID, Hash
  <1>2. VerifyAndStoreResult(store, top, key, value, siblings)
            = IF ID(leaf) \in DOMAIN store THEN Returns(TRUE, store, top)
              ELSE IF up[0].hash # top.hash THEN Returns(FALSE, store, top)
              ELSE Stored(store, top, key, up, siblings)
    BY DEF VerifyAndStoreResult
  <1> HIDE DEF leaf, up
  <1>3. VerifyAndStoreResult(store, top, key, value, siblings)
            = IF NodeID(<<value>>, key) \in DOMAIN store
              THEN Returns(TRUE, store, top)
              ELSE IF up[0].hash # top.hash THEN Returns(FALSE, store, top)
              ELSE Stored(store, top, key, up, siblings)
    BY <1>1, <1>2
  <1>4. QED
    BY <1>3 DEF leaf, up

\* A leaf that is stored is that of the tree.
LEMMA StoredLeafIsTrue ==
  ASSUME NEW store, NEW c, Connected(store, c), NEW key \in Keys, NEW value,
         NodeID(<<value>>, key) \in DOMAIN store
  PROVE  value = c[key] /\ Held(store, c, Height - 1, key)
  <1>1. PICK d \in Depths : \E k \in Places(d) :
           NodeID(<<value>>, key) = IdAt(c, d, k)
    BY DEF Connected
  <1>2. PICK k \in Places(d) : NodeID(<<value>>, key) = IdAt(c, d, k)
    BY <1>1
  <1>3. <<value>> = Levels(c)[d][k] /\ key = k
    BY <1>2 DEF NodeID, IdAt
  <1>4. Len(<<value>>) = 1
    OBVIOUS
  <1>5. Len(Levels(c)[d][k]) = IF d = Height - 1 THEN 1 ELSE 2
    BY HashIsNoPlaceholder
  <1>6. d = Height - 1
    <2>1. Len(Levels(c)[d][k]) = 1
      BY ONLY <1>3, <1>4
    <2>2. d # Height - 1 => Len(Levels(c)[d][k]) = 2
      BY <1>5
    <2>3. QED
      BY <2>1, <2>2
  <1>7. Levels(c)[Height - 1][key] = <<c[key]>>
    BY LeafHash
  <1>8. <<value>> = <<c[key]>>
    BY <1>3, <1>6, <1>7
  <1>9. value = c[key]
    BY <1>8
  <1>10. Held(store, c, Height - 1, key)
    BY <1>2, <1>3, <1>6 DEF Held
  <1>11. QED
    BY <1>9, <1>10

LEMMA LeafId ==
  ASSUME NEW c, NEW key \in Keys
  PROVE  IdAt(c, Height - 1, key) = NodeID(<<c[key]>>, key)
  BY LeafHash DEF IdAt

\* What verifyAndStore gives, when the leaf is not stored and the proof leads
\* to the root.
LEMMA StoredResult ==
  ASSUME NEW store, NEW top, NEW c, Sound(store, top, c), NEW key \in Keys,
         NEW branch, NEW siblings,
         \A d \in Depths : branch[d] = TrueNode(c, key, d),
         \A d \in 1..(Height - 1) : siblings[d] = HashBeside(c, key, d)
  PROVE  LET r == Stored(store, top, key, branch, siblings)
         IN  /\ r.ok = TRUE
             /\ Sound(r.db, r.root, c) /\ Keeps(store, c, r.db, c)
             /\ Held(r.db, c, Height - 1, key)
             /\ TrueWrites(r.writes)
  <1> DEFINE r == Stored(store, top, key, branch, siblings)
             old == {ID(n) : n \in ToSet(NodesInPath(store, top, key))}
             nodes == {branch[d] : d \in 0..(Height - 1)}
             more == Unknown(store, key, siblings)
             del == Batch({}, old)
             put == Batch(nodes \cup more, {})
  <1>1. /\ r.ok = TRUE /\ r.root = branch[0]
        /\ r.writes = Append(Append(<<>>, del), put)
    BY DEF Stored, Writes, Returns, Outcome
  <1>2. Widened(store, c, key, c, r.db)
    BY StoredWidens
  <1>3. \A n \in nodes : n.value = n.hash
    <2>1. nodes = TrueBranch(c, key)
      BY DEF TrueBranch, Depths
    <2>2. QED
      BY <2>1, BranchNodes
  <1>4. \A n \in more : n.value = Placeholder
    BY UnknownNodes
  <1> HIDE DEF nodes, more, old
  <1>5. del.put = {} /\ put.put = nodes \cup more
    BY BatchFields
  <1> HIDE DEF del, put, r
  <1>6. TrueNodes(del.put) /\ TrueNodes(put.put)
    BY <1>3, <1>4, <1>5 DEF TrueNodes
  <1>7. TrueWrites(r.writes)
    BY <1>1, <1>6, TwoWrites
  <1>8. r.root = TrueNode(c, key, 0)
    <2>1. 0 \in Depths
      BY HeightIs DEF Depths
    <2>2. QED
      BY <1>1, <2>1
  <1>9. Sound(r.db, TrueNode(c, key, 0), c)
    BY <1>2, WidenedIsSound
  <1>10. Keeps(store, c, r.db, c) /\ Open(r.db, c, Height - 1, key)
    BY <1>2, WidenedKeeps
  <1>11. Held(r.db, c, Height - 1, key)
    BY <1>10 DEF Open
  <1>12. /\ r.ok = TRUE
         /\ Sound(r.db, r.root, c) /\ Keeps(store, c, r.db, c)
         /\ Held(r.db, c, Height - 1, key)
         /\ TrueWrites(r.writes)
    BY <1>1, <1>7, <1>8, <1>9, <1>10, <1>11
  <1>13. QED
    BY <1>12 DEF r

\* It is left as it is, or has the path of a leaf of its tree.
LEMMA VerifyKeeps ==
  ASSUME NEW store, NEW top, NEW c, Sound(store, top, c), NEW key \in Keys,
         NEW value, NEW siblings
  PROVE  LET r == VerifyAndStoreResult(store, top, key, value, siblings)
         IN  /\ r.ok \in BOOLEAN
             /\ ~r.ok => r.db = store /\ r.root = top
             /\ Sound(r.db, r.root, c) /\ Keeps(store, c, r.db, c)
             /\ r.ok => value = c[key] /\ Held(r.db, c, Height - 1, key)
             /\ TrueWrites(r.writes)
  <1> DEFINE r == VerifyAndStoreResult(store, top, key, value, siblings)
             leaf == NewNode(Hash(<<value>>), <<value>>, key)
             up == Branch(leaf, key, siblings)
             Good(s) == /\ s.ok \in BOOLEAN
                        /\ ~s.ok => s.db = store /\ s.root = top
                        /\ Sound(s.db, s.root, c) /\ Keeps(store, c, s.db, c)
                        /\ s.ok => /\ value = c[key]
                                   /\ Held(s.db, c, Height - 1, key)
                        /\ TrueWrites(s.writes)
  <1> SUFFICES Good(r)
    OBVIOUS
  <1>1. r = IF NodeID(<<value>>, key) \in DOMAIN store
            THEN Returns(TRUE, store, top)
            ELSE IF up[0].hash # top.hash THEN Returns(FALSE, store, top)
            ELSE Stored(store, top, key, up, siblings)
    BY VerifyIs
  <1>2. IsBranch(up, value, key, siblings)
    BY BranchIs
  <1>3. top.hash = Commitment(c)
    <2>1. NodeIs(top, store, c, 0, 0)
      BY TopIs DEF Sound
    <2>2. QED
      BY <2>1, TopHash DEF NodeIs
  <1> HIDE DEF r, up
  <1>4. CASE NodeID(<<value>>, key) \in DOMAIN store
    <2>1. value = c[key] /\ Held(store, c, Height - 1, key)
      BY <1>4, StoredLeafIsTrue DEF Sound
    <2>2. r = Returns(TRUE, store, top)
      BY <1>1, <1>4
    <2>3. r.ok = TRUE /\ r.db = store /\ r.root = top /\ r.writes = <<>>
      BY ONLY <2>2 DEF Returns, Outcome
    <2>4. Sound(r.db, r.root, c) /\ Keeps(store, c, r.db, c)
      BY <2>3, KeepsAll
    <2>5. TrueWrites(r.writes)
      BY <2>3, NoWrites
    <2>6. Held(r.db, c, Height - 1, key)
      BY <2>1, <2>3
    <2>7. QED
      BY <2>1, <2>3, <2>4, <2>5, <2>6
  <1>5. CASE NodeID(<<value>>, key) \notin DOMAIN store /\ up[0].hash # top.hash
    <2>1. r = Returns(FALSE, store, top)
      BY <1>1, <1>5
    <2>2. r.ok = FALSE /\ r.db = store /\ r.root = top /\ r.writes = <<>>
      BY ONLY <2>1 DEF Returns, Outcome
    <2>3. Sound(r.db, r.root, c) /\ Keeps(store, c, r.db, c)
      BY <2>2, KeepsAll
    <2>4. TrueWrites(r.writes)
      BY <2>2, NoWrites
    <2>5. QED
      BY <2>2, <2>3, <2>4
  <1>6. CASE NodeID(<<value>>, key) \notin DOMAIN store /\ up[0].hash = top.hash
    <2>1. r = Stored(store, top, key, up, siblings)
      BY <1>1, <1>6
    <2>2. up[0].hash = Commitment(c)
      BY <1>3, <1>6
    <2>3. /\ value = c[key]
          /\ \A d \in Depths : up[d] = TrueNode(c, key, d)
          /\ \A d \in 1..(Height - 1) : siblings[d] = HashBeside(c, key, d)
      BY <1>2, <2>2, BranchLeads
    <2>4. /\ r.ok = TRUE
          /\ Sound(r.db, r.root, c) /\ Keeps(store, c, r.db, c)
          /\ Held(r.db, c, Height - 1, key)
          /\ TrueWrites(r.writes)
      BY <2>1, <2>3, StoredResult
    <2>5. QED
      BY <2>3, <2>4
  <1>7. QED
    BY <1>4, <1>5, <1>6

\* A true proof is accepted.
LEMMA VerifyAccepts ==
  ASSUME NEW store, NEW top, NEW c, Sound(store, top, c), NEW key \in Keys,
         NEW siblings,
         \A d \in 1..(Height - 1) : siblings[d] = HashBeside(c, key, d)
  PROVE  VerifyAndStoreResult(store, top, key, c[key], siblings).ok
  <1> DEFINE r == VerifyAndStoreResult(store, top, key, c[key], siblings)
             leaf == NewNode(Hash(<<c[key]>>), <<c[key]>>, key)
             up == Branch(leaf, key, siblings)
  <1>1. r = IF NodeID(<<c[key]>>, key) \in DOMAIN store
            THEN Returns(TRUE, store, top)
            ELSE IF up[0].hash # top.hash THEN Returns(FALSE, store, top)
            ELSE Stored(store, top, key, up, siblings)
    BY VerifyIs
  <1>2. IsBranch(up, c[key], key, siblings)
    BY BranchIs
  <1>3. top.hash = Commitment(c)
    <2>1. NodeIs(top, store, c, 0, 0)
      BY TopIs DEF Sound
    <2>2. QED
      BY <2>1, TopHash DEF NodeIs
  <1> HIDE DEF r, up
  <1>4. up[0].hash = Commitment(c)
    BY <1>2, BranchOfTree
  <1>5. r = Returns(TRUE, store, top)
        \/ r = Stored(store, top, key, up, siblings)
    BY <1>1, <1>3, <1>4
  <1>6. /\ Returns(TRUE, store, top).ok = TRUE
        /\ Stored(store, top, key, up, siblings).ok = TRUE
    BY ReturnsFields DEF Stored, Writes, Returns, Outcome
  <1>7. QED
    BY <1>5, <1>6 DEF r

-----------------------------------------------------------------------------
(***************************************************************************)
(* The path of a leaf that was never stored.                               *)
(***************************************************************************)
\* A path stops at a node that is not stored with its value.
LEMMA PathStops ==
  ASSUME NEW store, NEW c, Paired(store, c), NEW key \in Keys, NEW p,
         PathOf(p, store, c, key), Len(p) # Height
  PROVE  Len(p) \in 1..(Height - 1) /\ ~OpenOn(store, c, key, Len(p) - 1)
  <1>1. /\ Len(p) \in 1..Height
        /\ ~(/\ OpenOn(store, c, key, Len(p) - 1)
             /\ HeldOn(store, c, key, Len(p)))
    BY DEF PathOf
  <1>2. Len(p) \in 1..(Height - 1)
    BY <1>1, HeightIs
  <1>3. PICK e \in 0..(Height - 2) : e = Len(p) - 1 /\ e + 1 = Len(p)
    <2>1. Len(p) - 1 \in 0..(Height - 2) /\ (Len(p) - 1) + 1 = Len(p)
      BY <1>2, HeightIs
    <2>2. QED
      BY <2>1
  <1>4. ASSUME OpenOn(store, c, key, e)
        PROVE  HeldOn(store, c, key, e + 1)
    <2> DEFINE n == NodeKey(key, e)
    <2>1. e \in Depths
      BY HeightIs DEF Depths
    <2>2. n \in Places(e)
      BY <2>1, NodePlaces
    <2>3. Held(store, c, e + 1, 2 * n) /\ Held(store, c, e + 1, 2 * n + 1)
      BY <1>4, <2>2 DEF Paired, OpenOn
    <2>4. NodeKey(key, e + 1) = IF IsLeft(key, e) THEN 2 * n ELSE 2 * n + 1
      BY NextNode
    <2>5. QED
      BY <2>3, <2>4 DEF HeldOn
  <1>5. QED
    BY <1>1, <1>2, <1>3, <1>4

\* Below it nothing is stored.
LEMMA NothingBelow ==
  ASSUME NEW store, NEW c, Connected(store, c), NEW key \in Keys,
         NEW n \in 1..(Height - 1), ~OpenOn(store, c, key, n - 1)
  PROVE  /\ ~Open(store, c, Height - 1, key)
         /\ \A d \in n..(Height - 1) :
               ~Open(store, c, d, SiblingKey(key, d))
  <1>1. ASSUME NEW e \in Depths, n - 1 <= e, OpenOn(store, c, key, e)
        PROVE  FALSE
    <2>1. e # n - 1
      BY <1>1
    <2>2. n - 1 \in 0..(e - 1)
      BY <1>1, <2>1 DEF Depths
    <2>3. HeldOn(store, c, key, e)
      BY <1>1 DEF OpenOn, Open, HeldOn
    <2>4. OpenOn(store, c, key, n - 1)
      BY <2>2, <2>3, HeldPath
    <2>5. QED
      BY <2>4
  <1>2. ~Open(store, c, Height - 1, key)
    <2>1. Height - 1 \in Depths /\ n - 1 <= Height - 1
      BY HeightIs DEF Depths
    <2>2. ~OpenOn(store, c, key, Height - 1)
      BY <1>1, <2>1
    <2>3. QED
      BY <2>2, LeafNode DEF OpenOn
  <1>3. ASSUME NEW d \in n..(Height - 1),
               Open(store, c, d, SiblingKey(key, d))
        PROVE  FALSE
    <2>1. PICK e \in 0..(Height - 2) : e + 1 = d /\ n - 1 <= e
      <3>1. d - 1 \in 0..(Height - 2) /\ (d - 1) + 1 = d /\ n - 1 <= d - 1
        BY HeightIs
      <3>2. QED
        BY <3>1
    <2>2. Held(store, c, e + 1, SiblingKey(key, e + 1))
      BY <1>3, <2>1 DEF Open
    <2>3. SiblingKey(key, e + 1) \in Places(e + 1)
      BY SiblingNode
    <2>4. Open(store, c, e, SiblingKey(key, e + 1) \div 2)
      BY <2>2, <2>3, ParentIsOpen
    <2>5. SiblingKey(key, e + 1) \div 2 = NodeKey(key, e)
      BY BelowPath
    <2>6. OpenOn(store, c, key, e)
      BY <2>4, <2>5 DEF OpenOn
    <2>7. e \in Depths
      BY HeightIs DEF Depths
    <2>8. QED
      BY <1>1, <2>1, <2>6, <2>7
  <1>4. QED
    BY <1>2, <1>3

LEMMA ZeroLeaf == ZeroHash[Height - 1] = <<Empty>>
  <1>1. 0 \in Keys /\ Height - 1 \in Depths /\ 0 \in Places(Height - 1)
    <2>1. Height - 1 \in 0..Height
      BY HeightIs
    <2>2. 2^(Height - 1) \in Nat \ {0}
      BY <2>1, Powers
    <2>3. QED
      BY <2>2, HeightIs DEF Keys, Depths, Places
  <1>2. Levels(AllEmpty)[Height - 1][0] = ZeroHash[Height - 1]
    BY <1>1, ZeroHashes
  <1>3. Levels(AllEmpty)[Height - 1][0] = <<AllEmpty[0]>>
    BY <1>1, LeafHash
  <1>4. AllEmpty[0] = Empty
    BY <1>1 DEF AllEmpty
  <1>5. QED
    BY <1>2, <1>3, <1>4

\* In a tree of which all but what is stored is empty, it is the empty path.
LEMMA EmptyPathIsTrue ==
  ASSUME NEW store, NEW top, NEW c, Sound(store, top, c), Spare(store, c),
         NEW key \in Keys, Len(NodesInPath(store, top, key)) # Height
  PROVE  /\ c[key] = Empty
         /\ \A d \in 1..(Height - 1) :
               EmptyPathSiblings(store, top, key)[d] = HashBeside(c, key, d)
  <1> DEFINE p == NodesInPath(store, top, key)
             n == Len(p)
  <1>1. PathOf(p, store, c, key)
    BY PathInTree DEF Sound
  <1>2. EmptyPathSiblings(store, top, key)
            = [d \in 1..(Height - 1) |->
                  IF d <= Len(p) /\ IsInner(p[d])
                  THEN SiblingHash(p[d], d - 1, key) ELSE ZeroHash[d]]
    BY DEF EmptyPathSiblings
  <1>3. Len(p) # Height
    OBVIOUS
  <1> HIDE DEF p
  <1>4. n \in 1..(Height - 1) /\ ~OpenOn(store, c, key, n - 1)
    BY <1>1, <1>3, PathStops DEF Sound
  <1>5. /\ ~Open(store, c, Height - 1, key)
        /\ \A d \in n..(Height - 1) :
              ~Open(store, c, d, SiblingKey(key, d))
    BY <1>4, NothingBelow DEF Sound
  <1>6. c[key] = Empty
    <2>1. Height - 1 \in Depths /\ key \in Places(Height - 1)
      BY HeightIs, LeafPlaces DEF Depths
    <2>2. Levels(c)[Height - 1][key] = ZeroHash[Height - 1]
      BY <1>5, <2>1 DEF Spare
    <2>3. <<c[key]>> = <<Empty>>
      BY <2>2, LeafHash, ZeroLeaf
    <2>4. QED
      BY <2>3
  <1>7. ASSUME NEW d \in 1..(Height - 1)
        PROVE  EmptyPathSiblings(store, top, key)[d] = HashBeside(c, key, d)
    <2>1. PICK e \in 0..(Height - 2) : e + 1 = d /\ e = d - 1
      <3>1. d - 1 \in 0..(Height - 2) /\ (d - 1) + 1 = d
        BY HeightIs
      <3>2. QED
        BY <3>1
    <2>2. e \in Depths /\ d \in Depths /\ e # Height - 1
      BY <2>1, HeightIs DEF Depths
    <2>3. EmptyPathSiblings(store, top, key)[d]
              = IF d <= n /\ IsInner(p[d])
                THEN SiblingHash(p[d], e, key) ELSE ZeroHash[d]
      BY <1>2, <2>1
    <2>4. d <= n => NodeIs(p[d], store, c, e, NodeKey(key, e))
      BY <1>1, <1>4, <2>1 DEF PathOf
    <2>5. NodeKey(key, e) \in Places(e)
      BY <2>2, NodePlaces
    <2>6. d <= n => (IsInner(p[d]) <=> OpenOn(store, c, key, e))
      BY <2>2, <2>4, <2>5, InnerNode DEF OpenOn
    <2>7. CASE d < n
      <3>1. OpenOn(store, c, key, e)
        BY <1>1, <1>4, <2>1, <2>7 DEF PathOf
      <3>2. SiblingHash(p[d], e, key) = HashBeside(c, key, e + 1)
        BY <1>4, <2>4, <2>7, <3>1, ChildrenAre
      <3>3. QED
        BY <1>4, <2>1, <2>3, <2>6, <2>7, <3>1, <3>2
    <2>8. CASE ~(d < n)
      <3>1. ~(d <= n /\ IsInner(p[d]))
        BY <1>4, <2>1, <2>6, <2>8
      <3>2. EmptyPathSiblings(store, top, key)[d] = ZeroHash[d]
        BY <2>3, <3>1
      <3>3. d \in n..(Height - 1)
        BY <1>4, <2>8
      <3>4. SiblingKey(key, d) \in Places(d)
        BY <2>1, SiblingNode
      <3>5. ~Open(store, c, d, SiblingKey(key, d))
        BY <1>5, <3>3
      <3>6. Levels(c)[d][SiblingKey(key, d)] = ZeroHash[d]
        BY <2>2, <3>4, <3>5 DEF Spare
      <3>7. QED
        BY <3>2, <3>6 DEF HashBeside
    <2>9. QED
      BY <2>7, <2>8
  <1>8. QED
    BY <1>6, <1>7

\* The tree with the whole path of a leaf is the same tree.
LEMMA OpenedKeeps ==
  ASSUME NEW store, NEW top, NEW c, Sound(store, top, c), NEW key \in Keys
  PROVE  LET r == Opened(store, top, key)
         IN  /\ r.ok \in BOOLEAN
             /\ ~r.ok => r.db = store /\ r.root = top
             /\ Sound(r.db, r.root, c) /\ Keeps(store, c, r.db, c)
             /\ r.ok => Held(r.db, c, Height - 1, key)
             /\ TrueWrites(r.writes)
  <1> DEFINE r == Opened(store, top, key)
             p == NodesInPath(store, top, key)
             Good(s) == /\ s.ok \in BOOLEAN
                        /\ ~s.ok => s.db = store /\ s.root = top
                        /\ Sound(s.db, s.root, c) /\ Keeps(store, c, s.db, c)
                        /\ s.ok => Held(s.db, c, Height - 1, key)
                        /\ TrueWrites(s.writes)
  <1> SUFFICES Good(r)
    OBVIOUS
  <1>1. r = IF Len(p) = Height THEN Returns(TRUE, store, top)
            ELSE VerifyAndStoreResult(store, top, key, Empty,
                                      EmptyPathSiblings(store, top, key))
    BY DEF Opened, EmptyPathResult
  <1>2. PathOf(p, store, c, key)
    BY PathInTree DEF Sound
  <1> HIDE DEF r, p
  <1>3. CASE Len(p) = Height
    <2>1. r = Returns(TRUE, store, top)
      BY <1>1, <1>3
    <2>2. r.ok = TRUE /\ r.db = store /\ r.root = top /\ r.writes = <<>>
      BY ONLY <2>1 DEF Returns, Outcome
    <2>3. Sound(r.db, r.root, c) /\ Keeps(store, c, r.db, c)
      BY <2>2, KeepsAll
    <2>4. TrueWrites(r.writes)
      BY <2>2, NoWrites
    <2>5. Height - 1 \in 1..(Len(p) - 1)
      BY <1>3, HeightIs, TreeAssumption
    <2>6. HeldOn(store, c, key, Height - 1)
      BY <1>2, <2>5 DEF PathOf
    <2>7. Held(r.db, c, Height - 1, key)
      BY <2>2, <2>6, LeafNode DEF HeldOn
    <2>8. QED
      BY <2>2, <2>3, <2>4, <2>7
  <1>4. CASE Len(p) # Height
    <2>1. r = VerifyAndStoreResult(store, top, key, Empty,
                                   EmptyPathSiblings(store, top, key))
      BY <1>1, <1>4
    <2>2. QED
      BY <2>1, VerifyKeeps
  <1>5. QED
    BY <1>3, <1>4

LEMMA OpenedIsOk ==
  ASSUME NEW store, NEW top, NEW c, Sound(store, top, c), NEW key \in Keys,
         Spare(store, c) \/ Held(store, c, Height - 1, key)
  PROVE  Opened(store, top, key).ok
  <1> DEFINE p == NodesInPath(store, top, key)
             sib == EmptyPathSiblings(store, top, key)
  <1>1. Opened(store, top, key)
            = IF Len(p) = Height THEN Returns(TRUE, store, top)
              ELSE VerifyAndStoreResult(store, top, key, Empty, sib)
    BY DEF Opened, EmptyPathResult
  <1>2. PathOf(p, store, c, key)
    BY PathInTree DEF Sound
  <1>3. CASE Len(p) = Height
    <2>1. Opened(store, top, key) = Returns(TRUE, store, top)
      BY <1>1, <1>3
    <2>2. QED
      BY ONLY <2>1 DEF Returns, Outcome
  <1>4. CASE Len(p) # Height
    <2>1. ~Held(store, c, Height - 1, key)
      BY <1>2, <1>4, FullPath DEF Sound
    <2>2. c[key] = Empty /\ \A d \in 1..(Height - 1) :
                               sib[d] = HashBeside(c, key, d)
      BY <1>4, <2>1, EmptyPathIsTrue
    <2>3. VerifyAndStoreResult(store, top, key, c[key], sib).ok
      BY <2>2, VerifyAccepts
    <2>4. QED
      BY <1>1, <1>4, <2>2, <2>3
  <1>5. QED
    BY <1>3, <1>4

-----------------------------------------------------------------------------
(***************************************************************************)
(* A leaf gets a new value: update.  Here b is the tree with that value.   *)
(***************************************************************************)
Differs(b, c, key) == \A k \in Keys : k # key => b[k] = c[k]

LEMMA SameBeside ==
  ASSUME NEW b, NEW c, NEW key \in Keys, Differs(b, c, key),
         NEW d \in 1..(Height - 1)
  PROVE  HashBeside(b, key, d) = HashBeside(c, key, d)
  <1>1. PICK e \in 0..(Height - 2) : e + 1 = d
    <2>1. d - 1 \in 0..(Height - 2) /\ (d - 1) + 1 = d
      BY HeightIs
    <2>2. QED
      BY <2>1
  <1>2. d \in Depths
    BY HeightIs DEF Depths
  <1>3. /\ SiblingKey(key, d) \in Places(d)
        /\ SiblingKey(key, d) # NodeKey(key, d)
    BY <1>1, SiblingNode
  <1>4. QED
    BY <1>2, <1>3, OffPath DEF HashBeside, Differs

LEMMA UpdatedNodes ==
  ASSUME NEW store, NEW top, NEW c, Sound(store, top, c), NEW key \in Keys,
         Held(store, c, Height - 1, key), NEW b, Differs(b, c, key)
  PROVE  LET up == UpdatedPath(NodesInPath(store, top, key), key, b[key])
         IN  /\ DOMAIN up = 0..(Height - 1)
             /\ \A d \in Depths : up[d] = TrueNode(b, key, d)
  <1> DEFINE p == NodesInPath(store, top, key)
             up == UpdatedPath(p, key, b[key])
             siblings == [d \in 1..(Height - 1) |->
                             SiblingHash(p[d], d - 1, key)]
  <1>1. PathOf(p, store, c, key)
    BY PathInTree DEF Sound
  <1> HIDE DEF p
  <1>2. Len(p) = Height
    BY <1>1, FullPath DEF Sound
  <1>3. ASSUME NEW d \in Depths
        PROVE  p[d + 1].key = NodeKey(key, d)
    <2>1. d + 1 \in 1..Len(p) /\ (d + 1) - 1 = d
      BY <1>2, HeightIs DEF Depths
    <2>2. NodeIs(p[d + 1], store, c, d, NodeKey(key, d))
      BY <1>1, <2>1 DEF PathOf
    <2>3. QED
      BY <2>2 DEF NodeIs
  <1>4. IsBranch(up, b[key], key, siblings)
    BY <1>2, <1>3, UpdatedIs
  <1>5. ASSUME NEW d \in 1..(Height - 1)
        PROVE  siblings[d] = HashBeside(b, key, d)
    <2>1. PICK e \in 0..(Height - 2) : e + 1 = d /\ e = d - 1
      <3>1. d - 1 \in 0..(Height - 2) /\ (d - 1) + 1 = d
        BY HeightIs
      <3>2. QED
        BY <3>1
    <2>2. d \in 1..Len(p) /\ d \in 1..(Len(p) - 1)
      BY <1>2, HeightIs
    <2>3. /\ NodeIs(p[d], store, c, e, NodeKey(key, e))
          /\ OpenOn(store, c, key, e)
      BY <1>1, <2>1, <2>2 DEF PathOf
    <2>4. SiblingHash(p[d], e, key) = HashBeside(c, key, e + 1)
      BY <2>3, ChildrenAre
    <2>5. siblings[d] = SiblingHash(p[d], e, key)
      BY <2>1
    <2>6. QED
      BY <2>1, <2>4, <2>5, SameBeside
  <1> HIDE DEF up, siblings
  <1>6. \A d \in Depths : up[d] = TrueNode(b, key, d)
    BY <1>4, <1>5, BranchOfTree
  <1>7. DOMAIN up = 0..(Height - 1)
    <2>1. up = [d \in Depths |-> up[d]]
      BY <1>4 DEF IsBranch
    <2>2. QED
      BY <2>1 DEF Depths
  <1>8. QED
    BY <1>6, <1>7 DEF up, p

\* The new nodes of the path take the place of the old ones.
LEMMA UpdateWidens ==
  ASSUME NEW store, NEW top, NEW c, Sound(store, top, c), NEW key \in Keys,
         Held(store, c, Height - 1, key), NEW b, Differs(b, c, key),
         b[key] # c[key]
  PROVE  Widened(store, c, key, b,
                 Applied(store, Batch(TrueBranch(b, key), PathIds(c, key))))
  <1> DEFINE O == PathIds(c, key)
             P == PathIds(b, key)
             nodes == TrueBranch(b, key)
             batch == Batch(nodes, O)
             st == Applied(store, batch)
  <1> SUFFICES Widened(store, c, key, b, st)
    OBVIOUS
  <1>1. /\ \A n \in nodes : ID(n) \in P /\ n.value = ID(n).hash
        /\ \A id \in P : \E n \in nodes : ID(n) = id
    BY BranchNodes
  <1>2. ASSUME NEW id \in O, id \in P
        PROVE  FALSE
    <2>1. PICK d \in Depths : id = IdAt(c, d, NodeKey(key, d))
      BY <1>2 DEF PathIds
    <2>2. PICK k \in Places(d) : k = NodeKey(key, d)
      BY NodePlaces
    <2>3. PICK e \in Depths : id = IdAt(b, e, NodeKey(key, e))
      BY <1>2 DEF PathIds
    <2>4. PICK l \in Places(e) : l = NodeKey(key, e)
      BY NodePlaces
    <2>5. IdAt(c, d, k) = IdAt(b, e, l)
      BY <2>1, <2>2, <2>3, <2>4
    <2>6. d = e /\ k = l /\ Levels(c)[d][k] = Levels(b)[e][l]
      BY ONLY <2>5, d \in Depths, k \in Places(d), e \in Depths,
              l \in Places(e), IdIsKnown
    <2>7. HashOn(c, key, d) = HashOn(b, key, d)
      BY <2>2, <2>4, <2>6 DEF HashOn
    <2>8. QED
      BY <2>7, OnPathDiffers
  <1>3. batch.put = nodes /\ batch.del = O
    BY BatchFields
  <1> HIDE DEF batch, nodes, O, P
  <1>4. Alike(batch.put)
    BY <1>1, <1>3 DEF Alike
  <1>5. /\ DOMAIN st = (DOMAIN store \cup {ID(n) : n \in batch.put})
                          \ batch.del
        /\ \A n \in batch.put : ID(n) \notin batch.del => st[ID(n)] = n.value
        /\ \A id \in DOMAIN store \ batch.del :
              (\A n \in batch.put : ID(n) # id) => st[id] = store[id]
    BY <1>4, AppliedIs
  <1> HIDE DEF st
  <1>6. DOMAIN st = (DOMAIN store \ O) \cup P
    BY <1>1, <1>2, <1>3, <1>5
  <1>7. \A id \in P : st[id] = id.hash
    BY <1>1, <1>2, <1>3, <1>5
  <1>8. \A id \in (DOMAIN store \ O) \ P : st[id] = store[id]
    BY <1>1, <1>3, <1>5
  <1>9. StoreIsTrue(st)
    <2>1. StoreIsTrue(store)
      BY DEF Sound
    <2>2. ASSUME NEW id \in DOMAIN st
          PROVE  st[id] = Placeholder \/ st[id] = id.hash
      <3>1. id \in DOMAIN store => store[id] = Placeholder
                                   \/ store[id] = id.hash
        BY <2>1 DEF StoreIsTrue, Hash
      <3>2. QED
        BY <1>6, <1>7, <1>8, <3>1
    <2>3. QED
      BY <2>2 DEF StoreIsTrue, Hash
  <1>10. ASSUME NEW d \in Depths, NEW k \in Places(d), ~OnPath(key, d, k)
         PROVE  /\ IdAt(b, d, k) = IdAt(c, d, k)
                /\ IdAt(b, d, k) \notin O /\ IdAt(b, d, k) \notin P
    <2>1. Levels(b)[d][k] = Levels(c)[d][k]
      BY <1>10, OffPath DEF OnPath, Differs
    <2>2. IdAt(b, d, k) = IdAt(c, d, k)
      BY <2>1 DEF IdAt
    <2>3. IdAt(c, d, k) \notin O /\ IdAt(b, d, k) \notin P
      BY <1>10, PathPlace DEF O, P
    <2>4. QED
      BY <2>2, <2>3
  <1>11. InTree(st, b)
    <2>1. ASSUME NEW id \in DOMAIN st
          PROVE  \E d \in Depths : \E k \in Places(d) : id = IdAt(b, d, k)
      <3>1. CASE id \in P
        BY <3>1, NodePlaces DEF P, PathIds
      <3>2. CASE id \in DOMAIN store /\ id \notin O
        <4>1. PICK d \in Depths : \E k \in Places(d) : id = IdAt(c, d, k)
          BY <3>2 DEF Sound, Connected
        <4>2. PICK k \in Places(d) : id = IdAt(c, d, k)
          BY <4>1
        <4>3. ~OnPath(key, d, k)
          BY <3>2, <4>2, PathPlace DEF O
        <4>4. id = IdAt(b, d, k)
          BY <1>10, <4>2, <4>3
        <4>5. QED
          BY <4>4
      <3>3. QED
        BY <1>6, <3>1, <3>2
    <2>2. QED
      BY <2>1 DEF InTree
  <1>12. ASSUME NEW d \in Depths, NEW k \in Places(d), Beside(key, d, k)
         PROVE  Held(store, c, d, k)
    <2>1. PICK e \in 0..(Height - 2) : e + 1 = d
      <3>1. d - 1 \in 0..(Height - 2) /\ (d - 1) + 1 = d
        BY <1>12, HeightIs DEF Beside, Depths
      <3>2. QED
        BY <3>1
    <2> DEFINE n == NodeKey(key, e)
    <2>2. e \in 0..(Height - 1 - 1) /\ Height - 1 \in Depths /\ e \in Depths
      BY HeightIs DEF Depths
    <2>3. HeldOn(store, c, key, Height - 1)
      BY LeafNode DEF HeldOn
    <2>4. OpenOn(store, c, key, e)
      BY <2>2, <2>3, HeldPath DEF Sound
    <2>5. n \in Places(e)
      BY <2>2, NodePlaces
    <2>6. Held(store, c, e + 1, 2 * n) /\ Held(store, c, e + 1, 2 * n + 1)
      BY <2>4, <2>5 DEF Sound, Paired, OpenOn
    <2>7. k = IF IsLeft(key, e) THEN 2 * n + 1 ELSE 2 * n
      BY <1>12, <2>1, SiblingNode DEF Beside
    <2>8. QED
      BY <2>1, <2>6, <2>7
  <1>13. ASSUME NEW d \in Depths, NEW k \in Places(d)
         PROVE  /\ Open(st, b, d, k) <=> \/ Open(store, c, d, k)
                                         \/ OnPath(key, d, k)
                /\ Held(st, b, d, k) <=> \/ Held(store, c, d, k)
                                         \/ OnPath(key, d, k)
                                         \/ Beside(key, d, k)
    <2> DEFINE id == IdAt(b, d, k)
               was == IdAt(c, d, k)
    <2>1. id.hash # Placeholder
      BY IdFields, HashIsNoPlaceholder
    <2>2. /\ Held(st, b, d, k) <=> id \in DOMAIN st
          /\ Held(store, c, d, k) <=> was \in DOMAIN store
          /\ Open(st, b, d, k) <=> id \in DOMAIN st /\ st[id] # Placeholder
          /\ Open(store, c, d, k) <=>
                was \in DOMAIN store /\ store[was] # Placeholder
      BY DEF Held, Open
    <2>3. CASE OnPath(key, d, k)
      <3>1. id \in P
        BY <2>3, PathPlace DEF P
      <3>2. id \in DOMAIN st /\ st[id] # Placeholder
        BY <1>6, <1>7, <2>1, <3>1
      <3>3. QED
        BY <2>2, <2>3, <3>2
    <2>4. CASE ~OnPath(key, d, k)
      <3>1. id = was /\ id \notin O /\ id \notin P
        BY <1>10, <2>4
      <3> HIDE DEF id, was
      <3>2. /\ id \in DOMAIN st <=> was \in DOMAIN store
            /\ id \in DOMAIN st => st[id] = store[was]
        BY <1>6, <1>8, <3>1
      <3>3. QED
        BY <1>12, <2>2, <2>4, <3>2
    <2>5. QED
      BY <2>3, <2>4
  <1>14. QED
    BY <1>9, <1>11, <1>13 DEF Widened

\* What update gives: it is refused only when the path is.
LEMMA UpdateKeeps ==
  ASSUME NEW store, NEW top, NEW c, Sound(store, top, c), NEW key \in Keys,
         NEW b, Differs(b, c, key)
  PROVE  LET r == UpdateResult(store, top, key, b[key])
         IN  /\ r.ok = Opened(store, top, key).ok
             /\ ~r.ok => r.db = store /\ r.root = top
             /\ TrueWrites(r.writes)
             /\ r.ok /\ b[key] # c[key] =>
                   /\ Sound(r.db, r.root, b) /\ Keeps(store, c, r.db, b)
                   /\ Open(r.db, b, Height - 1, key)
  <1> DEFINE r == UpdateResult(store, top, key, b[key])
             opened == Opened(store, top, key)
             path == NodesInPath(opened.db, opened.root, key)
             up == UpdatedPath(path, key, b[key])
             nodes == {up[d] : d \in 0..(Height - 1)}
             old == {ID(n) : n \in ToSet(path)}
             batch == Batch(nodes, old)
             Good(s) == /\ s.ok = opened.ok
                        /\ ~s.ok => s.db = store /\ s.root = top
                        /\ TrueWrites(s.writes)
                        /\ s.ok /\ b[key] # c[key] =>
                              /\ Sound(s.db, s.root, b)
                              /\ Keeps(store, c, s.db, b)
                              /\ Open(s.db, b, Height - 1, key)
  <1> SUFFICES Good(r)
    OBVIOUS
  <1>1. /\ opened.ok \in BOOLEAN
        /\ ~opened.ok => opened.db = store /\ opened.root = top
        /\ Sound(opened.db, opened.root, c) /\ Keeps(store, c, opened.db, c)
        /\ opened.ok => Held(opened.db, c, Height - 1, key)
        /\ TrueWrites(opened.writes)
    BY OpenedKeeps
  <1>2. /\ ~opened.ok => r = opened
        /\ opened.ok =>
              /\ r.ok = opened.ok /\ r.root = up[0]
              /\ r.db = Applied(opened.db, Batch({up[d] : d \in DOMAIN up},
                                                 old))
              /\ r.writes = Append(opened.writes,
                                   Batch({up[d] : d \in DOMAIN up}, old))
    BY DEF UpdateResult, Writes, Outcome
  <1> HIDE DEF r
  <1>3. CASE ~opened.ok
    <2> HIDE DEF opened
    <2>1. r = opened
      BY <1>2, <1>3
    <2>2. QED
      BY <1>1, <1>3, <2>1
  <1>4. CASE opened.ok
    <2>1. DOMAIN up = 0..(Height - 1)
          /\ \A d \in Depths : up[d] = TrueNode(b, key, d)
      BY <1>1, <1>4, UpdatedNodes
    <2> HIDE DEF up
    <2>2. nodes = TrueBranch(b, key)
      BY <2>1 DEF TrueBranch, Depths
    <2> HIDE DEF nodes
    <2>3. ASSUME b[key] # c[key]
          PROVE  Widened(opened.db, c, key, b, Applied(opened.db, batch))
      <3>1. /\ Sound(opened.db, opened.root, c)
            /\ Held(opened.db, c, Height - 1, key)
        BY <1>1, <1>4
      <3>2. old = PathIds(c, key)
        <4>1. PathOf(path, opened.db, c, key)
          BY <3>1, PathInTree DEF Sound
        <4> HIDE DEF opened, path
        <4>2. Len(path) = Height
          BY <3>1, <4>1, FullPath DEF Sound
        <4>3. QED
          BY <4>1, <4>2, OldIds
      <3> HIDE DEF old, opened
      <3>3. Widened(opened.db, c, key, b,
                    Applied(opened.db, Batch(nodes, PathIds(c, key))))
        <4>1. Widened(opened.db, c, key, b,
                      Applied(opened.db, Batch(TrueBranch(b, key),
                                               PathIds(c, key))))
          BY <2>3, <3>1, UpdateWidens
        <4>2. QED
          BY <2>2, <4>1
      <3>4. QED
        BY <3>2, <3>3
    <2> HIDE DEF opened, path
    <2>4. /\ r.ok = opened.ok /\ r.root = up[0]
          /\ r.db = Applied(opened.db, batch)
          /\ r.writes = Append(opened.writes, batch)
      <3>1. {up[d] : d \in DOMAIN up} = nodes
        BY <2>1 DEF nodes
      <3>2. QED
        BY <1>2, <1>4, <3>1
    <2>5. batch.put = nodes
      BY BatchFields
    <2> HIDE DEF nodes, old, batch
    <2>6. TrueNodes(batch.put)
      BY <2>2, <2>5, BranchNodes DEF TrueNodes
    <2>7. TrueWrites(r.writes)
      BY <1>1, <2>4, <2>6, MoreWrites
    <2>8. ASSUME b[key] # c[key]
          PROVE  /\ Sound(r.db, r.root, b) /\ Keeps(store, c, r.db, b)
                 /\ Open(r.db, b, Height - 1, key)
      <3>1. Widened(opened.db, c, key, b, r.db)
        BY <2>3, <2>4, <2>8
      <3>2. r.root = TrueNode(b, key, 0)
        BY <2>1, <2>4, HeightIs DEF Depths
      <3>3. Sound(r.db, TrueNode(b, key, 0), b)
        BY <1>1, <3>1, WidenedIsSound
      <3>4. Keeps(opened.db, c, r.db, b) /\ Open(r.db, b, Height - 1, key)
        BY <3>1, WidenedKeeps DEF Differs
      <3>5. Keeps(store, c, r.db, b)
        BY <1>1, <3>4, KeepsOn
      <3>6. QED
        BY <3>2, <3>3, <3>4, <3>5
    <2>9. QED
      BY <1>4, <2>4, <2>7, <2>8
  <1>5. QED
    BY <1>3, <1>4

-----------------------------------------------------------------------------
(***************************************************************************)
(* Two proofs are verified, and then both leaves updated: batchUpdate.     *)
(***************************************************************************)
IsOutcome(r) == r = Outcome(r.ok, r.db, r.root, r.writes)

LEMMA VerifyIsOutcome ==
  ASSUME NEW store, NEW top, NEW key, NEW value, NEW siblings
  PROVE  IsOutcome(VerifyAndStoreResult(store, top, key, value, siblings))
  <1>1. \A ok : IsOutcome(Returns(ok, store, top))
    BY DEF IsOutcome, Returns, Outcome
  <1>2. \A branch : IsOutcome(Stored(store, top, key, branch, siblings))
    BY DEF IsOutcome, Stored, Writes, Returns, Outcome
  <1>3. QED
    BY <1>1, <1>2 DEF VerifyAndStoreResult

LEMMA UpdateIsOutcome ==
  ASSUME NEW store, NEW top, NEW key, NEW value
  PROVE  IsOutcome(UpdateResult(store, top, key, value))
  <1>1. IsOutcome(Returns(TRUE, store, top))
    BY DEF IsOutcome, Returns, Outcome
  <1>2. IsOutcome(Opened(store, top, key))
    BY <1>1, VerifyIsOutcome DEF Opened, EmptyPathResult
  <1>3. \A r, batch, node : IsOutcome(Writes(r, batch, node))
    BY DEF IsOutcome, Writes, Outcome
  <1>4. QED
    BY <1>2, <1>3 DEF UpdateResult

\* A call does what its operation does.
Does(after, r) == after.ok = r.ok /\ after.db = r.db /\ after.root = r.root

LEMMA ThenVerifies ==
  ASSUME NEW before, before.ok, NEW call, call.verify = TRUE
  PROVE  Does(Then(before, call),
              VerifyAndStoreResult(before.db, before.root, call.key,
                                   call.value, call.siblings))
  <1> DEFINE r == VerifyAndStoreResult(before.db, before.root, call.key,
                                       call.value, call.siblings)
  <1>1. Then(before, call) = [r EXCEPT !.writes = before.writes \o @]
    BY DEF Then
  <1>2. r = Outcome(r.ok, r.db, r.root, r.writes)
    BY VerifyIsOutcome DEF IsOutcome
  <1> HIDE DEF r
  <1>3. Does([r EXCEPT !.writes = before.writes \o @], r)
    BY <1>2 DEF Outcome, Does
  <1>4. QED
    BY <1>1, <1>3 DEF r

LEMMA ThenUpdates ==
  ASSUME NEW before, before.ok, NEW call, call.verify = FALSE
  PROVE  Does(Then(before, call),
              UpdateResult(before.db, before.root, call.key, call.value))
  <1> DEFINE r == UpdateResult(before.db, before.root, call.key, call.value)
  <1>1. Then(before, call) = [r EXCEPT !.writes = before.writes \o @]
    BY DEF Then
  <1>2. r = Outcome(r.ok, r.db, r.root, r.writes)
    BY UpdateIsOutcome DEF IsOutcome
  <1> HIDE DEF r
  <1>3. Does([r EXCEPT !.writes = before.writes \o @], r)
    BY <1>2 DEF Outcome, Does
  <1>4. QED
    BY <1>1, <1>3 DEF r

\* The calls of a batch, one after the other.
Calls(store, top, calls, after) ==
    after = [i \in 0..Len(calls) |->
                IF i = 0 THEN Returns(TRUE, store, top)
                         ELSE Then(after[i - 1], calls[i])]

LEMMA FourCalls ==
  ASSUME NEW store, NEW top, NEW calls, Len(calls) = 4
  PROVE  \E after : Calls(store, top, calls, after)
  <1> DEFINE a == Returns(TRUE, store, top)
             b == Then(a, calls[1])
             c == Then(b, calls[2])
             d == Then(c, calls[3])
             e == Then(d, calls[4])
  <1> HIDE DEF a, b, c, d, e
  <1> DEFINE f == [i \in 0..4 |-> IF i = 0 THEN a ELSE IF i = 1 THEN b
                                  ELSE IF i = 2 THEN c ELSE IF i = 3 THEN d
                                  ELSE e]
  <1>1. f[0] = a /\ f[1] = b /\ f[2] = c /\ f[3] = d /\ f[4] = e
    OBVIOUS
  <1>2. f = [i \in 0..4 |-> f[i]]
    OBVIOUS
  <1> HIDE DEF f
  <1>3. ASSUME NEW i \in 0..4
        PROVE  f[i] = IF i = 0 THEN Returns(TRUE, store, top)
                               ELSE Then(f[i - 1], calls[i])
    <2>1. i = 0 \/ i = 1 \/ i = 2 \/ i = 3 \/ i = 4
      OBVIOUS
    <2>2. /\ 1 - 1 = 0 /\ 2 - 1 = 1 /\ 3 - 1 = 2 /\ 4 - 1 = 3
      OBVIOUS
    <2>3. CASE i = 0
      BY <1>1, <2>3 DEF a
    <2>4. CASE i = 1
      BY <1>1, <2>2, <2>4 DEF b
    <2>5. CASE i = 2
      BY <1>1, <2>2, <2>5 DEF c
    <2>6. CASE i = 3
      BY <1>1, <2>2, <2>6 DEF d
    <2>7. CASE i = 4
      BY <1>1, <2>2, <2>7 DEF e
    <2>8. QED
      BY <2>1, <2>3, <2>4, <2>5, <2>6, <2>7
  <1>4. f = [i \in 0..Len(calls) |-> IF i = 0 THEN Returns(TRUE, store, top)
                                      ELSE Then(f[i - 1], calls[i])]
    BY <1>2, <1>3
  <1>5. QED
    BY <1>4 DEF Calls

InOrder(store, top, calls, after) ==
    /\ after[0] = Returns(TRUE, store, top)
    /\ after[1] = Then(after[0], calls[1])
    /\ after[2] = Then(after[1], calls[2])
    /\ after[3] = Then(after[2], calls[3])
    /\ after[4] = Then(after[3], calls[4])

LEMMA CallsInOrder ==
  ASSUME NEW store, NEW top, NEW calls, Len(calls) = 4, NEW after,
         Calls(store, top, calls, after)
  PROVE  InOrder(store, top, calls, after)
  <1>1. after = [i \in 0..4 |-> IF i = 0 THEN Returns(TRUE, store, top)
                                         ELSE Then(after[i - 1], calls[i])]
    BY DEF Calls
  <1>2. after[0] = Returns(TRUE, store, top)
    BY <1>1
  <1>3. ASSUME NEW i \in 1..4
        PROVE  after[i] = Then(after[i - 1], calls[i])
    <2>1. i \in 0..4 /\ i # 0
      OBVIOUS
    <2>2. after[i] = IF i = 0 THEN Returns(TRUE, store, top)
                              ELSE Then(after[i - 1], calls[i])
      BY <1>1, <2>1
    <2>3. QED
      BY <2>1, <2>2
  <1>4. after[1] = Then(after[0], calls[1])
    BY <1>3
  <1>5. after[2] = Then(after[1], calls[2])
    BY <1>3
  <1>6. after[3] = Then(after[2], calls[3])
    BY <1>3
  <1>7. after[4] = Then(after[3], calls[4])
    BY <1>3
  <1>8. QED
    BY <1>2, <1>4, <1>5, <1>6, <1>7 DEF InOrder

\* The calls that batchUpdate makes for two leaves.
Verifies(call, u) ==
    /\ call.verify = TRUE /\ call.key = u.key /\ call.value = u.old
    /\ call.siblings = u.siblings

Updates(call, u) ==
    call.verify = FALSE /\ call.key = u.key /\ call.value = u.new

LEMMA TwoAndTwo ==
  ASSUME NEW s, NEW t, NEW a, NEW b, NEW c, NEW d,
         s = <<a, b>>, t = <<c, d>>
  PROVE  /\ Len(s \o t) = 4 /\ (s \o t)[1] = a /\ (s \o t)[2] = b
         /\ (s \o t)[3] = c /\ (s \o t)[4] = d
  <1> DEFINE S == {a, b, c, d}
             r == s \o t
  <1>1. s \in Seq(S) /\ t \in Seq(S) /\ Len(s) = 2 /\ Len(t) = 2
    OBVIOUS
  <1>2. s[1] = a /\ s[2] = b /\ t[1] = c /\ t[2] = d
    OBVIOUS
  <1> HIDE DEF S
  <1>3. /\ Len(r) = Len(s) + Len(t)
        /\ \A i \in 1..(Len(s) + Len(t)) :
              r[i] = IF i <= Len(s) THEN s[i] ELSE t[i - Len(s)]
    BY <1>1, ConcatProperties
  <1> HIDE DEF r
  <1>4. \A i \in 1..4 : r[i] = IF i <= 2 THEN s[i] ELSE t[i - 2]
    BY <1>1, <1>3
  <1>5. r[1] = a /\ r[2] = b
    BY <1>2, <1>4
  <1>6. r[3] = c
    <2>1. r[3] = t[3 - 2]
      BY <1>4
    <2>2. 3 - 2 = 1
      OBVIOUS
    <2>3. QED
      BY <1>2, <2>1, <2>2
  <1>7. r[4] = d
    <2>1. r[4] = t[4 - 2]
      BY <1>4
    <2>2. 4 - 2 = 2
      OBVIOUS
    <2>3. QED
      BY <1>2, <2>1, <2>2
  <1>8. Len(r) = 4
    BY <1>1, <1>3
  <1>9. QED
    BY <1>5, <1>6, <1>7, <1>8 DEF r

LEMMA PairOf ==
  ASSUME NEW f, f = [i \in 1..2 |-> f[i]]
  PROVE  f = <<f[1], f[2]>>
  <1> DEFINE t == <<f[1], f[2]>>
  <1>1. t = [i \in 1..2 |-> t[i]] /\ t[1] = f[1] /\ t[2] = f[2]
    OBVIOUS
  <1> HIDE DEF t
  <1>2. \A i \in 1..2 : t[i] = f[i]
    BY <1>1
  <1>3. t = f
    BY <1>1, <1>2
  <1>4. QED
    BY <1>3 DEF t

LEMMA BatchIs ==
  ASSUME NEW store, NEW top, NEW u, NEW v, NEW updates,
         DOMAIN updates = 1..2, updates[1] = u, updates[2] = v
  PROVE  \E calls, after :
            /\ Len(calls) = 4 /\ Calls(store, top, calls, after)
            /\ Verifies(calls[1], u) /\ Verifies(calls[2], v)
            /\ Updates(calls[3], u) /\ Updates(calls[4], v)
            /\ BatchUpdateResult(store, top, updates) = after[4]
  <1> DEFINE verifyOf(w) == [verify |-> TRUE, key |-> w.key, value |-> w.old,
                             siblings |-> w.siblings]
             updateOf(w) == [verify |-> FALSE, key |-> w.key,
                             value |-> w.new]
             verify == [i \in DOMAIN updates |->
                           [verify |-> TRUE, key |-> updates[i].key,
                            value |-> updates[i].old,
                            siblings |-> updates[i].siblings]]
             update == [i \in DOMAIN updates |->
                           [verify |-> FALSE, key |-> updates[i].key,
                            value |-> updates[i].new]]
             calls == verify \o update
  <1>1. DOMAIN updates = 1..2 /\ 1 \in 1..2 /\ 2 \in 1..2
    OBVIOUS
  <1>2. Verifies(verifyOf(u), u) /\ Verifies(verifyOf(v), v)
    BY DEF Verifies
  <1>3. Updates(updateOf(u), u) /\ Updates(updateOf(v), v)
    BY DEF Updates
  <1>4. verify = <<verifyOf(u), verifyOf(v)>>
    <2>1. /\ verify = [i \in 1..2 |-> verify[i]]
          /\ verify[1] = verifyOf(u) /\ verify[2] = verifyOf(v)
      BY <1>1
    <2> HIDE DEF verify, verifyOf
    <2>2. QED
      BY <2>1, PairOf
  <1>5. update = <<updateOf(u), updateOf(v)>>
    <2>1. /\ update = [i \in 1..2 |-> update[i]]
          /\ update[1] = updateOf(u) /\ update[2] = updateOf(v)
      BY <1>1
    <2> HIDE DEF update, updateOf
    <2>2. QED
      BY <2>1, PairOf
  <1>6. BatchUpdateResult(store, top, updates)
            = (CHOOSE after : after =
                  [i \in 0..Len(calls) |->
                      IF i = 0 THEN Returns(TRUE, store, top)
                               ELSE Then(after[i - 1], calls[i])])[Len(calls)]
    BY DEF BatchUpdateResult
  <1> HIDE DEF verify, update, verifyOf, updateOf
  <1>7. /\ Len(calls) = 4
        /\ calls[1] = verifyOf(u) /\ calls[2] = verifyOf(v)
        /\ calls[3] = updateOf(u) /\ calls[4] = updateOf(v)
    BY <1>4, <1>5, TwoAndTwo
  <1> HIDE DEF calls
  <1> DEFINE after == CHOOSE after : after =
                  [i \in 0..Len(calls) |->
                      IF i = 0 THEN Returns(TRUE, store, top)
                               ELSE Then(after[i - 1], calls[i])]
  <1>8. BatchUpdateResult(store, top, updates) = after[4]
    BY <1>6, <1>7
  <1>9. Calls(store, top, calls, after)
    <2>1. \E f : f = [i \in 0..Len(calls) |->
                         IF i = 0 THEN Returns(TRUE, store, top)
                                  ELSE Then(f[i - 1], calls[i])]
      <3>1. PICK f : Calls(store, top, calls, f)
        BY <1>7, FourCalls
      <3>2. QED
        BY <3>1 DEF Calls
    <2>2. after = [i \in 0..Len(calls) |->
                      IF i = 0 THEN Returns(TRUE, store, top)
                               ELSE Then(after[i - 1], calls[i])]
      BY <2>1
    <2> HIDE DEF after
    <2>3. QED
      BY <2>2 DEF Calls
  <1> HIDE DEF after
  <1>10. /\ Verifies(calls[1], u) /\ Verifies(calls[2], v)
         /\ Updates(calls[3], u) /\ Updates(calls[4], v)
    BY <1>2, <1>3, <1>7
  <1>11. /\ Len(calls) = 4 /\ Calls(store, top, calls, after)
         /\ Verifies(calls[1], u) /\ Verifies(calls[2], v)
         /\ Updates(calls[3], u) /\ Updates(calls[4], v)
         /\ BatchUpdateResult(store, top, updates) = after[4]
    BY <1>7, <1>8, <1>9, <1>10
  <1>12. QED
    BY <1>11

LEMMA VerifyCall ==
  ASSUME NEW x, NEW c, x.ok, Sound(x.db, x.root, c), NEW key \in Keys,
         NEW call, NEW u, Verifies(call, u), u.key = key, u.old = c[key],
         u.siblings = TrueSiblings(c, key), NEW y, y = Then(x, call)
  PROVE  /\ y.ok /\ Sound(y.db, y.root, c) /\ Keeps(x.db, c, y.db, c)
         /\ Held(y.db, c, Height - 1, key)
  <1> DEFINE r == VerifyAndStoreResult(x.db, x.root, key, c[key],
                                       TrueSiblings(c, key))
  <1>1. \A d \in 1..(Height - 1) :
            TrueSiblings(c, key)[d] = HashBeside(c, key, d)
    BY SiblingsAre
  <1>2. r.ok
    BY <1>1, VerifyAccepts
  <1>3. /\ Sound(r.db, r.root, c) /\ Keeps(x.db, c, r.db, c)
        /\ r.ok => Held(r.db, c, Height - 1, key)
    BY VerifyKeeps
  <1>4. /\ call.verify = TRUE /\ call.key = key /\ call.value = c[key]
        /\ call.siblings = TrueSiblings(c, key)
    BY DEF Verifies
  <1>5. Does(Then(x, call),
             VerifyAndStoreResult(x.db, x.root, call.key, call.value,
                                  call.siblings))
    BY <1>4, ThenVerifies
  <1>6. Does(y, r)
    BY <1>4, <1>5
  <1> HIDE DEF r
  <1>7. QED
    BY <1>2, <1>3, <1>6 DEF Does

LEMMA UpdateCall ==
  ASSUME NEW x, NEW c, x.ok, Sound(x.db, x.root, c), NEW key \in Keys,
         Held(x.db, c, Height - 1, key),
         NEW call, NEW u, Updates(call, u), u.key = key,
         NEW b, Differs(b, c, key), u.new = b[key], b[key] # c[key],
         NEW y, y = Then(x, call)
  PROVE  /\ y.ok /\ Sound(y.db, y.root, b) /\ Keeps(x.db, c, y.db, b)
         /\ Open(y.db, b, Height - 1, key)
  <1> DEFINE r == UpdateResult(x.db, x.root, key, b[key])
  <1>1. Opened(x.db, x.root, key).ok
    BY OpenedIsOk
  <1>2. /\ r.ok = Opened(x.db, x.root, key).ok
        /\ r.ok /\ b[key] # c[key] =>
              /\ Sound(r.db, r.root, b) /\ Keeps(x.db, c, r.db, b)
              /\ Open(r.db, b, Height - 1, key)
    BY UpdateKeeps
  <1>3. call.verify = FALSE /\ call.key = key /\ call.value = b[key]
    BY DEF Updates
  <1>4. Does(Then(x, call),
             UpdateResult(x.db, x.root, call.key, call.value))
    BY <1>3, ThenUpdates
  <1>5. Does(y, r)
    BY <1>3, <1>4
  <1> HIDE DEF r
  <1>6. QED
    BY <1>1, <1>2, <1>5 DEF Does

\* A batch with true proofs of both leaves is never refused.
LEMMA BatchUpdateKeeps ==
  ASSUME NEW store, NEW top, NEW c, Sound(store, top, c),
         NEW key1 \in Keys, NEW key2 \in Keys, key1 # key2,
         NEW u, NEW v, NEW updates,
         DOMAIN updates = 1..2, updates[1] = u, updates[2] = v,
         u.key = key1, u.old = c[key1], u.siblings = TrueSiblings(c, key1),
         v.key = key2, v.old = c[key2], v.siblings = TrueSiblings(c, key2),
         NEW b, u.new = b[key1], b[key1] # c[key1],
         v.new = b[key2], b[key2] # c[key2],
         \A k \in Keys : k # key1 /\ k # key2 => b[k] = c[k]
  PROVE  LET r == BatchUpdateResult(store, top, updates)
         IN  /\ r.ok /\ Sound(r.db, r.root, b) /\ Keeps(store, c, r.db, b)
             /\ Open(r.db, b, Height - 1, key1)
             /\ Open(r.db, b, Height - 1, key2)
  <1> DEFINE a == [k \in Keys |-> IF k = key1 THEN b[k] ELSE c[k]]
  <1>1. Differs(a, c, key1) /\ a[key1] = b[key1]
    BY DEF Differs
  <1>2. Differs(b, a, key2) /\ a[key2] = c[key2]
    BY DEF Differs
  <1> HIDE DEF a
  <1>3. PICK calls, after :
            /\ Len(calls) = 4 /\ Calls(store, top, calls, after)
            /\ Verifies(calls[1], u) /\ Verifies(calls[2], v)
            /\ Updates(calls[3], u) /\ Updates(calls[4], v)
            /\ BatchUpdateResult(store, top, updates) = after[4]
    BY BatchIs
  <1>4. /\ after[0] = Returns(TRUE, store, top)
        /\ after[1] = Then(after[0], calls[1])
        /\ after[2] = Then(after[1], calls[2])
        /\ after[3] = Then(after[2], calls[3])
        /\ after[4] = Then(after[3], calls[4])
    <2>1. InOrder(store, top, calls, after)
      BY <1>3, CallsInOrder
    <2>2. QED
      BY <2>1 DEF InOrder
  <1>5. after[0].ok /\ after[0].db = store /\ after[0].root = top
    BY ONLY <1>4 DEF Returns, Outcome
  <1> DEFINE s0 == after[0]
             s1 == after[1]
             s2 == after[2]
             s3 == after[3]
             s4 == after[4]
  <1>6. /\ s1.ok /\ Sound(s1.db, s1.root, c) /\ Keeps(store, c, s1.db, c)
        /\ Held(s1.db, c, Height - 1, key1)
    <2>1. s0.ok /\ Sound(s0.db, s0.root, c) /\ s1 = Then(s0, calls[1])
      BY <1>4, <1>5
    <2>2. Verifies(calls[1], u)
      BY <1>3
    <2> HIDE DEF s0, s1
    <2>3. /\ s1.ok /\ Sound(s1.db, s1.root, c) /\ Keeps(s0.db, c, s1.db, c)
          /\ Held(s1.db, c, Height - 1, key1)
      BY <2>1, <2>2, VerifyCall
    <2>4. s0.db = store
      BY <1>5 DEF s0
    <2>5. QED
      BY <2>3, <2>4
  <1>7. /\ s2.ok /\ Sound(s2.db, s2.root, c) /\ Keeps(s1.db, c, s2.db, c)
        /\ Held(s2.db, c, Height - 1, key2)
    <2>1. s2 = Then(s1, calls[2]) /\ Verifies(calls[2], v)
      BY <1>3, <1>4
    <2> HIDE DEF s1, s2
    <2>2. QED
      BY <1>6, <2>1, VerifyCall
  <1>8. /\ s3.ok /\ Sound(s3.db, s3.root, a) /\ Keeps(s2.db, c, s3.db, a)
        /\ Open(s3.db, a, Height - 1, key1)
    <2>1. s3 = Then(s2, calls[3]) /\ Updates(calls[3], u)
      BY <1>3, <1>4
    <2> HIDE DEF s1, s2, s3
    <2>2. Held(s2.db, c, Height - 1, key1)
      BY <1>6, <1>7, LeafKeeps
    <2>3. u.new = a[key1] /\ a[key1] # c[key1] /\ u.key = key1
      BY <1>1
    <2>4. QED
      BY <1>1, <1>7, <2>1, <2>2, <2>3, UpdateCall
  <1>9. /\ s4.ok /\ Sound(s4.db, s4.root, b) /\ Keeps(s3.db, a, s4.db, b)
        /\ Open(s4.db, b, Height - 1, key2)
    <2>1. s4 = Then(s3, calls[4]) /\ Updates(calls[4], v)
      BY <1>3, <1>4
    <2> HIDE DEF s2, s3, s4
    <2>2. Held(s3.db, a, Height - 1, key2)
      BY <1>7, <1>8, LeafKeeps
    <2>3. b[key2] # a[key2]
      BY <1>2
    <2>4. QED
      BY <1>2, <1>8, <2>1, <2>2, <2>3, UpdateCall
  <1> HIDE DEF s0, s1, s2, s3, s4
  <1>10. Open(s4.db, b, Height - 1, key1)
    BY <1>8, <1>9, LeafKeeps
  <1>11. Keeps(store, c, s4.db, b)
    <2>1. Keeps(store, c, s2.db, c)
      BY <1>6, <1>7, KeepsOn
    <2>2. Keeps(store, c, s3.db, a)
      BY <1>8, <2>1, KeepsOn
    <2>3. QED
      BY <1>9, <2>2, KeepsOn
  <1>12. BatchUpdateResult(store, top, updates) = s4
    BY <1>3 DEF s4
  <1>13. QED
    BY <1>9, <1>10, <1>11, <1>12

-----------------------------------------------------------------------------
(***************************************************************************)
(* A crash between the writes of an operation.                             *)
(***************************************************************************)
WritesTo(store, writes, n, after) ==
    after = [i \in 0..n |-> IF i = 0 THEN store
                            ELSE Applied(after[i - 1], writes[i])]

LEMMA WritesGoOn ==
  ASSUME NEW store, NEW writes, NEW n \in Nat
  PROVE  \E after : WritesTo(store, writes, n, after)
  <1> DEFINE S == {m \in 0..n : \E after : WritesTo(store, writes, m, after)}
  <1>1. 0 \in S
    <2> DEFINE f == [i \in 0..0 |-> store]
    <2>1. WritesTo(store, writes, 0, f)
      BY DEF WritesTo
    <2>2. QED
      BY <2>1
  <1>2. ASSUME NEW m \in 0..(n - 1), m \in S
        PROVE  m + 1 \in S
    <2>1. PICK g : WritesTo(store, writes, m, g)
      BY <1>2
    <2> DEFINE new == Applied(g[m], writes[m + 1])
    <2> HIDE DEF new
    <2> DEFINE f == [i \in 0..(m + 1) |-> IF i = m + 1 THEN new ELSE g[i]]
    <2>2. f[m + 1] = new /\ \A i \in 0..m : f[i] = g[i]
      OBVIOUS
    <2>3. f = [i \in 0..(m + 1) |-> f[i]]
      OBVIOUS
    <2> HIDE DEF f
    <2>4. ASSUME NEW i \in 0..m
          PROVE  g[i] = IF i = 0 THEN store ELSE Applied(g[i - 1], writes[i])
      BY <2>1 DEF WritesTo
    <2>5. ASSUME NEW i \in 0..(m + 1)
          PROVE  f[i] = IF i = 0 THEN store ELSE Applied(f[i - 1], writes[i])
      <3>1. CASE i = m + 1
        <4>1. i # 0 /\ i - 1 = m /\ f[m] = g[m]
          BY <2>2, <3>1
        <4>2. QED
          BY <2>2, <3>1, <4>1 DEF new
      <3>2. CASE i # m + 1
        <4>1. i \in 0..m /\ (i # 0 => i - 1 \in 0..m)
          BY <3>2
        <4>2. f[i] = g[i] /\ (i # 0 => f[i - 1] = g[i - 1])
          BY <2>2, <4>1
        <4>3. QED
          BY <2>4, <4>1, <4>2
      <3>3. QED
        BY <3>1, <3>2
    <2>6. WritesTo(store, writes, m + 1, f)
      BY <2>3, <2>5 DEF WritesTo
    <2>7. m + 1 \in 0..n
      OBVIOUS
    <2>8. QED
      BY <2>6, <2>7
  <1> HIDE DEF S
  <1>3. 0..n \subseteq S
    BY <1>1, <1>2, FromZero
  <1>4. n \in S
    BY <1>3
  <1>5. QED
    BY <1>4 DEF S

LEMMA WrittenIsTrue ==
  ASSUME NEW store, StoreIsTrue(store), NEW writes, TrueWrites(writes),
         NEW after, WritesTo(store, writes, Len(writes), after)
  PROVE  \A i \in 0..Len(writes) : StoreIsTrue(after[i])
  <1> DEFINE n == Len(writes)
             S == {i \in 0..n : StoreIsTrue(after[i])}
  <1>1. n \in Nat
    BY DEF TrueWrites
  <1>2. ASSUME NEW i \in 0..n
        PROVE  after[i] = IF i = 0 THEN store
                          ELSE Applied(after[i - 1], writes[i])
    BY DEF WritesTo
  <1>3. 0 \in S
    BY <1>1, <1>2
  <1>4. ASSUME NEW i \in 0..(n - 1), i \in S
        PROVE  i + 1 \in S
    <2>1. i + 1 \in 0..n /\ i + 1 \in 1..n /\ i + 1 # 0 /\ (i + 1) - 1 = i
      BY <1>1
    <2>2. after[i + 1] = Applied(after[i], writes[i + 1])
      BY <1>2, <2>1
    <2>3. TrueNodes(writes[i + 1].put)
      BY <2>1 DEF TrueWrites
    <2>4. StoreIsTrue(after[i + 1])
      BY <1>4, <2>2, <2>3, AppliedIsTrue
    <2>5. QED
      BY <2>1, <2>4
  <1> HIDE DEF S, n
  <1>5. 0..n \subseteq S
    BY <1>1, <1>3, <1>4, FromZero
  <1>6. QED
    BY <1>5 DEF S, n

LEMMA InterruptedIsTrue ==
  ASSUME NEW store, StoreIsTrue(store), NEW writes, TrueWrites(writes),
         NEW st \in Interrupted(store, writes)
  PROVE  StoreIsTrue(st)
  <1> DEFINE after == CHOOSE after : after =
                 [i \in 0..Len(writes) |->
                     IF i = 0 THEN store ELSE Applied(after[i - 1], writes[i])]
  <1>1. Interrupted(store, writes)
            = UNION {{Applied(after[i - 1], Batch(nodes, ids)) :
                         nodes \in SUBSET writes[i].put,
                         ids \in SUBSET writes[i].del} :
                     i \in DOMAIN writes}
    BY DEF Interrupted
  <1>2. Len(writes) \in Nat /\ DOMAIN writes = 1..Len(writes)
    BY DEF TrueWrites
  <1>3. WritesTo(store, writes, Len(writes), after)
    <2>1. \E f : f = [i \in 0..Len(writes) |->
                         IF i = 0 THEN store
                         ELSE Applied(f[i - 1], writes[i])]
      <3>1. PICK f : WritesTo(store, writes, Len(writes), f)
        BY <1>2, WritesGoOn
      <3>2. QED
        BY <3>1 DEF WritesTo
    <2>2. after = [i \in 0..Len(writes) |->
                      IF i = 0 THEN store
                      ELSE Applied(after[i - 1], writes[i])]
      BY <2>1
    <2> HIDE DEF after
    <2>3. QED
      BY <2>2 DEF WritesTo
  <1> HIDE DEF after
  <1>4. PICK i \in 1..Len(writes) :
           st \in {Applied(after[i - 1], Batch(nodes, ids)) :
                      nodes \in SUBSET writes[i].put,
                      ids \in SUBSET writes[i].del}
    BY <1>1, <1>2
  <1>5. PICK nodes \in SUBSET writes[i].put, ids \in SUBSET writes[i].del :
           st = Applied(after[i - 1], Batch(nodes, ids))
    BY <1>4
  <1>6. StoreIsTrue(after[i - 1])
    <2>1. i - 1 \in 0..Len(writes)
      BY <1>2
    <2>2. QED
      BY <1>3, <2>1, WrittenIsTrue
  <1>7. TrueNodes(Batch(nodes, ids).put)
    <2>1. Batch(nodes, ids).put = nodes
      BY BatchFields
    <2>2. TrueNodes(writes[i].put)
      BY DEF TrueWrites
    <2>3. QED
      BY <2>1, <2>2 DEF TrueNodes
  <1>8. QED
    BY <1>5, <1>6, <1>7, AppliedIsTrue

-----------------------------------------------------------------------------
(***************************************************************************)
(* The invariant is inductive.                                             *)
(***************************************************************************)
LEMMA StepKeepsTypes ==
  ASSUME TreeTypeOK, Step
  PROVE  clean /\ grown' = grown /\ grown' \in BOOLEAN /\ steps' \in 0..MaxSteps
  BY TreeAssumption DEF TreeTypeOK, Step

\* A store with nothing in it holds the tree of any root.
LEMMA NothingStored ==
  ASSUME NEW c
  PROVE  Sound(<<>>, Loaded(<<>>, Commitment(c)), c)
  <1>1. DOMAIN <<>> = {}
    OBVIOUS
  <1>2. StoreIsTrue(<<>>) /\ Connected(<<>>, c)
    BY <1>1 DEF StoreIsTrue, Connected
  <1>3. Paired(<<>>, c)
    BY <1>1 DEF Paired, Open, Held
  <1>4. QED
    BY <1>2, <1>3 DEF Sound

LEMMA EmptyTree ==
  /\ Commitment(AllEmpty) = ZeroHash[0]
  /\ Loaded(<<>>, NoHash) = Loaded(<<>>, Commitment(AllEmpty))
  /\ Spare(<<>>, AllEmpty)
  <1>1. Commitment(AllEmpty) = Levels(AllEmpty)[0][0]
        /\ Commitment(AllEmpty) # NoHash
    BY TopHash
  <1>2. 0 \in Depths /\ 0 \in Places(0)
    BY HeightIs, TopPlace DEF Depths
  <1>3. Commitment(AllEmpty) = ZeroHash[0]
    BY <1>1, <1>2, ZeroHashes
  <1>4. DOMAIN <<>> = {}
    OBVIOUS
  <1>5. Loaded(<<>>, NoHash) = NewNode(ZeroHash[0], Placeholder, 0)
    BY DEF Loaded
  <1>6. Loaded(<<>>, Commitment(AllEmpty))
            = NewNode(ZeroHash[0], Placeholder, 0)
    BY <1>1, <1>3, <1>4 DEF Loaded
  <1>7. Spare(<<>>, AllEmpty)
    BY ZeroHashes DEF Spare
  <1>8. QED
    BY <1>3, <1>5, <1>6, <1>7

LEMMA EmptyIsContent == AllEmpty \in [Keys -> Values]
  BY TreeAssumption DEF AllEmpty

LEMMA TreeStarts == TreeInit => PathsInv
  <1> SUFFICES ASSUME TreeInit
               PROVE  PathsInv
    OBVIOUS
  <1>1. /\ grown \in BOOLEAN
        /\ grown => leaves = AllEmpty /\ saved = NoHash
        /\ ~grown => leaves \in Contents /\ saved = Commitment(leaves)
        /\ db = <<>> /\ root = Loaded(<<>>, saved)
        /\ asked = NoRequest /\ written = {} /\ proved = {} /\ refused = {}
        /\ clean = TRUE /\ steps = 0
    BY DEF TreeInit
  <1>2. kept.leaves = leaves /\ kept.written = {} /\ kept.proved = {}
    BY DEF TreeInit
  <1>3. leaves \in [Keys -> Values]
    BY <1>1, EmptyIsContent, TreeAssumption
  <1>4. StoreIsTrue(db)
    BY <1>1, NothingStored DEF Sound
  <1>5. TreeTypeOK
    BY <1>1, <1>3, <1>4, TreeAssumption DEF TreeTypeOK
  <1>6. root = Loaded(<<>>, Commitment(leaves))
    BY <1>1, EmptyTree
  <1>7. Sound(db, root, leaves)
    BY <1>1, <1>6, NothingStored
  <1>8. grown => Spare(db, leaves)
    BY <1>1, EmptyTree
  <1>9. CleanShape
    <2>1. /\ \A key \in written : Open(db, leaves, Height - 1, key)
          /\ \A key \in proved : Held(db, leaves, Height - 1, key)
          /\ kept.written \subseteq written /\ kept.proved \subseteq proved
          /\ "batchUpdate" \notin refused /\ refused = {}
      BY ONLY <1>1, <1>2
    <2>2. Sound(db, root, leaves) /\ (grown => Spare(db, leaves))
      BY <1>7, <1>8
    <2>3. QED
      BY ONLY <2>1, <2>2 DEF CleanShape
  <1>10. IF saved = NoHash THEN kept.leaves = AllEmpty
                           ELSE saved = Commitment(kept.leaves)
    <2>1. CASE grown
      BY <1>1, <1>2, <2>1
    <2>2. CASE ~grown
      <3>1. saved = Commitment(kept.leaves)
        BY <1>1, <1>2, <2>2
      <3>2. Commitment(kept.leaves) # NoHash
        BY TopHash
      <3>3. QED
        BY <3>1, <3>2
    <2>3. QED
      BY <1>1, <2>1, <2>2
  <1>11. SavedShape
    BY <1>1, <1>2, <1>3, <1>10 DEF SavedShape
  <1>12. QED
    BY <1>5, <1>9, <1>11 DEF PathsInv

LEMMA CleanState ==
  ASSUME PathsInv, clean
  PROVE  /\ Sound(db, root, leaves)
         /\ \A key \in written : Open(db, leaves, Height - 1, key)
         /\ \A key \in proved : Held(db, leaves, Height - 1, key)
         /\ kept.written \subseteq written /\ kept.proved \subseteq proved
         /\ "batchUpdate" \notin refused
         /\ grown => Spare(db, leaves) /\ refused = {}
  BY DEF PathsInv, CleanShape

LEMMA VerifiedStep ==
  ASSUME PathsInv, Step, NEW key \in Keys, NEW r, Verified(r, key),
         r.ok \in BOOLEAN, Sound(r.db, r.root, leaves),
         Keeps(db, leaves, r.db, leaves),
         r.ok => Held(r.db, leaves, Height - 1, key),
         asked' = asked \/ asked' = NoRequest
  PROVE  PathsInv'
  <1>1. TreeTypeOK /\ SavedShape
    BY DEF PathsInv
  <1>2. clean /\ grown' = grown /\ grown' \in BOOLEAN /\ steps' \in 0..MaxSteps
    BY <1>1, StepKeepsTypes
  <1>3. /\ root' = r.root /\ db' = r.db /\ saved' = saved /\ kept' = kept
        /\ proved' = IF r.ok THEN proved \cup {key} ELSE proved
        /\ leaves' = leaves /\ written' = written /\ refused' = refused
        /\ clean' = clean
    BY DEF Verified, Becomes
  <1>4. StoreIsTrue(db')
    BY <1>3 DEF Sound
  <1>5. TreeTypeOK'
    BY <1>1, <1>2, <1>3, <1>4 DEF TreeTypeOK
  <1>6. SavedShape'
    BY <1>1, <1>2, <1>3 DEF SavedShape
  <1>7. Sound(db', root', leaves')
    BY <1>3
  <1>8. written \subseteq Keys /\ proved \subseteq Keys
    BY <1>1 DEF TreeTypeOK
  <1>9. /\ \A k \in written : Open(db, leaves, Height - 1, k)
        /\ \A k \in proved : Held(db, leaves, Height - 1, k)
    BY <1>2, CleanState
  <1>10. \A k \in written' : Open(db', leaves', Height - 1, k)
    BY <1>3, <1>8, <1>9, LeafKeeps
  <1>11. ASSUME NEW k \in proved'
         PROVE  Held(db', leaves', Height - 1, k)
    <2>1. k \in proved \/ (r.ok /\ k = key)
      BY <1>3
    <2>2. CASE k \in proved
      BY <1>3, <1>8, <1>9, <2>2, LeafKeeps
    <2>3. QED
      BY <1>3, <2>1, <2>2
  <1>12. kept'.written \subseteq written' /\ kept'.proved \subseteq proved'
    BY <1>2, <1>3, CleanState
  <1>13. "batchUpdate" \notin refused' /\ (grown' => refused' = {})
    BY <1>2, <1>3, CleanState
  <1>14. grown' => Spare(db', leaves')
    BY <1>2, <1>3, CleanState DEF Keeps
  <1>15. CleanShape'
    BY <1>7, <1>10, <1>11, <1>12, <1>13, <1>14 DEF CleanShape
  <1>16. QED
    BY <1>5, <1>6, <1>15 DEF PathsInv

LEMMA ChangedStep ==
  ASSUME PathsInv, Step, NEW name, NEW r, NEW changes,
         DOMAIN changes \subseteq Keys, Changed(name, r, changes),
         r.ok \in BOOLEAN,
         r.ok => /\ leaves' \in [Keys -> Values]
                 /\ Sound(r.db, r.root, leaves')
                 /\ Keeps(db, leaves, r.db, leaves')
                 /\ \A k \in DOMAIN changes :
                       Open(r.db, leaves', Height - 1, k),
         ~r.ok => r.db = db /\ r.root = root /\ name = "update" /\ ~grown
  PROVE  PathsInv'
  <1>1. TreeTypeOK /\ SavedShape
    BY DEF PathsInv
  <1>2. clean /\ grown' = grown /\ grown' \in BOOLEAN /\ steps' \in 0..MaxSteps
    BY <1>1, StepKeepsTypes
  <1>3. /\ root' = r.root /\ db' = r.db /\ saved' = saved /\ kept' = kept
        /\ asked' = asked /\ clean' = clean
        /\ r.ok => /\ written' = written \cup DOMAIN changes
                   /\ proved' = proved \cup DOMAIN changes
                   /\ refused' = refused
        /\ ~r.ok => /\ refused' = refused \cup {name}
                    /\ leaves' = leaves /\ written' = written
                    /\ proved' = proved
    BY DEF Changed, Becomes
  <1>4. Sound(db, root, leaves)
    BY <1>2, CleanState
  <1>5. leaves' \in [Keys -> Values]
    BY <1>1, <1>3 DEF TreeTypeOK
  <1>6. Sound(db', root', leaves')
    BY <1>3, <1>4
  <1>7. Keeps(db, leaves, db', leaves')
    <2>1. CASE r.ok
      BY <1>3, <2>1
    <2>2. CASE ~r.ok
      <3>1. db' = db /\ leaves' = leaves
        BY <1>3, <2>2
      <3>2. QED
        BY <3>1, KeepsAll
    <2>3. QED
      BY <2>1, <2>2
  <1>8. StoreIsTrue(db')
    BY <1>6 DEF Sound
  <1>9. /\ written' \subseteq proved' /\ proved' \subseteq Keys
        /\ refused' \subseteq {"update", "batchUpdate"}
    <2>1. /\ written \subseteq proved /\ proved \subseteq Keys
          /\ refused \subseteq {"update", "batchUpdate"}
      BY <1>1 DEF TreeTypeOK
    <2>2. CASE r.ok
      BY <1>3, <2>1, <2>2
    <2>3. CASE ~r.ok
      BY <1>3, <2>1, <2>3
    <2>4. QED
      BY <2>2, <2>3
  <1>10. TreeTypeOK'
    BY <1>1, <1>2, <1>3, <1>5, <1>8, <1>9 DEF TreeTypeOK
  <1>11. SavedShape'
    BY <1>1, <1>2, <1>3 DEF SavedShape
  <1>12. /\ \A k \in written : Open(db, leaves, Height - 1, k)
         /\ \A k \in proved : Held(db, leaves, Height - 1, k)
         /\ written \subseteq Keys /\ proved \subseteq Keys
    BY <1>1, <1>2, CleanState DEF TreeTypeOK
  <1>13. ASSUME NEW k \in written'
         PROVE  Open(db', leaves', Height - 1, k)
    <2>1. k \in written \/ (r.ok /\ k \in DOMAIN changes)
      BY <1>3
    <2>2. CASE k \in written
      BY <1>7, <1>12, <2>2, LeafKeeps
    <2>3. QED
      BY <1>3, <2>1, <2>2
  <1>14. ASSUME NEW k \in proved'
         PROVE  Held(db', leaves', Height - 1, k)
    <2>1. k \in proved \/ (r.ok /\ k \in DOMAIN changes)
      BY <1>3
    <2>2. CASE k \in proved
      BY <1>7, <1>12, <2>2, LeafKeeps
    <2>3. CASE r.ok /\ k \in DOMAIN changes
      BY <1>3, <2>3 DEF Open
    <2>4. QED
      BY <2>1, <2>2, <2>3
  <1>15. kept'.written \subseteq written' /\ kept'.proved \subseteq proved'
    <2>1. kept.written \subseteq written /\ kept.proved \subseteq proved
      BY <1>2, CleanState
    <2>2. written \subseteq written' /\ proved \subseteq proved'
      BY <1>3
    <2>3. QED
      BY <1>3, <2>1, <2>2
  <1>16. "batchUpdate" \notin refused' /\ (grown' => refused' = {})
    <2>1. "batchUpdate" \notin refused /\ (grown => refused = {})
      BY <1>2, CleanState
    <2>2. QED
      BY <1>2, <1>3, <2>1
  <1>17. grown' => Spare(db', leaves')
    BY <1>2, <1>7, CleanState DEF Keeps
  <1>18. CleanShape'
    BY <1>6, <1>13, <1>14, <1>15, <1>16, <1>17 DEF CleanShape
  <1>19. QED
    BY <1>10, <1>11, <1>18 DEF PathsInv

LEMMA UpdateStep ==
  ASSUME PathsInv, NEW key \in Keys, NEW value \in Values, Update(key, value)
  PROVE  PathsInv'
  <1> DEFINE r == UpdateResult(db, root, key, value)
             changes == [k \in {key} |-> value]
             all == [k \in Keys |-> IF k \in DOMAIN changes
                                    THEN changes[k] ELSE leaves[k]]
             b == [leaves EXCEPT ![key] = value]
  <1>1. Step /\ Changed("update", r, changes)
    BY DEF Update
  <1>2. DOMAIN changes = {key} /\ changes[key] = value
    OBVIOUS
  <1>3. leaves \in [Keys -> Values] /\ clean
    BY <1>1 DEF Step, PathsInv, TreeTypeOK
  <1>4. Sound(db, root, leaves) /\ (grown => Spare(db, leaves))
    BY <1>3, CleanState
  <1>5. b \in [Keys -> Values] /\ b[key] = value /\ Differs(b, leaves, key)
    BY <1>3 DEF Differs
  <1>6. value # leaves[key]
    BY <1>1, <1>2 DEF Changed
  <1>7. r.ok => leaves' = all
    BY <1>1 DEF Changed
  <1>8. all = b
    BY <1>2, <1>3
  <1> HIDE DEF b, changes, all
  <1>9. /\ r.ok = Opened(db, root, key).ok
        /\ ~r.ok => r.db = db /\ r.root = root
        /\ r.ok /\ value # leaves[key] =>
              /\ Sound(r.db, r.root, b) /\ Keeps(db, leaves, r.db, b)
              /\ Open(r.db, b, Height - 1, key)
    BY <1>4, <1>5, UpdateKeeps
  <1>10. Opened(db, root, key).ok \in BOOLEAN
    BY <1>4, OpenedKeeps
  <1>11. grown => Opened(db, root, key).ok
    BY <1>4, OpenedIsOk
  <1> HIDE DEF r
  <1>12. r.ok \in BOOLEAN /\ (grown => r.ok)
    BY <1>9, <1>10, <1>11
  <1>13. r.ok => /\ leaves' \in [Keys -> Values]
                 /\ Sound(r.db, r.root, leaves')
                 /\ Keeps(db, leaves, r.db, leaves')
                 /\ \A k \in DOMAIN changes :
                       Open(r.db, leaves', Height - 1, k)
    BY <1>2, <1>5, <1>6, <1>7, <1>8, <1>9
  <1>14. ~r.ok => r.db = db /\ r.root = root /\ "update" = "update" /\ ~grown
    BY <1>9, <1>12
  <1>15. DOMAIN changes \subseteq Keys
    BY <1>2
  <1>16. QED
    BY <1>1, <1>12, <1>13, <1>14, <1>15, ChangedStep

LEMMA BatchUpdateStep ==
  ASSUME PathsInv, NEW key1 \in Keys, NEW key2 \in Keys,
         NEW value1 \in Values, NEW value2 \in Values,
         BatchUpdate(key1, value1, key2, value2)
  PROVE  PathsInv'
  <1> DEFINE u == MerkleUpdate(key1, value1)
             v == MerkleUpdate(key2, value2)
             updates == <<u, v>>
             r == BatchUpdateResult(db, root, updates)
             changes == [k \in {key1, key2} |->
                            IF k = key1 THEN value1 ELSE value2]
             all == [k \in Keys |-> IF k \in DOMAIN changes
                                    THEN changes[k] ELSE leaves[k]]
             b == [k \in Keys |-> IF k = key1 THEN value1
                                  ELSE IF k = key2 THEN value2 ELSE leaves[k]]
  <1>1. Step /\ key1 # key2 /\ Changed("batchUpdate", r, changes)
    BY DEF BatchUpdate
  <1>2. /\ DOMAIN changes = {key1, key2} /\ changes[key1] = value1
        /\ changes[key2] = value2
    BY <1>1
  <1>3. leaves \in [Keys -> Values] /\ clean
    BY <1>1 DEF Step, PathsInv, TreeTypeOK
  <1>4. Sound(db, root, leaves)
    BY <1>3, CleanState
  <1>5. /\ b \in [Keys -> Values] /\ b[key1] = value1 /\ b[key2] = value2
        /\ \A k \in Keys : k # key1 /\ k # key2 => b[k] = leaves[k]
    BY <1>1, <1>3
  <1>6. value1 # leaves[key1] /\ value2 # leaves[key2]
    BY <1>1, <1>2 DEF Changed
  <1>7. r.ok => leaves' = all
    BY <1>1 DEF Changed
  <1> HIDE DEF changes
  <1>8. all = b
    BY <1>1, <1>2, <1>3
  <1>9. /\ u.key = key1 /\ u.old = leaves[key1] /\ u.new = value1
        /\ u.siblings = TrueSiblings(leaves, key1)
        /\ v.key = key2 /\ v.old = leaves[key2] /\ v.new = value2
        /\ v.siblings = TrueSiblings(leaves, key2)
    BY DEF MerkleUpdate
  <1>10. DOMAIN updates = 1..2 /\ updates[1] = u /\ updates[2] = v
    OBVIOUS
  <1> HIDE DEF b, u, v, updates, all
  <1>11. /\ r.ok /\ Sound(r.db, r.root, b) /\ Keeps(db, leaves, r.db, b)
         /\ Open(r.db, b, Height - 1, key1)
         /\ Open(r.db, b, Height - 1, key2)
    BY <1>1, <1>4, <1>5, <1>6, <1>9, <1>10, BatchUpdateKeeps
  <1>12. r.ok \in BOOLEAN
    BY <1>11
  <1> HIDE DEF r
  <1>13. leaves' = b
    BY <1>7, <1>8, <1>11
  <1>14. r.ok => /\ leaves' \in [Keys -> Values]
                 /\ Sound(r.db, r.root, leaves')
                 /\ Keeps(db, leaves, r.db, leaves')
                 /\ \A k \in DOMAIN changes :
                       Open(r.db, leaves', Height - 1, k)
    BY <1>2, <1>5, <1>11, <1>13
  <1>15. DOMAIN changes \subseteq Keys
    BY <1>2
  <1>16. ~r.ok => /\ r.db = db /\ r.root = root /\ "batchUpdate" = "update"
                  /\ ~grown
    BY <1>11
  <1>17. QED
    BY <1>1, <1>12, <1>14, <1>15, <1>16, ChangedStep

LEMMA VerifyAndStoreStep ==
  ASSUME PathsInv, NEW key \in Keys, NEW value \in Values,
         VerifyAndStore(key, value)
  PROVE  PathsInv'
  <1>1. Step /\ asked' = asked
    BY DEF VerifyAndStore
  <1>2. PICK content \in {leaves, kept.leaves} :
           Verified(VerifyAndStoreResult(db, root, key, value,
                                         TrueSiblings(content, key)), key)
    BY DEF VerifyAndStore
  <1> DEFINE r == VerifyAndStoreResult(db, root, key, value,
                                       TrueSiblings(content, key))
  <1>3. Sound(db, root, leaves)
    BY <1>1, CleanState DEF Step
  <1>4. /\ r.ok \in BOOLEAN
        /\ Sound(r.db, r.root, leaves) /\ Keeps(db, leaves, r.db, leaves)
        /\ r.ok => Held(r.db, leaves, Height - 1, key)
    BY <1>3, VerifyKeeps
  <1>5. Verified(r, key)
    BY <1>2
  <1> HIDE DEF r
  <1>6. QED
    BY <1>1, <1>4, <1>5, VerifiedStep

LEMMA StoreEmptyPathStep ==
  ASSUME PathsInv, StoreEmptyPath
  PROVE  PathsInv'
  <1> DEFINE r == VerifyAndStoreResult(db, root, asked.key, Empty,
                                       asked.siblings)
  <1>1. Step /\ asked # NoRequest /\ Verified(r, asked.key)
        /\ asked' = NoRequest
    BY DEF StoreEmptyPath
  <1>2. asked.key \in Keys
    BY <1>1 DEF PathsInv, TreeTypeOK
  <1>3. Sound(db, root, leaves)
    BY <1>1, CleanState DEF Step
  <1>4. /\ r.ok \in BOOLEAN
        /\ Sound(r.db, r.root, leaves) /\ Keeps(db, leaves, r.db, leaves)
        /\ r.ok => Held(r.db, leaves, Height - 1, asked.key)
    BY <1>2, <1>3, VerifyKeeps
  <1> HIDE DEF r
  <1>5. QED
    BY <1>1, <1>2, <1>4, VerifiedStep

LEMMA GetMerkleProofStep ==
  ASSUME PathsInv, NEW key \in Keys, GetMerkleProof(key)
  PROVE  PathsInv'
  <1>1. TreeTypeOK /\ SavedShape /\ CleanShape
    BY DEF PathsInv
  <1>2. Step /\ asked'.key = key
        /\ UNCHANGED <<root, db, saved, leaves, written, proved, kept,
                       refused, clean>>
    BY DEF GetMerkleProof
  <1>3. clean /\ grown' = grown /\ steps' \in 0..MaxSteps
    BY <1>1, <1>2, StepKeepsTypes
  <1>4. TreeTypeOK'
    BY <1>1, <1>2, <1>3 DEF TreeTypeOK
  <1>5. SavedShape'
    BY <1>1, <1>2 DEF SavedShape
  <1>6. CleanShape'
    BY <1>1, <1>2, <1>3 DEF CleanShape
  <1>7. QED
    BY <1>4, <1>5, <1>6 DEF PathsInv

LEMMA SaveStep ==
  ASSUME PathsInv, Save
  PROVE  PathsInv'
  <1>1. TreeTypeOK /\ SavedShape /\ CleanShape
    BY DEF PathsInv
  <1>2. Step /\ saved' = root.hash
        /\ UNCHANGED <<root, db, asked, leaves, written, proved, refused,
                       clean>>
    BY DEF Save
  <1>3. kept'.leaves = leaves /\ kept'.written = written
        /\ kept'.proved = proved
    BY DEF Save
  <1>4. clean /\ grown' = grown /\ steps' \in 0..MaxSteps
    BY <1>1, <1>2, StepKeepsTypes
  <1>5. TreeTypeOK'
    BY <1>1, <1>2, <1>4 DEF TreeTypeOK
  <1>6. Sound(db, root, leaves)
    BY <1>4, CleanState
  <1>7. root.hash = Commitment(leaves) /\ Commitment(leaves) # NoHash
    <2>1. NodeIs(root, db, leaves, 0, 0)
      BY <1>6, TopIs DEF Sound
    <2>2. QED
      BY <2>1, TopHash DEF NodeIs
  <1>8. saved' = Commitment(kept'.leaves) /\ saved' # NoHash
    BY <1>2, <1>3, <1>7
  <1>9. SavedShape'
    BY <1>1, <1>2, <1>3, <1>4, <1>8 DEF SavedShape, TreeTypeOK
  <1>10. CleanShape'
    BY <1>1, <1>2, <1>3, <1>4 DEF CleanShape
  <1>11. QED
    BY <1>5, <1>9, <1>10 DEF PathsInv

LEMMA RecreatedKeeps ==
  ASSUME PathsInv, Step, NEW store, Recreated(store), StoreIsTrue(store),
         clean' \in BOOLEAN
  PROVE  TreeTypeOK' /\ SavedShape'
  <1>1. TreeTypeOK /\ SavedShape
    BY DEF PathsInv
  <1>2. clean /\ grown' = grown /\ grown' \in BOOLEAN /\ steps' \in 0..MaxSteps
    BY <1>1, StepKeepsTypes
  <1>3. /\ db' = store /\ root' = Loaded(store, saved) /\ asked' = NoRequest
        /\ leaves' = kept.leaves /\ written' = kept.written
        /\ proved' = kept.proved /\ saved' = saved /\ kept' = kept
        /\ refused' = refused
    BY DEF Recreated
  <1>4. TreeTypeOK'
    BY <1>1, <1>2, <1>3 DEF TreeTypeOK, SavedShape
  <1>5. SavedShape'
    BY <1>1, <1>3 DEF SavedShape
  <1>6. QED
    BY <1>4, <1>5

LEMMA RestartStep ==
  ASSUME PathsInv, Restart
  PROVE  PathsInv'
  <1>1. TreeTypeOK /\ SavedShape /\ CleanShape
    BY DEF PathsInv
  <1>2. Step /\ Recreated(db) /\ clean' = (clean /\ saved = root.hash)
    BY DEF Restart
  <1>3. TreeTypeOK' /\ SavedShape'
    <2>1. StoreIsTrue(db) /\ clean' \in BOOLEAN
      BY <1>1, <1>2 DEF TreeTypeOK
    <2>2. QED
      BY <1>2, <2>1, RecreatedKeeps
  <1>4. clean /\ grown' = grown
    BY <1>1, <1>2, StepKeepsTypes
  <1>5. /\ Sound(db, root, leaves)
        /\ \A key \in written : Open(db, leaves, Height - 1, key)
        /\ \A key \in proved : Held(db, leaves, Height - 1, key)
        /\ kept.written \subseteq written /\ kept.proved \subseteq proved
        /\ "batchUpdate" \notin refused
        /\ grown => Spare(db, leaves) /\ refused = {}
    BY <1>4, CleanState
  <1>6. ASSUME clean'
        PROVE  leaves' = leaves /\ root' = root
    <2>1. saved = root.hash
      BY <1>2, <1>6
    <2>2. root.hash = Commitment(leaves) /\ Commitment(leaves) # NoHash
      <3>1. NodeIs(root, db, leaves, 0, 0)
        BY <1>5, TopIs DEF Sound
      <3>2. QED
        BY <3>1, TopHash DEF NodeIs
    <2>3. Commitment(kept.leaves) = Commitment(leaves)
      BY <1>1, <2>1, <2>2 DEF SavedShape
    <2>4. kept.leaves \in [Keys -> Values] /\ leaves \in [Keys -> Values]
      BY <1>1 DEF SavedShape, TreeTypeOK
    <2>5. kept.leaves = leaves
      BY ONLY <2>3, <2>4, SameLeaves
    <2>6. root' = Loaded(db, Commitment(leaves)) /\ leaves' = kept.leaves
      BY <1>2, <2>1, <2>2 DEF Recreated
    <2>7. QED
      BY <1>5, <2>5, <2>6 DEF Sound
  <1>7. /\ db' = db /\ written' = kept.written /\ proved' = kept.proved
        /\ kept' = kept /\ refused' = refused
    BY <1>2 DEF Recreated
  <1>8. CleanShape'
    <2>1. SUFFICES ASSUME clean'
                   PROVE  /\ Sound(db, root, leaves)'
                          /\ (\A key \in written :
                                 Open(db, leaves, Height - 1, key))'
                          /\ (\A key \in proved :
                                 Held(db, leaves, Height - 1, key))'
                          /\ (kept.written \subseteq written)'
                          /\ (kept.proved \subseteq proved)'
                          /\ ("batchUpdate" \notin refused)'
                          /\ (grown => Spare(db, leaves) /\ refused = {})'
      BY DEF CleanShape
    <2>2. leaves' = leaves /\ root' = root
      BY <1>6, <2>1
    <2>3. QED
      BY <1>4, <1>5, <1>7, <2>2
  <1>9. QED
    BY <1>3, <1>8 DEF PathsInv

LEMMA CrashInUpdateStep ==
  ASSUME PathsInv, NEW key \in Keys, NEW value \in Values,
         CrashInUpdate(key, value)
  PROVE  PathsInv'
  <1> DEFINE r == UpdateResult(db, root, key, value)
             b == [leaves EXCEPT ![key] = value]
  <1>1. Step /\ clean' = FALSE
    BY DEF CrashInUpdate
  <1>2. PICK store \in Interrupted(db, r.writes) : Recreated(store)
    BY DEF CrashInUpdate
  <1>3. leaves \in [Keys -> Values] /\ clean /\ StoreIsTrue(db)
    BY <1>1 DEF Step, PathsInv, TreeTypeOK
  <1>4. Sound(db, root, leaves)
    BY <1>3, CleanState
  <1>5. b[key] = value /\ Differs(b, leaves, key)
    BY <1>3 DEF Differs
  <1> HIDE DEF b
  <1>6. TrueWrites(r.writes)
    BY <1>4, <1>5, UpdateKeeps
  <1> HIDE DEF r
  <1>7. StoreIsTrue(store)
    BY <1>2, <1>3, <1>6, InterruptedIsTrue
  <1>8. TreeTypeOK' /\ SavedShape'
    <2>1. clean' \in BOOLEAN
      BY <1>1
    <2>2. QED
      BY <1>1, <1>2, <1>7, <2>1, RecreatedKeeps
  <1>9. CleanShape'
    BY <1>1 DEF CleanShape
  <1>10. QED
    BY <1>8, <1>9 DEF PathsInv

LEMMA TreeStep == PathsInv /\ [TreeNext]_treeVars => PathsInv'
  <1> SUFFICES ASSUME PathsInv, [TreeNext]_treeVars
               PROVE  PathsInv'
    OBVIOUS
  <1>1. ASSUME NEW key \in Keys, NEW value \in Values, Update(key, value)
        PROVE  PathsInv'
    BY <1>1, UpdateStep
  <1>2. ASSUME NEW key \in Keys, NEW value \in Values,
               VerifyAndStore(key, value)
        PROVE  PathsInv'
    BY <1>2, VerifyAndStoreStep
  <1>3. ASSUME NEW key \in Keys, NEW value \in Values,
               CrashInUpdate(key, value)
        PROVE  PathsInv'
    BY <1>3, CrashInUpdateStep
  <1>4. ASSUME NEW key1 \in Keys, NEW key2 \in Keys,
               NEW value1 \in Values, NEW value2 \in Values,
               BatchUpdate(key1, value1, key2, value2)
        PROVE  PathsInv'
    BY <1>4, BatchUpdateStep
  <1>5. ASSUME NEW key \in Keys, GetMerkleProof(key)
        PROVE  PathsInv'
    BY <1>5, GetMerkleProofStep
  <1>6. CASE StoreEmptyPath
    BY <1>6, StoreEmptyPathStep
  <1>7. CASE Save
    BY <1>7, SaveStep
  <1>8. CASE Restart
    BY <1>8, RestartStep
  <1>9. CASE UNCHANGED treeVars
    BY <1>9 DEF treeVars, PathsInv, TreeTypeOK, SavedShape, CleanShape
  <1>10. QED
    BY <1>1, <1>2, <1>3, <1>4, <1>5, <1>6, <1>7, <1>8, <1>9 DEF TreeNext

\* The store always holds some connected and paired nodes of the tree that the
\* root commits to, and what it takes to reopen it: the lemma of the four
\* theorems below (merkle-tree.ts).
THEOREM PathsAlwaysHold == TreeSpec => []PathsInv
  BY TreeStarts, TreeStep, PTL DEF TreeSpec

-----------------------------------------------------------------------------
(***************************************************************************)
(* What the invariant gives.                                               *)
(***************************************************************************)
LEMMA RootIsTrue == PathsInv => RootInv
  <1> SUFFICES ASSUME PathsInv
               PROVE  RootInv
    OBVIOUS
  <1>1. ASSUME clean
        PROVE  root.hash = Commitment(leaves)
    <2>1. Sound(db, root, leaves)
      BY <1>1, CleanState
    <2>2. NodeIs(root, db, leaves, 0, 0)
      BY <2>1, TopIs DEF Sound
    <2>3. QED
      BY <2>2, TopHash DEF NodeIs
  <1>2. QED
    BY <1>1 DEF PathsInv, RootInv, RootCommits

\* A tree reopened without a root hash has nothing to read.
LEMMA NothingRead ==
  ASSUME NEW store, NEW key
  PROVE  GetLeaf(store, Loaded(store, NoHash), key) = NoLeaf
  <1> DEFINE top == Loaded(store, NoHash)
             path == NodesInPath(store, top, key)
  <1>1. top.value = Placeholder /\ Len(Placeholder) = 0
    BY DEF Loaded, NewNode, Placeholder
  <1>2. ~IsInner(top)
    BY <1>1 DEF IsInner
  <1>3. IsPath(path, store, top, key, Height - 1)
    BY PathIs
  <1> HIDE DEF top, path
  <1>4. Len(path) # Height
    <2> SUFFICES ASSUME Len(path) = Height
                 PROVE  FALSE
      OBVIOUS
    <2>1. 1 \in 1..(Len(path) - 1)
      BY HeightIs
    <2>2. path[1] = top /\ Continues(store, path[1], key, 1)
      BY <1>3, <2>1 DEF IsPath
    <2>3. QED
      BY <1>2, <2>2 DEF Continues
  <1>5. QED
    BY <1>4 DEF GetLeaf, path, top

LEMMA WhatIsReadIsTrue == PathsInv => ReadsAreTrue
  <1> SUFFICES ASSUME PathsInv, NEW key \in Keys,
                      GetLeaf(db, root, key) # NoLeaf
               PROVE  /\ GetLeaf(db, root, key) = <<leaves[key]>>
                      /\ GivenSiblings(db, root, key)
                             = TrueSiblings(leaves, key)
    BY DEF ReadsAreTrue
  <1>1. StoreIsTrue(db)
    BY DEF PathsInv, TreeTypeOK
  <1>2. root = Loaded(db, Commitment(leaves))
    <2>1. CASE clean
      BY <2>1, CleanState DEF Sound
    <2>2. CASE ~clean
      <3>1. /\ root = Loaded(db, saved) /\ leaves = kept.leaves
            /\ saved # NoHash => saved = Commitment(kept.leaves)
        BY <2>2 DEF PathsInv, SavedShape
      <3>2. saved # NoHash
        BY <3>1, NothingRead
      <3>3. QED
        BY <3>1, <3>2
    <2>3. QED
      BY <2>1, <2>2
  <1>3. QED
    BY <1>1, <1>2, ReadIsTrue

LEMMA LeavesAreThere == PathsInv => LeavesInv
  <1> SUFFICES ASSUME PathsInv
               PROVE  WrittenLeavesHaveProofs /\ ReadsAreTrue
    BY DEF LeavesInv
  <1>1. ASSUME clean, NEW key \in written
        PROVE  /\ GetLeaf(db, root, key) = <<leaves[key]>>
               /\ HasProof(db, root, key, leaves[key])
               /\ GivenSiblings(db, root, key) = TrueSiblings(leaves, key)
    <2>1. Sound(db, root, leaves) /\ Open(db, leaves, Height - 1, key)
      BY <1>1, CleanState
    <2>2. key \in Keys
      BY <1>1 DEF PathsInv, TreeTypeOK
    <2>3. QED
      BY <2>1, <2>2, OpenIsRead
  <1>2. QED
    BY <1>1, WhatIsReadIsTrue DEF WrittenLeavesHaveProofs

LEMMA VerifiedIsTrue == PathsInv => OnlyTrueLeavesAreVerified
  <1> SUFFICES ASSUME PathsInv, clean, NEW key \in Keys, NEW value \in Values
               PROVE  VerifyAndStoreResult(db, root, key, value,
                                           TrueSiblings(leaves, key)).ok
                          <=> value = leaves[key]
    BY DEF OnlyTrueLeavesAreVerified
  <1> DEFINE given == TrueSiblings(leaves, key)
             r == VerifyAndStoreResult(db, root, key, value, given)
  <1>1. Sound(db, root, leaves)
    BY CleanState
  <1>2. r.ok => value = leaves[key]
    BY <1>1, VerifyKeeps
  <1>3. \A d \in 1..(Height - 1) : given[d] = HashBeside(leaves, key, d)
    BY SiblingsAre
  <1> HIDE DEF given
  <1>4. VerifyAndStoreResult(db, root, key, leaves[key], given).ok
    BY <1>1, <1>3, VerifyAccepts
  <1>5. ASSUME value = leaves[key]
        PROVE  r.ok
    BY <1>4, <1>5
  <1> HIDE DEF r
  <1>6. r.ok <=> value = leaves[key]
    <2>1. r.ok \in BOOLEAN
      BY <1>1, VerifyKeeps DEF r
    <2>2. QED
      BY <1>2, <1>5, <2>1
  <1>7. QED
    BY <1>6 DEF r, given

LEMMA KnownIsUpdated == PathsInv => KnownPathsAreUpdated
  <1> SUFFICES ASSUME PathsInv, clean
               PROVE  /\ "batchUpdate" \notin refused
                      /\ grown => refused = {}
                      /\ \A key \in proved, value \in Values :
                            UpdateResult(db, root, key, value).ok
    BY DEF KnownPathsAreUpdated
  <1>1. /\ Sound(db, root, leaves)
        /\ \A key \in proved : Held(db, leaves, Height - 1, key)
        /\ "batchUpdate" \notin refused
        /\ grown => refused = {}
    BY CleanState
  <1>2. ASSUME NEW key \in proved, NEW value \in Values
        PROVE  UpdateResult(db, root, key, value).ok
    <2> DEFINE b == [leaves EXCEPT ![key] = value]
    <2>1. key \in Keys /\ leaves \in [Keys -> Values]
      BY DEF PathsInv, TreeTypeOK
    <2>2. b[key] = value /\ Differs(b, leaves, key)
      BY <2>1 DEF Differs
    <2> HIDE DEF b
    <2>3. UpdateResult(db, root, key, b[key]).ok = Opened(db, root, key).ok
      BY <1>1, <2>1, <2>2, UpdateKeeps
    <2>4. Opened(db, root, key).ok
      BY <1>1, <2>1, OpenedIsOk
    <2>5. QED
      BY <2>2, <2>3, <2>4
  <1>3. QED
    BY <1>1, <1>2

\* The root is the hash of the whole tree after any number of updates,
\* batches, proofs, saves and restarts, for a tree of any height and leaves
\* of any values; and what is stored is what its hash commits to, whatever
\* crashes there were.
THEOREM RootsAreTrue == TreeSpec => []RootInv
  BY PathsAlwaysHold, RootIsTrue, PTL

\* A leaf that was written can be read and has its proof, though only some
\* paths are stored; and no crash in the middle of update's puts and deletes
\* leaves a leaf that reads as anything but what the reopened root commits to.
THEOREM LeavesAreKept == TreeSpec => []LeavesInv
  BY PathsAlwaysHold, LeavesAreThere, PTL

\* verifyAndStore takes a value with the right siblings exactly when it is
\* the leaf's, whatever stale nodes of earlier roots could be stored.
THEOREM VerifiedLeavesAreTrue == TreeSpec => []OnlyTrueLeavesAreVerified
  BY PathsAlwaysHold, VerifiedIsTrue, PTL

\* A path that was once proved or updated stays updatable: batchUpdate never
\* gives up halfway, and a tree grown from empty never refuses an update.
THEOREM UpdatesAreTaken == TreeSpec => []KnownPathsAreUpdated
  BY PathsAlwaysHold, KnownIsUpdated, PTL

-----------------------------------------------------------------------------
(***************************************************************************)
(* EventProcessor.                                                         *)
(***************************************************************************)
USE ProcessorAssumption

-----------------------------------------------------------------------------
(***************************************************************************)
(* The first event of a block or later, and the events from there on.      *)
(***************************************************************************)
LEMMA FirstFromFacts ==
    ASSUME TypeOK, LogInv, NEW b \in Nat
    PROVE  /\ FirstFrom(b) \in 1..(Len(logs) + 1)
           /\ \A i \in 1..(FirstFrom(b) - 1) : logs[i] < b
           /\ \A i \in FirstFrom(b)..Len(logs) : logs[i] >= b
  <1> DEFINE S == {i \in DOMAIN logs : logs[i] >= b} \cup {Len(logs) + 1}
  <1>1. Len(logs) \in Nat /\ DOMAIN logs = 1..Len(logs)
        /\ \A i \in DOMAIN logs : logs[i] \in Nat
    BY DEF TypeOK
  <1>2. S \in SUBSET Nat /\ S # {} /\ FirstFrom(b) = Min(S)
    BY <1>1 DEF FirstFrom
  <1>3. Min(S) \in S /\ \A n \in S : Min(S) <= n
    BY <1>2, NatMin
  <1>4. FirstFrom(b) \in 1..(Len(logs) + 1)
    BY <1>1, <1>2, <1>3
  <1>a. \A i \in DOMAIN logs : logs[i] >= b => i \in S
    OBVIOUS
  <1> HIDE DEF S
  <1>5. ASSUME NEW i \in 1..(FirstFrom(b) - 1) PROVE logs[i] < b
    <2>1. i \in DOMAIN logs /\ ~(FirstFrom(b) <= i)
      BY <1>1, <1>4
    <2>2. i \notin S
      BY <1>2, <1>3, <2>1
    <2>3. QED
      BY <1>1, <1>a, <2>1, <2>2
  <1>6. ASSUME NEW i \in FirstFrom(b)..Len(logs) PROVE logs[i] >= b
    <2>1. FirstFrom(b) \in DOMAIN logs /\ i \in DOMAIN logs
          /\ FirstFrom(b) # Len(logs) + 1
      BY <1>1, <1>4
    <2>2. logs[FirstFrom(b)] >= b
      BY <1>2, <1>3, <2>1 DEF S
    <2>3. logs[FirstFrom(b)] <= logs[i]
      BY <2>1, <1>4 DEF LogInv
    <2>4. QED
      BY <1>1, <2>1, <2>2, <2>3
  <1>7. QED
    BY <1>4, <1>5, <1>6

LEMMA EventsFromFacts ==
    ASSUME TypeOK, LogInv, NEW b \in Nat
    PROVE  /\ EventsFrom(b) \in Seq(Nat)
           /\ Len(EventsFrom(b)) = Len(logs) + 1 - FirstFrom(b)
           /\ \A i \in 1..Len(EventsFrom(b)) :
                 EventsFrom(b)[i] = FirstFrom(b) + i - 1
           /\ Range(EventsFrom(b)) = FirstFrom(b)..Len(logs)
  <1> DEFINE f == FirstFrom(b)
             k == Len(logs) + 1 - f
  <1>0. Len(logs) \in Nat
    BY DEF TypeOK
  <1>1. f \in 1..(Len(logs) + 1) /\ Len(logs) \in Nat
    BY <1>0, FirstFromFacts
  <1>2. k \in Nat /\ EventsFrom(b) = [i \in 1..k |-> f + i - 1]
    BY <1>1 DEF EventsFrom
  <1>3. \A i \in 1..k : f + i - 1 \in Nat
    BY <1>1
  <1>4. EventsFrom(b) \in Seq(Nat) /\ Len(EventsFrom(b)) = k
        /\ \A i \in 1..k : EventsFrom(b)[i] = f + i - 1
    BY <1>2, <1>3
  <1>5. Range(EventsFrom(b)) = f..Len(logs)
    <2>1. Range(EventsFrom(b)) = {f + i - 1 : i \in 1..k}
      BY <1>2 DEF Range
    <2>2. ASSUME NEW e \in f..Len(logs) PROVE e \in {f + i - 1 : i \in 1..k}
      <3>1. e - f + 1 \in 1..k /\ e = f + (e - f + 1) - 1
        BY <1>1
      <3>2. QED
        BY <3>1
    <2>3. ASSUME NEW i \in 1..k PROVE f + i - 1 \in f..Len(logs)
      BY <1>1
    <2>4. QED
      BY <2>1, <2>2, <2>3
  <1>6. QED
    BY <1>4, <1>5

-----------------------------------------------------------------------------
(***************************************************************************)
(* Type correctness, together with the order of the log.                   *)
(***************************************************************************)
LEMMA InitType == Init => TypeOK /\ LogInv
  <1> SUFFICES ASSUME Init PROVE TypeOK /\ LogInv
    OBVIOUS
  <1>0. raced \in BOOLEAN
    BY DEF Init
  <1>1. crashes \in 0..MaxCrashes
    BY DEF Init
  <1>2. got \in [Listeners -> Seq(Nat)] /\ done \in [Listeners -> SUBSET Nat]
    BY DEF Init
  <1>3. logs \in Seq(Nat) /\ puts \in Seq(Nat)
        /\ working \subseteq Listeners \X Nat
    BY DEF Init
  <1>4. LogInv
    BY DEF Init, LogInv
  <1>5. QED
    BY <1>0, <1>1, <1>2, <1>3, <1>4 DEF Init, TypeOK

LEMMA SendType ==
    ASSUME TypeOK, NEW events \in Seq(Nat), Send(events)
    PROVE  /\ got' \in [Listeners -> Seq(Nat)]
           /\ working' \subseteq Listeners \X Nat
           /\ done' \in [Listeners -> SUBSET Nat]
  <1>1. \A l \in Listeners : got[l] \o events \in Seq(Nat)
    BY DEF TypeOK
  <1>2. Range(events) \subseteq Nat
    BY DEF Range
  <1>3. QED
    BY <1>1, <1>2 DEF TypeOK, Send

LEMMA MineKeepsLog ==
    ASSUME TypeOK, LogInv, NEW n \in 0..MaxPerBlock, Mine(n)
    PROVE  /\ logs' \in Seq(Nat) /\ LogInv'
           /\ height' = height + 1
           /\ Len(logs') = Len(logs) + n
           /\ \A i \in 1..Len(logs) : logs'[i] = logs[i]
           /\ \A i \in (Len(logs) + 1)..Len(logs') : logs'[i] = height + 1
  <1> DEFINE new == [i \in 1..n |-> height + 1]
  <1>1. height \in Nat /\ n \in Nat /\ logs \in Seq(Nat) /\ stored \in Nat
    BY DEF TypeOK
  <1>2. new \in Seq(Nat) /\ Len(new) = n
    BY <1>1
  <1>3. logs' = logs \o new /\ height' = height + 1
        /\ UNCHANGED <<puts, stored>>
    BY DEF Mine
  <1>4. /\ logs' \in Seq(Nat) /\ Len(logs') = Len(logs) + n
        /\ \A i \in 1..Len(logs) : logs'[i] = logs[i]
        /\ \A i \in (Len(logs) + 1)..Len(logs') : logs'[i] = new[i - Len(logs)]
    BY <1>1, <1>2, <1>3, ConcatProperties
  <1>5. ASSUME NEW i \in (Len(logs) + 1)..Len(logs')
        PROVE  logs'[i] = height + 1
    <2>1. i - Len(logs) \in 1..n
      BY <1>1, <1>4
    <2>2. QED
      BY <1>4, <2>1
  <1>6. /\ \A i \in 1..Len(logs) : logs[i] <= height
        /\ \A i \in 1..Len(logs) : logs[i] \in Nat
        /\ Len(logs) \in Nat /\ DOMAIN logs = 1..Len(logs)
        /\ DOMAIN logs' = 1..Len(logs')
    BY <1>1, <1>4 DEF LogInv
  <1>7. ASSUME NEW i \in DOMAIN logs'
        PROVE  \/ i \in 1..Len(logs) /\ logs'[i] = logs[i]
               \/ i \in (Len(logs) + 1)..Len(logs') /\ logs'[i] = height + 1
    <2>1. i \in 1..Len(logs) \/ i \in (Len(logs) + 1)..Len(logs')
      BY <1>1, <1>4, <1>6
    <2>2. QED
      BY <1>4, <1>5, <2>1
  <1>8. \A i \in DOMAIN logs' : logs'[i] <= height'
    BY <1>1, <1>3, <1>6, <1>7
  <1>9. ASSUME NEW i \in DOMAIN logs', NEW j \in DOMAIN logs', i <= j
        PROVE  logs'[i] <= logs'[j]
    <2>1. CASE j \in 1..Len(logs)
      <3>1. i \in 1..Len(logs)
        BY <1>6, <1>9, <2>1
      <3>2. QED
        BY <1>4, <1>6, <1>9, <2>1, <3>1 DEF LogInv
    <2>2. CASE logs'[j] = height + 1
      BY <1>1, <1>3, <1>8, <1>9, <2>2
    <2>3. QED
      BY <1>7, <2>1, <2>2
  <1>10. stored' <= height' /\ \A i \in DOMAIN puts' : puts'[i] <= height'
    <2>1. \A i \in DOMAIN puts : puts[i] \in Nat
      BY DEF TypeOK
    <2>2. QED
      BY <1>1, <1>3, <2>1 DEF LogInv
  <1>11. subscribed' # {} => next' \in 1..(Len(logs') + 1)
    BY <1>1, <1>4 DEF Mine, LogInv
  <1>12. QED
    BY <1>3, <1>4, <1>5, <1>8, <1>9, <1>10, <1>11 DEF LogInv

LEMMA NextType ==
    ASSUME TypeOK, LogInv, [Next]_vars
    PROVE  TypeOK' /\ LogInv'
  <1> USE DEF ethereum, outcome
  <1>1. ASSUME NEW n \in 0..MaxPerBlock, Mine(n)
        PROVE  TypeOK' /\ LogInv'
    <2>1. logs' \in Seq(Nat) /\ LogInv' /\ height' \in Nat
      BY <1>1, MineKeepsLog DEF TypeOK
    <2>2. QED
      BY <1>1, <2>1 DEF Mine, TypeOK
  <1>2. ASSUME NEW l \in Listeners, Subscribe(l)
        PROVE  TypeOK' /\ LogInv'
    <2>0. height \in Nat
      BY DEF TypeOK
    <2>1. FirstFrom(height) \in 1..(Len(logs) + 1)
      BY <2>0, FirstFromFacts
    <2>2. FirstFrom(height) \in Nat
      BY <2>1
    <2>3. QED
      BY <1>2, <2>1, <2>2 DEF Subscribe, TypeOK, LogInv
  <1>3. CASE BlockNumberFetched
    BY <1>3 DEF BlockNumberFetched, TypeOK, LogInv
  <1>4. CASE LastSyncedRead
    BY <1>4 DEF LastSyncedRead, FinishSync, HistoryStart, TypeOK, LogInv
  <1>5. CASE HistoryFetched
    <2>1. EventsFrom(from) \in Seq(Nat)
      BY EventsFromFacts DEF TypeOK
    <2>2. /\ got' \in [Listeners -> Seq(Nat)]
          /\ working' \subseteq Listeners \X Nat
          /\ done' \in [Listeners -> SUBSET Nat]
      BY <1>5, <2>1, SendType DEF HistoryFetched
    <2>3. QED
      BY <1>5, <2>2 DEF HistoryFetched, FinishSync, TypeOK, LogInv
  <1>6. CASE LiveEvent
    <2>1. /\ next \in DOMAIN logs /\ next \in Nat /\ logs[next] \in Nat
          /\ logs[next] <= height
      BY <1>6 DEF LiveEvent, TypeOK, LogInv
    <2>2. <<next>> \in Seq(Nat)
      BY <2>1
    <2>3. /\ puts' = Append(puts, logs[next]) /\ puts' \in Seq(Nat)
          /\ UNCHANGED <<height, logs, stored>> /\ next' = next + 1
          /\ next' \in 1..(Len(logs) + 1)
      BY <1>6, <2>1 DEF LiveEvent, TypeOK
    <2>4. \A i \in DOMAIN puts' : puts'[i] <= height
      BY <2>1, <2>3 DEF TypeOK, LogInv
    <2>5. LogInv'
      BY <2>3, <2>4 DEF LogInv
    <2>6. raced' \in BOOLEAN
      BY <1>6 DEF LiveEvent, TypeOK
    <2>7. /\ got' \in [Listeners -> Seq(Nat)]
          /\ working' \subseteq Listeners \X Nat
          /\ done' \in [Listeners -> SUBSET Nat]
      BY <1>6, <2>2, SendType DEF LiveEvent
    <2>8. next' \in Nat
      BY <2>1, <2>3
    <2>9. QED
      BY <1>6, <2>3, <2>5, <2>6, <2>7, <2>8 DEF LiveEvent, TypeOK
  <1>7. CASE BlockStored
    <2>1. /\ puts # <<>> /\ stored' = puts[1] /\ puts' = Tail(puts)
          /\ puts \in Seq(Nat)
      BY <1>7 DEF BlockStored, TypeOK
    <2>2. /\ puts' \in Seq(Nat) /\ stored' \in Nat
          /\ \A i \in DOMAIN puts' : i + 1 \in DOMAIN puts
                                     /\ puts'[i] = puts[i + 1]
          /\ 1 \in DOMAIN puts
      BY <2>1
    <2>3. QED
      BY <1>7, <2>1, <2>2 DEF BlockStored, TypeOK, LogInv
  <1>8. ASSUME NEW l \in Listeners, NEW e \in DOMAIN logs, Handled(l, e)
        PROVE  TypeOK' /\ LogInv'
    BY <1>8 DEF Handled, TypeOK, LogInv
  <1>9. CASE Crash
    BY <1>9 DEF Crash, TypeOK, LogInv
  <1>10. CASE UNCHANGED vars
    BY <1>10 DEF vars, TypeOK, LogInv
  <1>11. QED
    BY <1>1, <1>2, <1>3, <1>4, <1>5, <1>6, <1>7, <1>8, <1>9, <1>10
       DEF Next, SyncStep

\* Every step keeps every variable to the values its uses in the code expect
\* (ethereum-event-processor.ts).
THEOREM TypeCorrect == Spec => []TypeOK
  <1>1. TypeOK /\ LogInv /\ [Next]_vars => (TypeOK /\ LogInv)'
    BY NextType
  <1>2. QED
    BY <1>1, InitType, PTL DEF Spec

-----------------------------------------------------------------------------
(***************************************************************************)
(* What the listeners know and were sent, step by step.                    *)
(***************************************************************************)
LEMMA OnlySubscriber ==
    ASSUME OneListener, TypeOK, NEW l \in Listeners
    PROVE  /\ subscribed # {} => l \in subscribed
           /\ l \notin subscribed => subscribed = {}
  BY DEF OneListener, TypeOK

LEMMA LiveBlock ==
    ASSUME TypeOK, LogInv, SyncInv, sync # "none", NEW e \in 1..(next - 1)
    PROVE  /\ e \in DOMAIN logs /\ e \in Nat
           /\ logs[e] \in Nat /\ logs[e] <= height
  <1>1. next \in 1..(Len(logs) + 1) /\ next \in Nat /\ logs \in Seq(Nat)
    BY DEF TypeOK, LogInv, SyncInv
  <1>2. e \in 1..Len(logs) /\ DOMAIN logs = 1..Len(logs)
    BY <1>1
  <1>3. QED
    BY <1>1, <1>2 DEF LogInv

LEMMA SendGrows ==
    ASSUME TypeOK, NEW events \in Seq(Nat), Send(events), NEW l \in Listeners
    PROVE  /\ Len(got[l]) \in Nat /\ Len(got'[l]) \in Nat
           /\ Len(got[l]) <= Len(got'[l])
           /\ \A i \in 1..Len(got[l]) : got'[l][i] = got[l][i]
           /\ l \in subscribed =>
                 /\ Len(got'[l]) = Len(got[l]) + Len(events)
                 /\ \A i \in 1..Len(events) :
                       got'[l][Len(got[l]) + i] = events[i]
           /\ l \notin subscribed => got'[l] = got[l]
  <1>1. got[l] \in Seq(Nat)
    BY DEF TypeOK
  <1>2. Len(got[l]) \in Nat /\ Len(events) \in Nat
    BY <1>1
  <1>3. CASE l \in subscribed
    <2>1. got'[l] = got[l] \o events
      BY <1>3 DEF Send
    <2>2. /\ Len(got'[l]) = Len(got[l]) + Len(events)
          /\ \A i \in 1..Len(got[l]) : got'[l][i] = got[l][i]
          /\ \A i \in (Len(got[l]) + 1)..(Len(got[l]) + Len(events)) :
                got'[l][i] = events[i - Len(got[l])]
      BY <1>1, <2>1, ConcatProperties
    <2>3. ASSUME NEW i \in 1..Len(events)
          PROVE  got'[l][Len(got[l]) + i] = events[i]
      <3> DEFINE k == Len(got[l]) + i
      <3>1. /\ k \in (Len(got[l]) + 1)..(Len(got[l]) + Len(events))
            /\ k - Len(got[l]) = i
        BY <1>2
      <3> HIDE DEF k
      <3>2. got'[l][k] = events[i]
        BY <2>2, <3>1
      <3>3. QED
        BY <3>2 DEF k
    <2>4. QED
      BY <1>2, <1>3, <2>2, <2>3
  <1>4. CASE l \notin subscribed
    <2>1. got'[l] = got[l]
      BY <1>4 DEF Send
    <2>2. QED
      BY <1>2, <1>4, <2>1
  <1>5. QED
    BY <1>3, <1>4

\* What was sent remains sent, and what is sent now is known.
LEMMA SendKeeps ==
    ASSUME TypeOK, NEW events \in Seq(Nat), Send(events),
           NEW l \in Listeners, NEW e
    PROVE  /\ Known(l, e) => Known(l, e)'
           /\ WasSent(l, e) => WasSent(l, e)'
           /\ l \in subscribed /\ e \in Range(events) =>
                 Known(l, e)' /\ WasSent(l, e)'
           /\ <<l, e>> \in working' =>
                 \/ <<l, e>> \in working
                 \/ l \in subscribed /\ e \in Range(events)
  <1>1. Known(l, e) => Known(l, e)'
    BY DEF Known, Send
  <1>2. /\ DOMAIN got[l] = 1..Len(got[l]) /\ DOMAIN got'[l] = 1..Len(got'[l])
        /\ DOMAIN events = 1..Len(events) /\ Len(events) \in Nat
    <2>1. got[l] \in Seq(Nat) /\ got'[l] \in Seq(Nat)
      BY SendType DEF TypeOK
    <2>2. QED
      BY <2>1
  <1>3. WasSent(l, e) => WasSent(l, e)'
    BY <1>2, SendGrows DEF WasSent
  <1>4. ASSUME l \in subscribed, e \in Range(events)
        PROVE  Known(l, e)' /\ WasSent(l, e)'
    <2>1. PICK i \in 1..Len(events) : events[i] = e
      BY <1>2, <1>4 DEF Range
    <2>2. Len(got[l]) + i \in DOMAIN got'[l] /\ got'[l][Len(got[l]) + i] = e
      BY SMTT(30), <1>2, <1>4, <2>1, SendGrows
    <2>3. WasSent(l, e)'
      BY <2>2 DEF WasSent
    <2>4. Known(l, e)'
      BY <1>4 DEF Known, Send
    <2>5. QED
      BY <2>3, <2>4
  <1>5. <<l, e>> \in working' =>
            \/ <<l, e>> \in working
            \/ l \in subscribed /\ e \in Range(events)
    BY DEF Send
  <1>6. QED
    BY <1>1, <1>3, <1>4, <1>5

\* An event that a listener knows is one it was sent.
LEMMA KnownWasSent ==
    ASSUME CoveredInv, NEW l \in Listeners, NEW e, Known(l, e)
    PROVE  WasSent(l, e)
  <1>1. CASE e \in done[l]
    BY <1>1 DEF CoveredInv
  <1>2. CASE <<l, e>> \in working
    BY <1>2 DEF CoveredInv
  <1>3. QED
    BY <1>1, <1>2 DEF Known

LEMMA SendCovered ==
    ASSUME TypeOK, CoveredInv, NEW events \in Seq(Nat), Send(events)
    PROVE  /\ \A l \in Listeners : \A e \in done'[l] : WasSent(l, e)'
           /\ \A w \in working' : WasSent(w[1], w[2])'
  <1>1. ASSUME NEW l \in Listeners, NEW e \in done'[l]
        PROVE  WasSent(l, e)'
    <2>1. e \in done[l]
      BY <1>1 DEF Send
    <2>2. WasSent(l, e)
      BY <2>1 DEF CoveredInv
    <2>3. QED
      BY <2>2, SendKeeps
  <1>2. ASSUME NEW w \in working'
        PROVE  WasSent(w[1], w[2])'
    <2>1. w[1] \in Listeners /\ w = <<w[1], w[2]>>
      BY <1>2, SendType
    <2>2. CASE w \in working
      <3>1. WasSent(w[1], w[2])
        BY <2>2 DEF CoveredInv
      <3>2. QED
        BY <2>1, <3>1, SendKeeps
    <2>3. CASE w \notin working
      <3>1. w[1] \in subscribed /\ w[2] \in Range(events)
        BY <2>1, <2>3, SendKeeps
      <3>2. QED
        BY <2>1, <3>1, SendKeeps
    <2>4. QED
      BY <2>2, <2>3
  <1>3. QED
    BY <1>1, <1>2

-----------------------------------------------------------------------------
(***************************************************************************)
(* The inductive invariant of a processor with one listener: one lemma per *)
(* action.  LogInv' is NextType.                                           *)
(***************************************************************************)
DeliverySteps == SyncInv /\ CoveredInv /\ NothingForgotten /\ FirstSeenInOrder

LEMMA InitDelivery == Init => DeliverySteps
  BY DEF Init, DeliverySteps, SyncInv, CoveredInv, NothingForgotten,
         FirstSeenInOrder

\* A step that leaves the listeners' knowledge, the live position and the
\* syncs completed alone, and hides no race.
LEMMA Quiet ==
    ASSUME UNCHANGED <<got, working, done, completed, next>>, raced => raced',
           NothingForgotten, FirstSeenInOrder
    PROVE  NothingForgotten' /\ FirstSeenInOrder'
  BY DEF NothingForgotten, FirstSeenInOrder

LEMMA MineDelivery ==
    ASSUME TypeOK, LogInv, DeliverySteps, NEW n \in 0..MaxPerBlock, Mine(n)
    PROVE  DeliverySteps'
  <1> USE DEF DeliverySteps
  <1>1. UNCHANGED <<subscribed, sync, current, from, next, puts, stored,
                    got, working, done, completed, crashes, raced>>
    BY DEF Mine, outcome
  <1>2. /\ Len(logs') = Len(logs) + n /\ Len(logs) \in Nat /\ n \in Nat
        /\ \A i \in 1..Len(logs) : logs'[i] = logs[i]
        /\ \A i \in (Len(logs) + 1)..Len(logs') : logs'[i] = height + 1
        /\ DOMAIN logs = 1..Len(logs) /\ DOMAIN logs' = 1..Len(logs')
    <2>1. logs' \in Seq(Nat) /\ logs \in Seq(Nat)
      BY MineKeepsLog DEF TypeOK
    <2>2. QED
      BY <2>1, MineKeepsLog
  <1>3. SyncInv'
    <2>1. ASSUME sync = "lastSynced", NEW e \in 1..(next - 1)
          PROVE  logs'[e] = logs[e]
      BY <1>2, <2>1, LiveBlock
    <2>2. QED
      BY <1>1, <2>1 DEF SyncInv, HistoryStart
  <1>4. CoveredInv'
    <2>1. ASSUME NEW e \in DOMAIN logs', logs'[e] <= stored
          PROVE  e \in DOMAIN logs /\ logs[e] <= stored
      <3>1. height \in Nat /\ stored \in Nat /\ stored <= height
        BY DEF TypeOK, LogInv
      <3>2. e \in 1..Len(logs) \/ e \in (Len(logs) + 1)..Len(logs')
        BY <1>2
      <3>3. QED
        BY <1>2, <2>1, <3>1, <3>2
    <2>2. QED
      BY <1>1, <2>1 DEF CoveredInv, Known, WasSent
  <1>5. QED
    BY <1>1, <1>3, <1>4, Quiet

LEMMA SubscribeDelivery ==
    ASSUME OneListener, TypeOK, LogInv, DeliverySteps,
           NEW l \in Listeners, Subscribe(l)
    PROVE  DeliverySteps'
  <1> USE DEF DeliverySteps
  <1>1. subscribed = {}
    BY OnlySubscriber DEF Subscribe
  <1>2. /\ sync = "none" /\ sync' = "blockNumber" /\ subscribed' = {l}
        /\ completed = {} /\ UNCHANGED <<logs, current, from, puts, stored,
                              got, working, done, completed, raced>>
    BY <1>1 DEF Subscribe, ethereum, outcome, SyncInv
  <1>3. SyncInv'
    BY <1>2 DEF SyncInv
  <1>4. CoveredInv'
    BY <1>2 DEF CoveredInv, Known, WasSent
  <1>5. NothingForgotten' /\ FirstSeenInOrder'
    BY <1>2 DEF NothingForgotten, FirstSeenInOrder
  <1>6. QED
    BY <1>3, <1>4, <1>5

LEMMA BlockNumberDelivery ==
    ASSUME TypeOK, LogInv, DeliverySteps, BlockNumberFetched
    PROVE  DeliverySteps'
  <1> USE DEF DeliverySteps
  <1>1. /\ sync = "blockNumber" /\ sync' = "lastSynced" /\ current' = height
        /\ UNCHANGED <<logs, subscribed, from, next, puts, stored,
                       got, working, done, completed, raced>>
    BY DEF BlockNumberFetched, ethereum, outcome, SyncInv
  <1>2. \A e \in 1..(next - 1) : logs[e] <= height
    BY <1>1, LiveBlock
  <1>3. SyncInv'
    BY <1>1, <1>2 DEF SyncInv
  <1>4. CoveredInv'
    BY <1>1 DEF CoveredInv, Known, WasSent
  <1>5. QED
    BY <1>1, <1>3, <1>4, Quiet

LEMMA LastSyncedDelivery ==
    ASSUME TypeOK, LogInv, DeliverySteps, LastSyncedRead
    PROVE  DeliverySteps'
  <1> USE DEF DeliverySteps
  <1>1. /\ sync = "lastSynced" /\ completed = {}
        /\ UNCHANGED <<logs, subscribed, current, next, puts, stored,
                       got, working, done, raced>>
    BY DEF LastSyncedRead, ethereum, outcome, SyncInv
  <1>2. CASE current = stored
    <2>1. sync' = "completed" /\ completed' = subscribed /\ from' = from
      BY <1>1, <1>2 DEF LastSyncedRead, FinishSync
    <2>2. SyncInv'
      BY <1>1, <2>1 DEF SyncInv
    <2>3. CoveredInv'
      BY <1>1, <2>1 DEF CoveredInv, Known, WasSent
    <2>4. ASSUME ~raced, NEW l \in subscribed, NEW e \in 1..(next - 1)
          PROVE  Known(l, e)
      <3>1. e \in DOMAIN logs /\ logs[e] <= stored
        BY <1>1, <1>2, <2>4, LiveBlock DEF SyncInv
      <3>2. l \in Listeners
        BY DEF TypeOK
      <3>3. QED
        BY <1>1, <2>4, <3>1, <3>2 DEF CoveredInv
    <2>5. NothingForgotten'
      BY <1>1, <2>1, <2>4 DEF NothingForgotten, Known
    <2>6. FirstSeenInOrder'
      BY <1>1 DEF FirstSeenInOrder
    <2>7. QED
      BY <2>2, <2>3, <2>5, <2>6
  <1>3. CASE current # stored
    <2>1. sync' = "logs" /\ from' = HistoryStart /\ completed' = completed
      BY <1>1, <1>3 DEF LastSyncedRead
    <2>2. SyncInv'
      BY <1>1, <2>1 DEF SyncInv, HistoryStart
    <2>3. CoveredInv'
      BY <1>1, <2>1 DEF CoveredInv, Known, WasSent
    <2>4. QED
      BY <1>1, <2>1, <2>2, <2>3, Quiet
  <1>4. QED
    BY <1>2, <1>3

LEMMA HistoryDelivery ==
    ASSUME OneListener, TypeOK, LogInv, DeliverySteps, HistoryFetched
    PROVE  DeliverySteps'
  <1> USE DEF DeliverySteps
  <1> DEFINE events == EventsFrom(from)
             f      == FirstFrom(from)
  <1>1. /\ sync = "logs" /\ completed = {} /\ Send(events)
        /\ sync' = "completed" /\ completed' = subscribed
        /\ UNCHANGED <<logs, subscribed, current, from, next, puts, stored,
                       raced>>
    BY DEF HistoryFetched, FinishSync, ethereum, SyncInv
  <1>2. /\ from \in Nat /\ stored \in Nat /\ logs \in Seq(Nat)
        /\ Len(logs) \in Nat /\ DOMAIN logs = 1..Len(logs)
        /\ \A i \in DOMAIN logs : logs[i] \in Nat
    BY DEF TypeOK
  <1>3. /\ events \in Seq(Nat) /\ Len(events) = Len(logs) + 1 - f
        /\ \A i \in 1..Len(events) : events[i] = f + i - 1
        /\ Range(events) = f..Len(logs)
    BY <1>2, EventsFromFacts
  <1>4. /\ f \in 1..(Len(logs) + 1)
        /\ \A i \in 1..(f - 1) : logs[i] < from
    BY <1>2, FirstFromFacts
  <1>5. SyncInv'
    BY <1>1 DEF SyncInv
  <1> HIDE DEF events, f
  <1>6. CoveredInv'
    <2>1. /\ \A l \in Listeners : \A e \in done'[l] : WasSent(l, e)'
          /\ \A w \in working' : WasSent(w[1], w[2])'
      BY <1>1, <1>3, SendCovered
    <2>2. QED
      BY <1>1, <2>1 DEF CoveredInv
  <1>7. ASSUME ~raced, NEW l \in Listeners, NEW e \in 1..(f - 1)
        PROVE  Known(l, e)
    <2>1. e \in DOMAIN logs /\ logs[e] < from /\ from = stored + 1
      BY <1>1, <1>2, <1>4, <1>7 DEF SyncInv, HistoryStart
    <2>2. logs[e] <= stored
      BY <1>2, <2>1
    <2>3. QED
      BY <1>1, <1>7, <2>1, <2>2 DEF CoveredInv
  <1>8. ASSUME ~raced, NEW l \in subscribed, NEW e \in 1..(next - 1)
        PROVE  Known(l, e)'
    <2>1. l \in Listeners
      BY DEF TypeOK
    <2>2. e \in 1..Len(logs)
      BY <1>1, <1>2, LiveBlock
    <2>3. CASE e \in 1..(f - 1)
      <3>1. Known(l, e)
        BY <1>7, <1>8, <2>1, <2>3
      <3>2. QED
        BY <1>1, <1>3, <2>1, <3>1, SendKeeps
    <2>4. CASE e \in f..Len(logs)
      BY <1>1, <1>3, <2>1, <2>4, SendKeeps
    <2>5. QED
      BY <1>2, <1>4, <2>2, <2>3, <2>4
  <1>9. NothingForgotten'
    BY <1>1, <1>8 DEF NothingForgotten, Known
  <1>10. ASSUME ~raced, NEW l \in Listeners, NEW i \in DOMAIN got'[l],
                NEW e \in 1..(got'[l][i] - 1)
         PROVE  \E j \in 1..i : got'[l][j] = e
    <2>1. /\ Len(got[l]) \in Nat /\ DOMAIN got[l] = 1..Len(got[l])
          /\ DOMAIN got'[l] = 1..Len(got'[l])
      <3>1. got[l] \in Seq(Nat) /\ got'[l] \in Seq(Nat)
        BY <1>1, <1>3, SendType DEF TypeOK
      <3>2. QED
        BY <3>1
    <2>0. f \in Nat /\ f >= 1 /\ Len(events) \in Nat
      BY <1>3, <1>4
    <2>2. CASE i \in 1..Len(got[l])
      <3>1. got'[l][i] = got[l][i]
        BY <1>1, <1>3, <2>2, SendGrows
      <3>2. PICK j \in 1..i : got[l][j] = e
        BY <1>10, <2>1, <2>2, <3>1 DEF FirstSeenInOrder
      <3>3. j \in 1..Len(got[l])
        BY <2>1, <2>2
      <3>4. got'[l][j] = e
        BY <1>1, <1>3, <3>2, <3>3, SendGrows
      <3>5. QED
        BY <3>4
    <2>3. CASE i \notin 1..Len(got[l])
      <3>1. i \in (Len(got[l]) + 1)..Len(got'[l])
        BY <2>1, <2>3
      <3>2. l \in subscribed
        BY <1>1, <1>3, <2>1, <2>3, SendGrows
      <3>3. \A k \in 1..Len(events) : got'[l][Len(got[l]) + k] = events[k]
        BY <1>1, <1>3, <3>2, SendGrows
      <3>3a. Len(got'[l]) = Len(got[l]) + Len(events)
        BY <1>1, <1>3, <3>2, SendGrows
      <3> DEFINE k == i - Len(got[l])
      <3>4. k \in 1..Len(events) /\ i = Len(got[l]) + k
        BY SMTT(30), <2>0, <2>1, <3>1, <3>3a
      <3> HIDE DEF k
      <3>5. got'[l][i] = f + k - 1
        BY <1>3, <3>3, <3>4
      <3>6. CASE e \in 1..(f - 1)
        <4>1. WasSent(l, e)
          BY <1>7, <1>10, <3>6, KnownWasSent
        <4>2. PICK j \in 1..Len(got[l]) : got[l][j] = e
          BY <2>1, <4>1 DEF WasSent
        <4>3. got'[l][j] = e
          BY <1>1, <1>3, <4>2, SendGrows
        <4>4. j \in 1..i
          BY <2>1, <3>1
        <4>5. QED
          BY <4>3, <4>4
      <3>7. CASE e \in f..(f + k - 2)
        <4> DEFINE m == e - f + 1
                   j == Len(got[l]) + m
        <4>0. m \in 1..k /\ f + m - 1 = e
          BY <2>0, <3>4, <3>7
        <4> HIDE DEF m
        <4>1. m \in 1..Len(events) /\ f + m - 1 = e /\ j \in 1..i
          BY <2>0, <2>1, <3>4, <4>0
        <4>2. got'[l][j] = e
          BY <1>3, <3>3, <4>1
        <4>3. QED
          BY <4>1, <4>2
      <3>8. QED
        <4>1. f + k - 1 \in Nat /\ e \in 1..(f + k - 2)
          BY <2>0, <3>4, <3>5, <1>10
        <4>2. e \in 1..(f - 1) \/ e \in f..(f + k - 2)
          BY <2>0, <3>4, <4>1
        <4>3. QED
          BY <3>6, <3>7, <4>2
    <2>4. QED
      BY <2>2, <2>3
  <1>11. FirstSeenInOrder'
    BY <1>1, <1>10 DEF FirstSeenInOrder
  <1>12. QED
    BY <1>5, <1>6, <1>9, <1>11

LEMMA LiveDelivery ==
    ASSUME OneListener, TypeOK, LogInv, DeliverySteps, LiveEvent
    PROVE  DeliverySteps'
  <1> USE DEF DeliverySteps
  <1>1. /\ subscribed # {} /\ Send(<<next>>) /\ next' = next + 1
        /\ raced' = (raced \/ sync # "completed")
        /\ UNCHANGED <<logs, subscribed, sync, current, from, stored, completed>>
    BY DEF LiveEvent, ethereum
  <1>2. next \in Nat /\ next >= 1 /\ <<next>> \in Seq(Nat)
        /\ Range(<<next>>) = {next}
    <2>1. next \in 1..(Len(logs) + 1) /\ Len(logs) \in Nat
      BY <1>1 DEF TypeOK, LogInv
    <2>2. next \in Nat /\ next >= 1
      BY <2>1
    <2>3. Range(<<next>>) = {next}
      BY DEF Range
    <2>4. QED
      BY <2>2, <2>3
  <1>3. SyncInv'
    BY <1>1 DEF SyncInv
  <1>4. CoveredInv'
    <2>1. /\ \A l \in Listeners : \A e \in done'[l] : WasSent(l, e)'
          /\ \A w \in working' : WasSent(w[1], w[2])'
      BY <1>1, <1>2, SendCovered
    <2>2. QED
      BY <1>1, <2>1 DEF CoveredInv
  <1>5. ASSUME ~raced', NEW l \in Listeners
        PROVE  /\ ~raced /\ sync = "completed" /\ completed = subscribed
               /\ l \in subscribed
               /\ \A e \in 1..(next - 1) : Known(l, e)
    <2>1. ~raced /\ sync = "completed"
      BY <1>1, <1>5
    <2>2. completed = subscribed
      BY <2>1 DEF SyncInv
    <2>3. l \in subscribed
      BY <1>1, OnlySubscriber
    <2>4. QED
      BY <2>1, <2>2, <2>3 DEF NothingForgotten, Known
  <1>6. ASSUME ~raced', NEW l \in completed', NEW e \in 1..(next' - 1)
        PROVE  Known(l, e)'
    <2>1. l \in Listeners /\ l \in subscribed
      BY <1>1 DEF TypeOK
    <2>2. e \in 1..(next - 1) \/ e = next
      BY <1>1, <1>2
    <2>3. CASE e \in 1..(next - 1)
      BY <1>1, <1>2, <1>5, <1>6, <2>1, <2>3, SendKeeps
    <2>4. CASE e = next
      BY <1>1, <1>2, <2>1, <2>4, SendKeeps
    <2>5. QED
      BY <2>2, <2>3, <2>4
  <1>7. NothingForgotten'
    BY <1>6 DEF NothingForgotten, Known
  <1>8. ASSUME ~raced', NEW l \in Listeners, NEW i \in DOMAIN got'[l],
               NEW e \in 1..(got'[l][i] - 1)
        PROVE  \E j \in 1..i : got'[l][j] = e
    <2>1. /\ Len(got[l]) \in Nat /\ DOMAIN got[l] = 1..Len(got[l])
          /\ DOMAIN got'[l] = 1..Len(got'[l])
      <3>1. got[l] \in Seq(Nat) /\ got'[l] \in Seq(Nat)
        BY <1>1, <1>2, SendType DEF TypeOK
      <3>2. QED
        BY <3>1
    <2>2. CASE i \in 1..Len(got[l])
      <3>1. got'[l][i] = got[l][i]
        BY <1>1, <1>2, <2>2, SendGrows
      <3>2. PICK j \in 1..i : got[l][j] = e
        BY <1>5, <1>8, <2>1, <2>2, <3>1 DEF FirstSeenInOrder
      <3>3. j \in 1..Len(got[l])
        BY <2>1, <2>2
      <3>4. got'[l][j] = e
        BY <1>1, <1>2, <3>2, <3>3, SendGrows
      <3>5. QED
        BY <3>4
    <2>3. CASE i \notin 1..Len(got[l])
      <3>1. Len(got'[l]) = Len(got[l]) + 1 /\ got'[l] = got[l] \o <<next>>
        BY <1>1, <1>2, <1>5, <1>8, SendGrows DEF Send
      <3>2. i = Len(got[l]) + 1
        BY <2>1, <2>3, <3>1
      <3>3. got'[l][i] = next
        <4>1. got[l] \in Seq(Nat)
          BY DEF TypeOK
        <4>2. QED
          BY <1>2, <3>1, <3>2, <4>1
      <3>4. Known(l, e)
        BY <1>5, <1>8, <3>3
      <3>5. PICK j \in 1..Len(got[l]) : got[l][j] = e
        BY <2>1, <3>4, KnownWasSent DEF WasSent
      <3>6. got'[l][j] = e
        BY <1>1, <1>2, <3>5, SendGrows
      <3>7. j \in 1..i
        BY <2>1, <3>2
      <3>8. QED
        BY <3>6, <3>7
    <2>4. QED
      BY <2>2, <2>3
  <1>9. FirstSeenInOrder'
    BY <1>8 DEF FirstSeenInOrder
  <1>10. QED
    BY <1>3, <1>4, <1>7, <1>9

LEMMA BlockStoredDelivery ==
    ASSUME TypeOK, DeliverySteps, BlockStored
    PROVE  DeliverySteps'
  <1> USE DEF DeliverySteps
  <1>1. /\ puts # <<>>
        /\ UNCHANGED <<logs, subscribed, sync, current, from, next,
                       got, working, done, completed, raced>>
    BY DEF BlockStored, ethereum, outcome
  <1>2. raced \/ sync = "completed"
    BY <1>1 DEF SyncInv
  <1>3. SyncInv'
    BY <1>1, <1>2 DEF SyncInv
  <1>4. CoveredInv'
    BY <1>1, <1>2 DEF CoveredInv, Known, WasSent
  <1>5. QED
    BY <1>1, <1>3, <1>4, Quiet

LEMMA HandledDelivery ==
    ASSUME TypeOK, DeliverySteps,
           NEW l \in Listeners, NEW e \in DOMAIN logs, Handled(l, e)
    PROVE  DeliverySteps'
  <1> USE DEF DeliverySteps
  <1>1. /\ <<l, e>> \in working /\ working' = working \ {<<l, e>>}
        /\ done' = [done EXCEPT ![l] = @ \cup {e}]
        /\ UNCHANGED <<logs, subscribed, sync, current, from, next, puts,
                       stored, got, completed, raced>>
    BY DEF Handled, ethereum
  <1>2. ASSUME NEW m \in Listeners, NEW d, Known(m, d)
        PROVE  Known(m, d)'
    BY <1>1, <1>2 DEF Known, TypeOK
  <1>3. SyncInv'
    BY <1>1 DEF SyncInv, HistoryStart
  <1>4. CoveredInv'
    <2>1. ASSUME NEW m \in Listeners, NEW d \in done'[m]
          PROVE  WasSent(m, d)'
      <3>1. d \in done[m] \/ <<m, d>> \in working
        BY <1>1, <2>1 DEF TypeOK
      <3>2. WasSent(m, d)
        BY <3>1, KnownWasSent DEF Known
      <3>3. QED
        BY <1>1, <3>2 DEF WasSent
    <2>2. ASSUME NEW w \in working'
          PROVE  WasSent(w[1], w[2])'
      BY <1>1 DEF CoveredInv, WasSent
    <2>3. ~raced' /\ sync' # "completed" =>
             \A m \in Listeners, d \in DOMAIN logs' :
                logs'[d] <= stored' => Known(m, d)'
      BY <1>1, <1>2 DEF CoveredInv
    <2>4. QED
      BY <2>1, <2>2, <2>3 DEF CoveredInv
  <1>5. NothingForgotten'
    <2>1. ASSUME ~raced, NEW m \in completed, NEW d \in 1..(next - 1)
          PROVE  Known(m, d)'
      <3>1. m \in Listeners
        BY DEF TypeOK
      <3>2. Known(m, d)
        BY <2>1 DEF NothingForgotten, Known
      <3>3. QED
        BY <1>2, <3>1, <3>2
    <2>2. QED
      BY <1>1, <2>1 DEF NothingForgotten, Known
  <1>6. FirstSeenInOrder'
    BY <1>1 DEF FirstSeenInOrder
  <1>7. QED
    BY <1>3, <1>4, <1>5, <1>6

LEMMA CrashDelivery ==
    ASSUME OneListener, TypeOK, LogInv, DeliverySteps, Crash
    PROVE  DeliverySteps'
  <1> USE DEF DeliverySteps
  <1>1. /\ subscribed # {} /\ subscribed' = {} /\ sync' = "none"
        /\ current' = 0 /\ next' = 0 /\ puts' = <<>> /\ working' = {}
        /\ completed' = {}
        /\ UNCHANGED <<logs, stored, got, done>>
        /\ raced' = (raced \/ working # {} \/ BlockIsCut)
    BY DEF Crash, ethereum
  <1>2. SyncInv'
    BY <1>1 DEF SyncInv
  <1>3. ASSUME ~raced', NEW l \in Listeners, NEW e \in DOMAIN logs,
               logs[e] <= stored
        PROVE  e \in done[l]
    <2>1. ~raced /\ working = {} /\ ~BlockIsCut
      BY <1>1, <1>3
    <2>2. Known(l, e)
      <3>1. CASE sync # "completed"
        BY <1>3, <2>1, <3>1 DEF CoveredInv
      <3>2. CASE sync = "completed"
        <4>1. l \in completed
          BY <1>1, <3>2, OnlySubscriber DEF SyncInv
        <4>2. /\ logs \in Seq(Nat) /\ DOMAIN logs = 1..Len(logs)
              /\ Len(logs) \in Nat /\ stored \in Nat
          BY DEF TypeOK
        <4>3. next \in 1..(Len(logs) + 1)
          BY <1>1 DEF LogInv
        <4>4. CASE e \in 1..(next - 1)
          BY <2>1, <4>1, <4>4 DEF NothingForgotten, Known
        <4>5. CASE e \notin 1..(next - 1)
          <5>1. next \in DOMAIN logs /\ next <= e
            BY <1>3, <4>2, <4>3, <4>5
          <5>2. logs[next] <= logs[e] /\ logs[next] \in Nat /\ logs[e] \in Nat
            BY <1>3, <4>2, <5>1 DEF LogInv
          <5>3. logs[next] <= stored
            BY <1>3, <4>2, <5>2
          <5>4. QED
            BY <2>1, <5>1, <5>3 DEF BlockIsCut
        <4>6. QED
          BY <4>4, <4>5
      <3>3. QED
        BY <3>1, <3>2
    <2>3. QED
      BY <2>1, <2>2 DEF Known
  <1>4. CoveredInv'
    BY <1>1, <1>3 DEF CoveredInv, Known, WasSent
  <1>5. NothingForgotten'
    BY <1>1 DEF NothingForgotten
  <1>6. FirstSeenInOrder'
    <2>1. UNCHANGED got /\ (raced => raced')
      BY <1>1
    <2>2. QED
      BY <2>1 DEF FirstSeenInOrder
  <1>7. QED
    BY <1>2, <1>4, <1>5, <1>6

LEMMA NextDelivery ==
    ASSUME OneListener, TypeOK, LogInv, DeliverySteps, [Next]_vars
    PROVE  DeliverySteps'
  <1>1. CASE UNCHANGED vars
    BY <1>1 DEF vars, ethereum, outcome, DeliverySteps, SyncInv, HistoryStart,
           CoveredInv, Known, WasSent, NothingForgotten, FirstSeenInOrder
  <1>2. QED
    BY <1>1, MineDelivery, SubscribeDelivery, BlockNumberDelivery,
       LastSyncedDelivery, HistoryDelivery, LiveDelivery, BlockStoredDelivery,
       HandledDelivery, CrashDelivery DEF Next, SyncStep

\* "This will also fetch and send the provided event handler all historical
\* events not in the database" (ethereum-event-processor.ts:43): until a race
\* that the code has no answer to, a program with one listener forgets no
\* event, whatever its crashes, and sees the events first in their order.
THEOREM EventsAreDelivered ==
    ASSUME OneListener PROVE Spec => []DeliveryInv
  <1> DEFINE IInv == TypeOK /\ EventInv
  <1>1. Init => IInv
    BY InitType, InitDelivery DEF EventInv, DeliverySteps
  <1>2. IInv /\ [Next]_vars => IInv'
    BY NextType, NextDelivery DEF EventInv, DeliverySteps
  <1>3. IInv => DeliveryInv
    BY DEF EventInv, DeliveryInv
  <1>4. QED
    BY <1>1, <1>2, <1>3, PTL DEF Spec
=============================================================================
