------------------------- MODULE NodeAndCodec_proofs -------------------------
(***************************************************************************)
(* Proofs about TransitionCodec, for any addresses, amounts and numbers of *)
(* restarts, and about RollupNode, for any number of transactions, any     *)
(* block size and any number of crashes and failures.  They are of one     *)
(* module because they share what is known of sequences.                   *)
(***************************************************************************)
EXTENDS RollupNode, TransitionCodec, SequenceTheorems, WellFoundedInduction,
        TLAPS

-----------------------------------------------------------------------------
(***************************************************************************)
(* Helpers.                                                                *)
(***************************************************************************)
LEMMA NatMin ==
    ASSUME NEW S \in SUBSET Nat, S # {}
    PROVE  Min(S) \in S /\ \A n \in S : Min(S) <= n
  <1>1. PICK m \in S : \A n \in S : ~(<<n, m>> \in OpToRel(<, Nat))
    BY NatLessThanWellFounded, WFMin
  <1>2. \A n \in S : ~(n < m)
    BY <1>1 DEF OpToRel
  <1>3. \A n \in S : m <= n
    BY <1>2
  <1>4. QED
    BY <1>3 DEF Min

LEMMA FromZero ==
  ASSUME NEW n \in Nat, NEW S, 0 \in S,
         \A d \in 0..(n - 1) : d \in S => d + 1 \in S
  PROVE  0..n \subseteq S
  <1> DEFINE Bad == {d \in 0..n : d \notin S}
  <1> SUFFICES ASSUME Bad # {}
               PROVE  FALSE
    OBVIOUS
  <1> DEFINE m == Min(Bad)
  <1>1. m \in Bad /\ \A d \in Bad : m <= d
    BY NatMin
  <1> HIDE DEF m
  <1>2. m \in 0..n /\ m # 0 /\ m \notin S
    BY <1>1
  <1>3. m - 1 \in 0..(n - 1)
    BY <1>2
  <1>4. m - 1 \notin Bad
    BY <1>1, <1>3
  <1>5. m - 1 \in S
    BY <1>3, <1>4
  <1>6. (m - 1) + 1 = m
    BY <1>2
  <1>7. QED
    BY <1>2, <1>3, <1>5, <1>6

LEMMA AppendFacts ==
    ASSUME NEW S, NEW s \in Seq(S), NEW v \in S
    PROVE  /\ Append(s, v) \in Seq(S)
           /\ Append(s, v) # <<>>
           /\ Len(Append(s, v)) = Len(s) + 1
           /\ Len(s) \in Nat
           /\ \A i \in 1..Len(s) : Append(s, v)[i] = s[i]
           /\ Append(s, v)[Len(s) + 1] = v
  <1>1. /\ Append(s, v) \in Seq(S)
        /\ Len(Append(s, v)) = Len(s) + 1
        /\ \A i \in 1..Len(s) : Append(s, v)[i] = s[i]
        /\ Append(s, v)[Len(s) + 1] = v
    OBVIOUS
  <1>2. Len(s) \in Nat
    OBVIOUS
  <1>3. Append(s, v) # <<>>
    BY <1>1, <1>2
  <1>4. QED
    BY <1>1, <1>2, <1>3

\* FlattenSeq is defined by a recursive function: it exists, for each length,
\* and is the only one.
Joins(seqs, n, h) ==
    h = [i \in 1..n |-> IF i = 1 THEN seqs[i] ELSE h[i - 1] \o seqs[i]]

LEMMA JoinsExists ==
    ASSUME NEW seqs, NEW n \in Nat
    PROVE  \E h : Joins(seqs, n, h)
  <1> DEFINE S == {k \in Nat : ~\E h : Joins(seqs, k, h)}
  <1> SUFFICES ASSUME S # {}
               PROVE  FALSE
    OBVIOUS
  <1> DEFINE m == Min(S)
  <1>1. m \in S /\ \A k \in S : m <= k
    BY NatMin
  <1> HIDE DEF m
  <1>2. m \in Nat /\ ~\E h : Joins(seqs, m, h)
    BY <1>1
  <1>3. m # 0
    <2> DEFINE h == [i \in 1..0 |-> IF i = 1 THEN seqs[i] ELSE seqs[i]]
    <2>1. Joins(seqs, 0, h)
      BY DEF Joins
    <2>2. QED
      BY <1>2, <2>1
  <1>4. m - 1 \in Nat /\ m - 1 \notin S
    BY <1>1, <1>2, <1>3
  <1>5. PICK g : Joins(seqs, m - 1, g)
    BY <1>4
  <1> DEFINE h == [i \in 1..m |->
                      IF i < m THEN g[i]
                      ELSE IF i = 1 THEN seqs[i] ELSE g[i - 1] \o seqs[i]]
  <1>6. ASSUME NEW i \in 1..m
        PROVE  h[i] = IF i = 1 THEN seqs[i] ELSE h[i - 1] \o seqs[i]
    <2>1. CASE i < m
      <3>1. i \in 1..(m - 1)
        BY <1>2, <2>1
      <3>2. g[i] = IF i = 1 THEN seqs[i] ELSE g[i - 1] \o seqs[i]
        BY <1>5, <3>1 DEF Joins
      <3>3. i # 1 => i - 1 \in 1..m /\ i - 1 < m
        BY <1>2, <2>1
      <3>4. h[i] = g[i] /\ (i # 1 => h[i - 1] = g[i - 1])
        BY <2>1, <3>3
      <3> HIDE DEF h
      <3>5. QED
        BY <3>2, <3>4
    <2>2. CASE i = m
      <3>1. i # 1 => i - 1 \in 1..m /\ i - 1 < m /\ ~(i < m)
        BY <1>2, <2>2
      <3>2. h[i] = (IF i = 1 THEN seqs[i] ELSE g[i - 1] \o seqs[i])
            /\ (i # 1 => h[i - 1] = g[i - 1])
        BY <1>2, <2>2, <3>1
      <3> HIDE DEF h
      <3>3. QED
        BY <3>2
    <2>3. QED
      BY <1>2, <2>1, <2>2
  <1>7. h = [i \in 1..m |-> h[i]]
    OBVIOUS
  <1> HIDE DEF h
  <1>8. Joins(seqs, m, h)
    BY <1>6, <1>7 DEF Joins
  <1>9. QED
    BY <1>2, <1>8

LEMMA JoinsAgree ==
    ASSUME NEW S, NEW seqs, NEW others, NEW n \in Nat, NEW m \in Nat, n <= m,
           NEW g, NEW h, Joins(seqs, n, g), Joins(others, m, h),
           \A i \in 1..n : seqs[i] = others[i] /\ seqs[i] \in Seq(S)
    PROVE  \A i \in 1..n : g[i] = h[i] /\ g[i] \in Seq(S)
  <1> DEFINE Bad == {k \in 1..n : ~(g[k] = h[k] /\ g[k] \in Seq(S))}
  <1> SUFFICES ASSUME Bad # {}
               PROVE  FALSE
    OBVIOUS
  <1>1. Bad \in SUBSET Nat
    OBVIOUS
  <1> DEFINE k == Min(Bad)
  <1>2. k \in Bad /\ \A j \in Bad : k <= j
    BY <1>1, NatMin
  <1> HIDE DEF k
  <1>3. k \in 1..n /\ k \in 1..m /\ k \in Nat
    BY <1>2
  <1>4. /\ g[k] = IF k = 1 THEN seqs[k] ELSE g[k - 1] \o seqs[k]
        /\ h[k] = IF k = 1 THEN others[k] ELSE h[k - 1] \o others[k]
    BY <1>3 DEF Joins
  <1>5. k # 1 => g[k - 1] = h[k - 1] /\ g[k - 1] \in Seq(S)
    <2>1. SUFFICES ASSUME k # 1
                   PROVE  k - 1 \in 1..n /\ k - 1 \notin Bad
      OBVIOUS
    <2>2. k - 1 \in 1..n /\ ~(k <= k - 1)
      BY <1>3, <2>1
    <2>3. QED
      BY <1>2, <2>2
  <1>6. seqs[k] = others[k] /\ seqs[k] \in Seq(S)
    BY <1>3
  <1>7. g[k] = h[k] /\ g[k] \in Seq(S)
    <2>1. CASE k = 1
      BY <1>4, <1>6, <2>1
    <2>2. CASE k # 1
      <3>1. g[k - 1] \o seqs[k] \in Seq(S)
        BY <1>5, <1>6, <2>2, ConcatProperties
      <3>2. QED
        BY <1>4, <1>5, <1>6, <2>2, <3>1
    <2>3. QED
      BY <2>1, <2>2
  <1>8. QED
    BY <1>2, <1>7

LEMMA FlattenJoins ==
    ASSUME NEW S, NEW seqs \in Seq(Seq(S)), seqs # <<>>
    PROVE  \E h : Joins(seqs, Len(seqs), h) /\ FlattenSeq(seqs) = h[Len(seqs)]
  <1>1. Len(seqs) \in Nat /\ Len(seqs) # 0
    OBVIOUS
  <1>2. PICK g : Joins(seqs, Len(seqs), g)
    BY <1>1, JoinsExists
  <1> DEFINE D(h) == [i \in 1..Len(seqs) |->
                         IF i = 1 THEN seqs[i] ELSE h[i - 1] \o seqs[i]]
             f == CHOOSE h : h = D(h)
  <1>3. \E h : h = D(h)
    BY <1>2 DEF Joins
  <1>4. f = D(f)
    BY <1>3
  <1>5. FlattenSeq(seqs) = f[Len(seqs)]
    BY <1>1 DEF FlattenSeq
  <1>6. Joins(seqs, Len(seqs), f)
    BY <1>4 DEF Joins
  <1>7. QED
    BY <1>5, <1>6

LEMMA FlattenAppend ==
    ASSUME NEW S, NEW seqs \in Seq(Seq(S)), NEW s \in Seq(S)
    PROVE  /\ FlattenSeq(seqs) \in Seq(S)
           /\ FlattenSeq(Append(seqs, s)) = FlattenSeq(seqs) \o s
           /\ seqs = <<>> => FlattenSeq(seqs) = <<>>
  <1> DEFINE n == Len(seqs)
             new == Append(seqs, s)
  <1>1. /\ new \in Seq(Seq(S)) /\ new # <<>> /\ Len(new) = n + 1 /\ n \in Nat
        /\ \A i \in 1..n : new[i] = seqs[i] /\ seqs[i] \in Seq(S)
        /\ new[n + 1] = s
    BY AppendFacts
  <1> HIDE DEF new
  <1>2. PICK h : Joins(new, n + 1, h) /\ FlattenSeq(new) = h[n + 1]
    BY <1>1, FlattenJoins
  <1>3. CASE seqs = <<>>
    <2>1. FlattenSeq(seqs) = <<>> /\ n = 0
      BY <1>3 DEF FlattenSeq
    <2>2. h[1] = new[1]
      BY <1>2, <2>1 DEF Joins
    <2>3. FlattenSeq(new) = s
      BY <1>1, <1>2, <2>1, <2>2
    <2>4. <<>> \o s = s /\ <<>> \in Seq(S)
      OBVIOUS
    <2>5. QED
      BY <2>1, <2>3, <2>4 DEF new
  <1>4. CASE seqs # <<>>
    <2>1. PICK g : Joins(seqs, n, g) /\ FlattenSeq(seqs) = g[n]
      BY <1>4, FlattenJoins
    <2>2. n \in 1..n /\ n + 1 \in 1..(n + 1) /\ n + 1 # 1 /\ n <= n + 1
          /\ n + 1 - 1 = n /\ n + 1 \in Nat
      BY <1>1, <1>4
    <2>3. \A i \in 1..n : g[i] = h[i] /\ g[i] \in Seq(S)
      <3> HIDE DEF n
      <3>1. QED
        BY <1>1, <1>2, <2>1, <2>2, JoinsAgree
    <2>4. h[n + 1] = h[n] \o new[n + 1]
      <3> HIDE DEF n
      <3> DEFINE m == n + 1
      <3> HIDE DEF m
      <3>1. m \in 1..m /\ m # 1 /\ m - 1 = n
        BY <2>2 DEF m
      <3>2. Joins(new, m, h)
        BY <1>2 DEF m
      <3>3. h[m] = h[m - 1] \o new[m]
        BY <3>1, <3>2 DEF Joins
      <3>4. QED
        BY <3>1, <3>3 DEF m
    <2>5. QED
      BY <1>1, <1>2, <1>4, <2>1, <2>2, <2>3, <2>4 DEF new
  <1>5. QED
    BY <1>3, <1>4

-----------------------------------------------------------------------------
(***************************************************************************)
(* The ABI coder: what it writes, word by word.                            *)
(***************************************************************************)
LEMMA FlattenNext ==
  ASSUME NEW S, NEW seqs \in Seq(Seq(S)), NEW m \in 0..(Len(seqs) - 1)
  PROVE  /\ FlattenSeq(SubSeq(seqs, 1, m)) \in Seq(S)
         /\ FlattenSeq(SubSeq(seqs, 1, m + 1))
                = FlattenSeq(SubSeq(seqs, 1, m)) \o seqs[m + 1]
  <1>1. Len(seqs) \in Nat /\ m \in Nat /\ m + 1 \in 1..Len(seqs)
    OBVIOUS
  <1>2. seqs[m + 1] \in Seq(S)
    BY <1>1
  <1>3. /\ SubSeq(seqs, 1, m) \in Seq(Seq(S)) /\ Len(SubSeq(seqs, 1, m)) = m
        /\ \A i \in 1..m : SubSeq(seqs, 1, m)[i] = seqs[i]
    BY <1>1, SubSeqProperties
  <1>4. /\ SubSeq(seqs, 1, m + 1) \in Seq(Seq(S))
        /\ Len(SubSeq(seqs, 1, m + 1)) = m + 1
        /\ \A i \in 1..(m + 1) : SubSeq(seqs, 1, m + 1)[i] = seqs[i]
    BY <1>1, SubSeqProperties
  <1>5. SubSeq(seqs, 1, m + 1) = Append(SubSeq(seqs, 1, m), seqs[m + 1])
    <2> DEFINE a == SubSeq(seqs, 1, m)
               b == SubSeq(seqs, 1, m + 1)
               c == Append(a, seqs[m + 1])
    <2>1. /\ c \in Seq(Seq(S)) /\ Len(c) = m + 1
          /\ \A i \in 1..m : c[i] = seqs[i]
          /\ c[m + 1] = seqs[m + 1]
      BY <1>2, <1>3, AppendFacts
    <2> HIDE DEF a, b, c
    <2>2. \A i \in 1..(m + 1) : c[i] = b[i]
      BY <1>1, <1>4, <2>1 DEF b
    <2>3. c = b
      BY <1>4, <2>1, <2>2, SeqEqual DEF b
    <2>4. QED
      BY <2>3 DEF a, b, c
  <1>6. QED
    BY <1>2, <1>3, <1>5, FlattenAppend

LEMMA FlattenEmpty ==
  ASSUME NEW S, NEW seqs \in Seq(Seq(S)), NEW m \in 0..Len(seqs),
         \A i \in 1..m : seqs[i] = <<>>
  PROVE  FlattenSeq(SubSeq(seqs, 1, m)) = <<>>
  <1> DEFINE Z == {k \in 0..m : FlattenSeq(SubSeq(seqs, 1, k)) = <<>>}
  <1>1. m \in Nat /\ Len(seqs) \in Nat
    OBVIOUS
  <1>2. 0 \in Z
    <2> DEFINE s == SubSeq(seqs, 1, 0)
    <2>1. s = <<>> /\ s \in Seq(Seq(S)) /\ <<>> \in Seq(S)
      OBVIOUS
    <2> HIDE DEF s
    <2>2. FlattenSeq(s) = <<>>
      BY <2>1, FlattenAppend
    <2>3. QED
      BY <1>1, <2>2 DEF s
  <1>3. ASSUME NEW d \in 0..(m - 1), d \in Z
        PROVE  d + 1 \in Z
    <2>1. d \in 0..(Len(seqs) - 1) /\ d + 1 \in 1..m /\ d + 1 \in 0..m
      BY <1>1
    <2>2. FlattenSeq(SubSeq(seqs, 1, d + 1))
              = FlattenSeq(SubSeq(seqs, 1, d)) \o seqs[d + 1]
      BY <2>1, FlattenNext
    <2>3. FlattenSeq(SubSeq(seqs, 1, d)) = <<>> /\ seqs[d + 1] = <<>>
      BY <1>3, <2>1
    <2>4. QED
      BY <2>1, <2>2, <2>3
  <1> HIDE DEF Z
  <1>4. 0..m \subseteq Z
    BY <1>1, <1>2, <1>3, FromZero
  <1>5. m \in Z
    BY <1>1, <1>4
  <1>6. QED
    BY <1>5 DEF Z

\* The head word of a value of fixed size.
Word(type, value) ==
    CASE type = "address" -> value.address
      [] type = "bytes32" -> value.words[1]
      [] OTHER            -> value

Tails(types, values) ==
    [i \in DOMAIN types |-> IF Dynamic(types[i])
                            THEN Appended(types[i], values[i]) ELSE <<>>]

HeadWord(types, values, i) ==
    IF Dynamic(types[i])
    THEN 32 * (Len(types)
               + Len(FlattenSeq(SubSeq(Tails(types, values), 1, i - 1))))
    ELSE Word(types[i], values[i])

HeadWords(types, values) ==
    [i \in DOMAIN types |-> HeadWord(types, values, i)]

LEMMA EncodeIs ==
  ASSUME NEW types, NEW values
  PROVE  LET words == HeadWords(types, values)
                          \o FlattenSeq(Tails(types, values))
         IN  Encode(types, values) = Hex(words, 32 * Len(words), TRUE)
  <1> DEFINE head(i) == CASE Dynamic(types[i]) ->
                            32 * (Len(types) + Len(FlattenSeq(SubSeq(
                                      Tails(types, values), 1, i - 1))))
                     [] types[i] = "address" -> values[i].address
                     [] types[i] = "bytes32" -> values[i].words[1]
                     [] OTHER                -> values[i]
  <1>1. ASSUME NEW i \in DOMAIN types
        PROVE  head(i) = HeadWord(types, values, i)
    <2>1. Dynamic(types[i]) => types[i] # "address" /\ types[i] # "bytes32"
      BY DEF Dynamic
    <2>2. CASE Dynamic(types[i])
      BY <2>1, <2>2 DEF HeadWord
    <2>3. CASE ~Dynamic(types[i])
      BY <2>3 DEF HeadWord, Word
    <2>4. QED
      BY <2>2, <2>3
  <1> DEFINE heads == [i \in DOMAIN types |-> head(i)]
  <1>2. heads = HeadWords(types, values)
    BY <1>1 DEF HeadWords
  <1>3. Encode(types, values)
            = LET words == heads \o FlattenSeq(Tails(types, values))
              IN  Hex(words, 32 * Len(words), TRUE)
    BY DEF Encode, Tails
  <1> HIDE DEF heads
  <1>4. QED
    BY <1>2, <1>3

\* Two parts of a text.
LEMMA JoinIs ==
  ASSUME NEW n \in Nat, NEW f, DOMAIN f = 1..n, f = [i \in 1..n |-> f[i]],
         NEW m \in Nat, NEW g, DOMAIN g = 1..m, g = [i \in 1..m |-> g[i]]
  PROVE  f \o g = [i \in 1..(n + m) |-> IF i <= n THEN f[i] ELSE g[i - n]]
  <1> DEFINE S == {f[i] : i \in 1..n} \cup {g[i] : i \in 1..m}
             h == [i \in 1..(n + m) |-> IF i <= n THEN f[i] ELSE g[i - n]]
  <1>1. f \in Seq(S) /\ Len(f) = n
    <2>1. f \in [1..n -> S]
      OBVIOUS
    <2> HIDE DEF S
    <2>2. QED
      BY <2>1
  <1>2. g \in Seq(S) /\ Len(g) = m
    <2>1. g \in [1..m -> S]
      OBVIOUS
    <2> HIDE DEF S
    <2>2. QED
      BY <2>1
  <1> HIDE DEF S
  <1>3. /\ f \o g \in Seq(S) /\ Len(f \o g) = n + m
        /\ \A i \in 1..(n + m) :
              (f \o g)[i] = IF i <= n THEN f[i] ELSE g[i - n]
    BY <1>1, <1>2, ConcatProperties
  <1>4. f \o g = [i \in 1..(n + m) |-> (f \o g)[i]]
    BY <1>3
  <1>5. QED
    BY <1>3, <1>4

TailsIn(types, values, n, S) ==
    \A i \in 1..n : Tails(types, values)[i] \in Seq(S)

FixedUpTo(types, k) == \A i \in 1..k : ~Dynamic(types[i])

InTurn(tails, n, k, S) ==
    /\ FlattenSeq(SubSeq(tails, 1, k)) = <<>>
    /\ \A m \in 0..(n - 1) :
          /\ FlattenSeq(SubSeq(tails, 1, m)) \in Seq(S)
          /\ FlattenSeq(SubSeq(tails, 1, m + 1))
                 = FlattenSeq(SubSeq(tails, 1, m)) \o tails[m + 1]
    /\ SubSeq(tails, 1, n) = tails

\* The contents are in the order of the values; those of no dynamic value
\* are empty.
LEMMA TailsAre ==
  ASSUME NEW types, NEW n \in Nat, DOMAIN types = 1..n, NEW values, NEW S,
         TailsIn(types, values, n, S), NEW k \in 0..n, FixedUpTo(types, k)
  PROVE  InTurn(Tails(types, values), n, k, S)
  <1> DEFINE tails == Tails(types, values)
  <1>1. DOMAIN tails = 1..n
    BY DEF Tails
  <1>2. \A i \in 1..k : tails[i] = <<>>
    BY DEF Tails, FixedUpTo
  <1>3. tails = [i \in 1..n |-> tails[i]]
    BY DEF Tails
  <1> HIDE DEF tails
  <1>4. \A i \in 1..n : tails[i] \in Seq(S)
    BY DEF tails, TailsIn
  <1>5. tails \in [1..n -> Seq(S)]
    BY <1>3, <1>4
  <1>6. tails \in Seq(Seq(S)) /\ Len(tails) = n
    BY <1>5
  <1>7. FlattenSeq(SubSeq(tails, 1, k)) = <<>>
    BY <1>2, <1>6, FlattenEmpty
  <1>8. SubSeq(tails, 1, n) = tails
    BY <1>6
  <1>9. \A m \in 0..(n - 1) :
           /\ FlattenSeq(SubSeq(tails, 1, m)) \in Seq(S)
           /\ FlattenSeq(SubSeq(tails, 1, m + 1))
                  = FlattenSeq(SubSeq(tails, 1, m)) \o tails[m + 1]
    BY <1>6, FlattenNext
  <1>10. QED
    BY <1>7, <1>8, <1>9 DEF tails, InTurn

\* Values of fixed size only.
LEMMA NoTail ==
  ASSUME NEW types, NEW n \in Nat, DOMAIN types = 1..n, NEW values,
         \A i \in 1..n : ~Dynamic(types[i])
  PROVE  Encode(types, values)
             = Hex([i \in 1..n |-> Word(types[i], values[i])], 32 * n, TRUE)
  <1> DEFINE tails == Tails(types, values)
             heads == HeadWords(types, values)
             words == [i \in 1..n |-> Word(types[i], values[i])]
  <1>1. TailsIn(types, values, n, {})
    BY DEF Tails, TailsIn
  <1>2. n \in 0..n /\ FixedUpTo(types, n)
    BY DEF FixedUpTo
  <1>3. FlattenSeq(SubSeq(tails, 1, n)) = <<>> /\ SubSeq(tails, 1, n) = tails
    BY <1>1, <1>2, TailsAre DEF InTurn
  <1>4. FlattenSeq(tails) = <<>>
    BY ONLY <1>3
  <1>5. heads = words
    BY DEF HeadWords, HeadWord
  <1>6. words \o <<>> = words /\ Len(words) = n
    <2> DEFINE S == {words[i] : i \in 1..n}
    <2>1. words \in [1..n -> S]
      OBVIOUS
    <2> HIDE DEF S, words
    <2>2. words \in Seq(S) /\ Len(words) = n
      BY <2>1
    <2>3. QED
      BY <2>2, ConcatEmptySeq
  <1> HIDE DEF tails, heads, words
  <1>7. Encode(types, values) = LET w == heads \o FlattenSeq(tails)
                                IN  Hex(w, 32 * Len(w), TRUE)
    BY EncodeIs DEF tails, heads
  <1>8. QED
    BY <1>4, <1>5, <1>6, <1>7 DEF words

\* One dynamic value, the last one.
OneTailWords(types, values, n, tail) ==
    [i \in 1..(n + Len(tail)) |->
        IF i < n THEN Word(types[i], values[i])
        ELSE IF i = n THEN 32 * n ELSE tail[i - n]]

LastIsDynamic(types, n) ==
    /\ DOMAIN types = 1..n /\ Len(types) = n
    /\ \A i \in 1..(n - 1) : ~Dynamic(types[i])
    /\ Dynamic(types[n])

LEMMA OneTail ==
  ASSUME NEW types, NEW n \in Nat \ {0}, LastIsDynamic(types, n),
         NEW values, NEW S, NEW tail \in Seq(S),
         Appended(types[n], values[n]) = tail
  PROVE  Encode(types, values)
             = Hex(OneTailWords(types, values, n, tail),
                   32 * (n + Len(tail)), TRUE)
  <1> DEFINE tails == Tails(types, values)
             heads == HeadWords(types, values)
             m == Len(tail)
             words == [i \in 1..(n + m) |->
                          IF i < n THEN Word(types[i], values[i])
                          ELSE IF i = n THEN 32 * n ELSE tail[i - n]]
             joined == heads \o FlattenSeq(tails)
  <1>0. /\ DOMAIN types = 1..n /\ Len(types) = n
        /\ \A i \in 1..(n - 1) : ~Dynamic(types[i])
        /\ Dynamic(types[n])
    BY DEF LastIsDynamic
  <1>1. m \in Nat /\ DOMAIN tail = 1..m /\ tail = [i \in 1..m |-> tail[i]]
    OBVIOUS
  <1>2. tails[n] = tail /\ \A i \in 1..(n - 1) : tails[i] = <<>>
    BY <1>0 DEF Tails
  <1>3. ASSUME NEW i \in 1..n
        PROVE  tails[i] \in Seq(S)
    <2>1. CASE i = n
      BY <1>2, <2>1
    <2>2. CASE i # n
      <3>1. i \in 1..(n - 1) /\ <<>> \in Seq(S)
        BY <2>2
      <3>2. QED
        BY <1>2, <3>1
    <2>3. QED
      BY <2>1, <2>2
  <1>4. n - 1 \in 0..(n - 1) /\ n - 1 \in 0..n /\ (n - 1) + 1 = n
    OBVIOUS
  <1>5. /\ FlattenSeq(SubSeq(tails, 1, n - 1)) = <<>>
        /\ \A k \in 0..(n - 1) :
              FlattenSeq(SubSeq(tails, 1, k + 1))
                  = FlattenSeq(SubSeq(tails, 1, k)) \o tails[k + 1]
        /\ SubSeq(tails, 1, n) = tails
    <2>1. PICK j \in 0..n : j = n - 1
      BY <1>4
    <2>2. FixedUpTo(types, j) /\ TailsIn(types, values, n, S) /\ n \in Nat
      BY <1>0, <1>3, <2>1 DEF FixedUpTo, TailsIn
    <2>3. InTurn(tails, n, j, S)
      BY <1>0, <2>2, TailsAre
    <2>4. QED
      BY <2>1, <2>3 DEF InTurn
  <1>6. FlattenSeq(tails) = <<>> \o tail
    BY <1>2, <1>4, <1>5
  <1>7. FlattenSeq(tails) = tail
    BY <1>6, ConcatEmptySeq
  <1>8. ASSUME NEW i \in 1..n
        PROVE  heads[i] = IF i < n THEN Word(types[i], values[i]) ELSE 32 * n
    <2>1. CASE i < n
      BY <1>0, <2>1 DEF HeadWords, HeadWord
    <2>2. CASE i = n
      <3>1. heads[i] = 32 * (n + Len(FlattenSeq(SubSeq(tails, 1, n - 1))))
        BY <1>0, <2>2 DEF HeadWords, HeadWord
      <3>2. Len(<<>>) = 0
        OBVIOUS
      <3>3. QED
        BY <1>5, <2>2, <3>1, <3>2
    <2>3. QED
      BY <2>1, <2>2
  <1>9. DOMAIN heads = 1..n /\ heads = [i \in 1..n |-> heads[i]]
    BY <1>0 DEF HeadWords
  <1> HIDE DEF heads, tails
  <1>10. heads \o tail = [i \in 1..(n + m) |-> IF i <= n THEN heads[i]
                                               ELSE tail[i - n]]
    BY <1>1, <1>9, JoinIs
  <1>11. joined = words
    <2>1. \A i \in 1..(n + m) : (IF i <= n THEN heads[i] ELSE tail[i - n])
                                    = words[i]
      BY <1>1, <1>8
    <2>2. QED
      BY <1>7, <1>10, <2>1
  <1>12. Len(words) = n + m
    <2> DEFINE T == {words[i] : i \in 1..(n + m)}
    <2>1. words \in [1..(n + m) -> T]
      OBVIOUS
    <2> HIDE DEF T, words
    <2>2. n + m \in Nat
      BY <1>1
    <2>3. QED
      BY <2>1, <2>2
  <1> HIDE DEF words
  <1>13. Encode(types, values) = Hex(joined, 32 * Len(joined), TRUE)
    BY EncodeIs DEF tails, heads
  <1> HIDE DEF joined
  <1>14. QED
    BY <1>11, <1>12, <1>13 DEF words, OneTailWords

\* Two dynamic values, the last ones.
TwoTailWords(types, values, n, a, b) ==
    [i \in 1..(n + Len(a) + Len(b)) |->
        IF i < n - 1 THEN Word(types[i], values[i])
        ELSE IF i = n - 1 THEN 32 * n
        ELSE IF i = n THEN 32 * (n + Len(a))
        ELSE IF i <= n + Len(a) THEN a[i - n] ELSE b[i - (n + Len(a))]]

TwoTypes(types, n) ==
    /\ DOMAIN types = 1..n /\ Len(types) = n
    /\ \A i \in 1..(n - 2) : ~Dynamic(types[i])
    /\ Dynamic(types[n - 1]) /\ Dynamic(types[n])

LastTwoAre(types, values, n, a, b) ==
    /\ Appended(types[n - 1], values[n - 1]) = a
    /\ Appended(types[n], values[n]) = b

TwoTailText(types, values, n, a, b) ==
    Hex(TwoTailWords(types, values, n, a, b), 32 * (n + Len(a) + Len(b)),
        TRUE)

LEMMA TwoTails ==
  ASSUME NEW types, NEW n \in Nat, n >= 2, TwoTypes(types, n),
         NEW values, NEW S, NEW a \in Seq(S), NEW b \in Seq(S),
         LastTwoAre(types, values, n, a, b)
  PROVE  Encode(types, values) = TwoTailText(types, values, n, a, b)
  <1> DEFINE tails == Tails(types, values)
             heads == HeadWords(types, values)
             words == TwoTailWords(types, values, n, a, b)
             joined == heads \o FlattenSeq(tails)
             m == Len(a) + Len(b)
  <1>0. /\ DOMAIN types = 1..n /\ Len(types) = n
        /\ \A i \in 1..(n - 2) : ~Dynamic(types[i])
        /\ Dynamic(types[n - 1]) /\ Dynamic(types[n])
        /\ Appended(types[n - 1], values[n - 1]) = a
        /\ Appended(types[n], values[n]) = b
    BY DEF TwoTypes, LastTwoAre
  <1>1. Len(a) \in Nat /\ Len(b) \in Nat /\ m \in Nat
    OBVIOUS
  <1>2. /\ a \o b \in Seq(S) /\ Len(a \o b) = m
        /\ \A i \in 1..m : (a \o b)[i] = IF i <= Len(a) THEN a[i]
                                         ELSE b[i - Len(a)]
    BY ConcatProperties
  <1>3. n \in 1..n /\ n - 1 \in 1..n /\ n # n - 1
    OBVIOUS
  <1>4. tails[n - 1] = a /\ tails[n] = b
    BY <1>0, <1>3 DEF Tails
  <1>5. ASSUME NEW i \in 1..n
        PROVE  tails[i] \in Seq(S)
    <2>1. CASE i >= n - 1
      BY <1>4, <2>1
    <2>2. CASE i < n - 1
      <3>1. tails[i] = <<>>
        BY <1>0, <2>2 DEF Tails
      <3>2. QED
        BY <3>1
    <2>3. QED
      BY <2>1, <2>2
  <1>6. PICK j \in 0..n : j = n - 2
    OBVIOUS
  <1>7. FixedUpTo(types, j) /\ TailsIn(types, values, n, S)
    BY <1>0, <1>5, <1>6 DEF FixedUpTo, TailsIn
  <1>8. InTurn(tails, n, j, S)
    BY <1>0, <1>7, TailsAre
  <1>9. /\ FlattenSeq(SubSeq(tails, 1, n - 2)) = <<>>
        /\ FlattenSeq(SubSeq(tails, 1, n - 1)) = a
        /\ FlattenSeq(tails) = a \o b
    <2> HIDE DEF tails
    <2>1. /\ FlattenSeq(SubSeq(tails, 1, j)) = <<>>
          /\ FlattenSeq(SubSeq(tails, 1, j + 1))
                 = FlattenSeq(SubSeq(tails, 1, j)) \o tails[j + 1]
          /\ FlattenSeq(SubSeq(tails, 1, (j + 1) + 1))
                 = FlattenSeq(SubSeq(tails, 1, j + 1)) \o tails[(j + 1) + 1]
          /\ SubSeq(tails, 1, n) = tails
      <3>1. j \in 0..(n - 1) /\ j + 1 \in 0..(n - 1)
        BY <1>6
      <3>2. QED
        BY ONLY <1>8, <3>1 DEF InTurn
    <2>2. j + 1 = n - 1 /\ (j + 1) + 1 = n
      BY <1>6
    <2>3. <<>> \o a = a
      BY ConcatEmptySeq
    <2>4. QED
      BY <1>4, <1>6, <2>1, <2>2, <2>3
  <1>10. ASSUME NEW i \in 1..n
         PROVE  heads[i] = IF i < n - 1 THEN Word(types[i], values[i])
                           ELSE IF i = n - 1 THEN 32 * n
                           ELSE 32 * (n + Len(a))
    <2>1. CASE i < n - 1
      BY <1>0, <2>1 DEF HeadWords, HeadWord
    <2>2. CASE i = n - 1
      <3>1. heads[i] = 32 * (n + Len(FlattenSeq(SubSeq(tails, 1, i - 1))))
        BY <1>0, <2>2 DEF HeadWords, HeadWord
      <3>2. i - 1 = n - 2 /\ Len(<<>>) = 0
        BY <2>2
      <3>3. FlattenSeq(SubSeq(tails, 1, i - 1)) = <<>>
        BY ONLY <1>9, <3>2
      <3> HIDE DEF tails
      <3>4. heads[i] = 32 * (n + 0)
        BY ONLY <3>1, <3>2, <3>3
      <3>5. QED
        BY <2>2, <3>4
    <2>3. CASE i = n
      <3>1. heads[i] = 32 * (n + Len(FlattenSeq(SubSeq(tails, 1, i - 1))))
        BY <1>0, <2>3 DEF HeadWords, HeadWord
      <3>2. SubSeq(tails, 1, i - 1) = SubSeq(tails, 1, n - 1)
        BY ONLY <2>3
      <3>3. FlattenSeq(SubSeq(tails, 1, i - 1)) = a
        BY ONLY <1>9, <3>2
      <3> HIDE DEF tails
      <3>4. heads[i] = 32 * (n + Len(a))
        BY ONLY <3>1, <3>3
      <3>5. QED
        BY <2>3, <3>4
    <2>4. QED
      BY <2>1, <2>2, <2>3
  <1>11. DOMAIN heads = 1..n /\ heads = [i \in 1..n |-> heads[i]]
    BY <1>0 DEF HeadWords
  <1> HIDE DEF heads, tails
  <1>12. /\ DOMAIN (a \o b) = 1..m
         /\ a \o b = [i \in 1..m |-> (a \o b)[i]]
    <2> DEFINE ab == a \o b
    <2>1. ab \in Seq(S) /\ Len(ab) = m
      BY <1>2
    <2> HIDE DEF ab, m
    <2>2. DOMAIN ab = 1..m /\ ab = [i \in 1..m |-> ab[i]]
      BY <2>1
    <2>3. QED
      BY <2>2 DEF ab
  <1>13. heads \o (a \o b) = [i \in 1..(n + m) |->
                                 IF i <= n THEN heads[i] ELSE (a \o b)[i - n]]
    <2> DEFINE ab == a \o b
    <2> HIDE DEF ab, m
    <2>1. ab = [i \in 1..m |-> ab[i]] /\ DOMAIN ab = 1..m /\ m \in Nat
      BY <1>1, <1>12 DEF ab
    <2>2. heads \o ab = [i \in 1..(n + m) |->
                            IF i <= n THEN heads[i] ELSE ab[i - n]]
      BY <1>11, <2>1, JoinIs
    <2>3. QED
      BY <2>2 DEF ab
  <1>14. n + m = n + Len(a) + Len(b)
    BY <1>1
  <1>15. joined = words
    <2>1. ASSUME NEW i \in 1..(n + m)
          PROVE  (IF i <= n THEN heads[i] ELSE (a \o b)[i - n]) = words[i]
      <3>1. words[i] = IF i < n - 1 THEN Word(types[i], values[i])
                       ELSE IF i = n - 1 THEN 32 * n
                       ELSE IF i = n THEN 32 * (n + Len(a))
                       ELSE IF i <= n + Len(a) THEN a[i - n]
                       ELSE b[i - (n + Len(a))]
        BY <1>14 DEF TwoTailWords
      <3>2. CASE i <= n
        BY <1>10, <3>1, <3>2
      <3>3. CASE i > n
        <4>1. PICK k \in 1..m : k = i - n
          BY <1>1, <3>3
        <4>2. (a \o b)[k] = IF k <= Len(a) THEN a[k] ELSE b[k - Len(a)]
          BY <1>2
        <4>3. (k <= Len(a) <=> i <= n + Len(a))
              /\ k - Len(a) = i - (n + Len(a))
          BY <1>1, <4>1
        <4>4. ~(i <= n) /\ ~(i < n - 1) /\ i # n - 1 /\ i # n
          BY <3>3
        <4>5. QED
          BY <3>1, <4>1, <4>2, <4>3, <4>4
      <3>4. QED
        BY <1>1, <3>2, <3>3
    <2>2. DOMAIN words = 1..(n + m)
          /\ words = [i \in 1..(n + m) |-> words[i]]
      BY <1>14 DEF TwoTailWords
    <2>3. joined = [i \in 1..(n + m) |->
                       IF i <= n THEN heads[i] ELSE (a \o b)[i - n]]
      BY <1>9, <1>13
    <2> HIDE DEF words, joined
    <2>4. QED
      BY <2>1, <2>2, <2>3
  <1>16. Len(words) = n + m
    <2> DEFINE T == {words[i] : i \in 1..(n + m)}
    <2>1. words \in [1..(n + m) -> T]
      BY <1>14 DEF TwoTailWords
    <2> HIDE DEF T, words
    <2>2. n + m \in Nat
      BY <1>1
    <2>3. QED
      BY <2>1, <2>2
  <1> HIDE DEF words
  <1>17. Encode(types, values) = Hex(joined, 32 * Len(joined), TRUE)
    BY EncodeIs DEF tails, heads
  <1> HIDE DEF joined, m
  <1>18. QED
    BY <1>14, <1>15, <1>16, <1>17 DEF words, TwoTailText

\* A text of n words, and k of them after the a-th.
TextOf(w, n) == DOMAIN w = 1..n /\ w = [i \in 1..n |-> w[i]]

Slice(w, a, k) == [i \in 1..k |-> w[a + i]]

LEMMA SliceIs ==
  ASSUME NEW n \in Nat, NEW w, TextOf(w, n),
         NEW a \in Nat, NEW k \in Nat \ {0}, a + k <= n
  PROVE  SubSeq(w, a + 1, a + k) = Slice(w, a, k)
  <1> DEFINE T == {w[i] : i \in 1..n}
             s == SubSeq(w, a + 1, a + k)
  <1>1. \A i \in (a + 1)..(a + k) : w[i] \in T
    OBVIOUS
  <1>2. /\ a + 1 \in Int /\ a + k \in Int /\ a + 1 <= a + k
        /\ (a + k) - (a + 1) + 1 = k
    OBVIOUS
  <1> HIDE DEF T
  <1>3. /\ s \in Seq(T) /\ Len(s) = k
        /\ \A i \in 1..k : s[i] = w[(a + 1) + i - 1]
    <2>1. PICK p, q \in Int : p = a + 1 /\ q = a + k
      BY <1>2
    <2>2. /\ p <= q /\ q - p + 1 = k /\ \A i \in p..q : w[i] \in T
      BY <1>1, <1>2, <2>1
    <2>3. /\ SubSeq(w, p, q) \in Seq(T)
          /\ Len(SubSeq(w, p, q)) = q - p + 1
          /\ \A i \in 1..(q - p + 1) : SubSeq(w, p, q)[i] = w[p + i - 1]
      BY ONLY p \in Int, q \in Int, <2>2, SubSeqProperties
    <2>4. QED
      BY ONLY <2>1, <2>2, <2>3
  <1> HIDE DEF s
  <1>4. \A i \in 1..k : (a + 1) + i - 1 = a + i
    OBVIOUS
  <1>5. s = [i \in 1..k |-> s[i]]
    BY <1>3
  <1>6. s = Slice(w, a, k)
    BY <1>3, <1>4, <1>5 DEF Slice
  <1>7. QED
    BY <1>6 DEF s

\* k words of the text w of n words follow the place at, which holds their
\* number of bytes b.
BytesAt(w, n, at, k, b) ==
    /\ TextOf(w, n)
    /\ n \in Nat /\ at \in Nat \ {0} /\ k \in Nat \ {0} /\ at + k <= n
    /\ b \in Nat /\ b <= 32 * n /\ w[at] = b /\ (b + 31) \div 32 = k

LEMMA BytesRead ==
  ASSUME NEW w, NEW n, NEW at, NEW k, NEW b, BytesAt(w, n, at, k, b), NEW o,
         o = 32 * (at - 1)
  PROVE  /\ Contents("bytes", w, o) = Hex(Slice(w, at, k), b, TRUE)
         /\ Readable("bytes", w, o)
  <1>1. /\ TextOf(w, n)
        /\ n \in Nat /\ at \in Nat \ {0} /\ k \in Nat \ {0} /\ at + k <= n
        /\ b \in Nat /\ b <= 32 * n /\ w[at] = b /\ (b + 31) \div 32 = k
    BY DEF BytesAt
  <1>2. /\ LengthAt(o) = at /\ o % 32 = 0 /\ o \in 0..(32 * n)
        /\ at \in 1..n
    BY <1>1 DEF LengthAt
  <1>3. Units("bytes", b) = k
    BY <1>1 DEF Units
  <1>4. Contents("bytes", w, o)
            = Hex(SubSeq(w, LengthAt(o) + 1,
                         LengthAt(o) + Units("bytes", w[LengthAt(o)])),
                  w[LengthAt(o)], TRUE)
    BY <1>2 DEF Contents
  <1>5. Contents("bytes", w, o) = Hex(SubSeq(w, at + 1, at + k), b, TRUE)
    BY ONLY <1>1, <1>2, <1>3, <1>4
  <1>6. SubSeq(w, at + 1, at + k) = Slice(w, at, k)
    BY <1>1, SliceIs
  <1>7. Len(w) = n /\ DOMAIN w = 1..n
    <2> DEFINE T == {w[i] : i \in 1..n}
    <2>1. w \in [1..n -> T]
      BY <1>1 DEF TextOf
    <2> HIDE DEF T
    <2>2. QED
      BY <1>1, <2>1
  <1>8. Readable("bytes", w, o)
    <2>1. /\ o \in 0..(32 * Len(w)) /\ LengthAt(o) \in DOMAIN w
          /\ w[LengthAt(o)] \in 0..(32 * Len(w))
      BY <1>1, <1>2, <1>7
    <2>2. LengthAt(o) + Units("bytes", w[LengthAt(o)]) <= Len(w)
      BY <1>1, <1>2, <1>3, <1>7
    <2>3. o % 32 = 0
      BY <1>2
    <2>4. QED
      BY ONLY <2>1, <2>2, <2>3 DEF Readable
  <1>9. QED
    BY <1>5, <1>6, <1>8

-----------------------------------------------------------------------------
(***************************************************************************)
(* A signed format: values of fixed size, then the signature.              *)
(***************************************************************************)
SignatureTail ==
    <<65, SignatureWords[1], SignatureWords[2], SignatureWords[3]>>

SignedWords(types, values, n) ==
    [i \in 1..(n + 4) |-> IF i < n THEN Word(types[i], values[i])
                          ELSE IF i = n THEN 32 * n ELSE SignatureTail[i - n]]

SignedTypes(types, n) ==
    /\ DOMAIN types = 1..n /\ Len(types) = n
    /\ \A i \in 1..(n - 1) : ~Dynamic(types[i])
    /\ types[n] = "bytes"

LEMMA HashText ==
  ASSUME NEW w
  PROVE  /\ Remove0x(Add0x(Hash(w))) = Hash(w)
         /\ Add0x(Hash(w)).prefixed /\ Add0x(Hash(w)).words[1] = w
         /\ ~Hash(w).prefixed /\ Hash(w).words[1] = w
         /\ Add0x(Add0x(Hash(w))) = Add0x(Hash(w))
  <1> DEFINE h == Hash(w)
             a == Add0x(h)
  <1>1. h \in [words : {<<w>>}, bytes : {32}, prefixed : BOOLEAN]
        /\ h = Hex(<<w>>, 32, FALSE) /\ ~h.prefixed /\ h.words[1] = w
    BY DEF Hash, Hex
  <1> HIDE DEF h
  <1>2. /\ a \in [words : {<<w>>}, bytes : {32}, prefixed : BOOLEAN]
        /\ a.words = h.words /\ a.bytes = h.bytes /\ a.prefixed
    BY <1>1 DEF Add0x
  <1> HIDE DEF a
  <1>3. Remove0x(a) = h
    BY <1>1, <1>2 DEF Remove0x
  <1>4. Add0x(a) = a
    BY <1>1, <1>2 DEF Add0x
  <1>5. a.words[1] = w
    BY <1>1, <1>2
  <1>6. QED
    BY <1>1, <1>2, <1>3, <1>4, <1>5 DEF a, h

LEMMA SignatureIs ==
  /\ Signature.words = SignatureWords /\ Signature.bytes = 65
  /\ Add0x(Signature) = Signature
  /\ Len(SignatureTail) = 4 /\ DOMAIN SignatureTail = 1..4
  /\ SignatureTail[1] = 65
  /\ \A i \in 1..3 : SignatureTail[i + 1] = SignatureWords[i]
  /\ Appended("bytes", Signature) = SignatureTail
  /\ DOMAIN SignatureWords = 1..3 /\ Len(SignatureWords) = 3
  <1> DEFINE x == SignatureWords[1]
             y == SignatureWords[2]
             z == SignatureWords[3]
  <1>1. SignatureWords = <<x, y, z>>
    BY CodecAssumption
  <1>2. SignatureTail = <<65, x, y, z>>
    BY DEF SignatureTail
  <1>3. <<65>> \o SignatureWords = SignatureTail
    <2> HIDE DEF x, y, z
    <2> DEFINE S == {65, x, y, z}
               a == <<65>>
               b == <<x, y, z>>
               c == <<65, x, y, z>>
    <2>1. /\ a \in Seq(S) /\ Len(a) = 1 /\ a[1] = 65
          /\ b \in Seq(S) /\ Len(b) = 3 /\ b[1] = x /\ b[2] = y /\ b[3] = z
          /\ c \in Seq(S) /\ Len(c) = 4 /\ c[1] = 65 /\ c[2] = x /\ c[3] = y
          /\ c[4] = z
      OBVIOUS
    <2> HIDE DEF S, a, b, c
    <2>2. /\ a \o b \in Seq(S) /\ Len(a \o b) = 4
          /\ \A i \in 1..4 :
                (a \o b)[i] = IF i <= 1 THEN a[i] ELSE b[i - 1]
      <3>1. /\ a \o b \in Seq(S) /\ Len(a \o b) = Len(a) + Len(b)
            /\ \A i \in 1..(Len(a) + Len(b)) :
                  (a \o b)[i] = IF i <= Len(a) THEN a[i] ELSE b[i - Len(a)]
        <4>1. a \in Seq(S) /\ b \in Seq(S)
          BY <2>1
        <4>2. QED
          BY ONLY <4>1, ConcatProperties
      <3>2. Len(a) = 1 /\ Len(b) = 3 /\ Len(a) + Len(b) = 4
        BY <2>1
      <3>3. QED
        BY ONLY <3>1, <3>2
    <2>3. \A i \in 1..4 : (a \o b)[i] = c[i]
      <3>1. 2 - 1 = 1 /\ 3 - 1 = 2 /\ 4 - 1 = 3
        OBVIOUS
      <3>2. QED
        BY <2>1, <2>2, <3>1
    <2>4. a \o b = c
      BY SMTT(30), <2>1, <2>2, <2>3, SeqEqual
    <2>5. QED
      BY <1>1, <1>2, <2>4 DEF a, b, c
  <1> HIDE DEF x, y, z
  <1>4. /\ DOMAIN SignatureWords = 1..3 /\ Len(SignatureWords) = 3
        /\ SignatureWords[1] = x /\ SignatureWords[2] = y
        /\ SignatureWords[3] = z
    BY <1>1
  <1>5. /\ Len(SignatureTail) = 4 /\ DOMAIN SignatureTail = 1..4
        /\ SignatureTail[1] = 65
        /\ SignatureTail[2] = x /\ SignatureTail[3] = y
        /\ SignatureTail[4] = z
    BY <1>2
  <1>6. \A i \in 1..3 : SignatureTail[i + 1] = SignatureWords[i]
    BY <1>4, <1>5
  <1>7. /\ Signature.words = SignatureWords /\ Signature.bytes = 65
        /\ Add0x(Signature) = Signature
    <2> DEFINE s == Signature
    <2>1. /\ s \in [words : {SignatureWords}, bytes : {65}, prefixed : BOOLEAN]
          /\ s.words = SignatureWords /\ s.bytes = 65 /\ s.prefixed
      BY DEF Signature, Hex
    <2> HIDE DEF s
    <2>2. Add0x(s) = s
      BY <2>1 DEF Add0x
    <2>3. QED
      BY <2>1, <2>2 DEF s
  <1>8. Appended("bytes", Signature) = SignatureTail
    BY <1>3, <1>7 DEF Appended
  <1>9. QED
    BY <1>4, <1>5, <1>6, <1>7, <1>8

LEMMA SignedForm ==
  ASSUME NEW n \in Nat \ {0}, NEW types, SignedTypes(types, n),
         NEW values, values[n] = Signature, NEW size, size = 32 * (n + 4)
  PROVE  Encode(types, values)
             = Hex(SignedWords(types, values, n), size, TRUE)
  <1> DEFINE tail == SignatureTail
             S == {tail[i] : i \in 1..4}
  <1>1. tail \in Seq(S) /\ Len(tail) = 4
    BY SignatureIs DEF SignatureTail
  <1>2. Appended(types[n], values[n]) = tail /\ Dynamic(types[n])
    BY SignatureIs DEF SignedTypes, Dynamic
  <1>3. LastIsDynamic(types, n)
    BY DEF SignedTypes, LastIsDynamic, Dynamic
  <1> HIDE DEF S, tail
  <1>4. Encode(types, values)
             = Hex(OneTailWords(types, values, n, tail),
                   32 * (n + Len(tail)), TRUE)
    BY ONLY n \in Nat \ {0}, <1>1, <1>2, <1>3, OneTail
  <1>5. OneTailWords(types, values, n, tail) = SignedWords(types, values, n)
    BY SMTT(30), <1>1 DEF SignedWords, tail, OneTailWords
  <1>6. QED
    BY <1>1, <1>4, <1>5

\* What a value of fixed size is read as.
Read(type, word) ==
    CASE type = "address" -> Address(word, TRUE)
      [] type = "bytes32" -> Add0x(Hash(word))
      [] OTHER            -> word

LEMMA SignedRead ==
  ASSUME NEW n \in Nat \ {0}, NEW types, SignedTypes(types, n), NEW values,
         NEW data, data.words = SignedWords(types, values, n)
  PROVE  /\ Decodable(types, data)
         /\ Decode(types, data)[n] = Signature
         /\ \A i \in 1..n : i # n =>
               Decode(types, data)[i]
                   = Read(types[i], Word(types[i], values[i]))
  <1> DEFINE w == data.words
  <1>1. /\ DOMAIN w = 1..(n + 4) /\ Len(w) = n + 4
        /\ w = [i \in 1..(n + 4) |-> w[i]]
    <2> DEFINE T == {w[i] : i \in 1..(n + 4)}
    <2>1. w \in [1..(n + 4) -> T]
      BY DEF SignedWords
    <2> HIDE DEF T, w
    <2>2. n + 4 \in Nat
      OBVIOUS
    <2>3. QED
      BY <2>1, <2>2
  <1>2. /\ \A i \in 1..(n - 1) : w[i] = Word(types[i], values[i])
        /\ w[n] = 32 * n
        /\ \A i \in 1..4 : w[n + i] = SignatureTail[i]
    BY DEF SignedWords
  <1> HIDE DEF w
  <1>3. /\ w[n + 1] = 65 /\ \A i \in 1..3 : w[(n + 1) + i] = SignatureWords[i]
    <2>1. w[n + 1] = 65
      BY <1>2, SignatureIs
    <2>2. ASSUME NEW i \in 1..3
          PROVE  w[(n + 1) + i] = SignatureWords[i]
      <3>1. i + 1 \in 1..4 /\ (n + 1) + i = n + (i + 1)
        OBVIOUS
      <3>2. w[n + (i + 1)] = SignatureTail[i + 1]
        BY <1>2, <3>1
      <3>3. QED
        BY <3>1, <3>2, SignatureIs
    <2>3. QED
      BY <2>1, <2>2
  <1>4. PICK at \in Nat \ {0} : at = n + 1
    OBVIOUS
  <1>5. PICK o \in Nat : o = 32 * n /\ o = 32 * (at - 1)
    BY <1>4
  <1>6. /\ Contents("bytes", w, o) = Hex(Slice(w, at, 3), 65, TRUE)
        /\ Readable("bytes", w, o)
    <2>1. PICK m \in Nat : m = n + 4
      OBVIOUS
    <2>2. BytesAt(w, m, at, 3, 65)
      BY <1>1, <1>3, <1>4, <2>1 DEF BytesAt, TextOf
    <2>3. QED
      BY ONLY <1>5, <2>2, BytesRead
  <1>7. Contents("bytes", w, 32 * n) = Signature /\ Readable("bytes", w, 32 * n)
    <2>1. \A i \in 1..3 : w[at + i] = SignatureWords[i]
      BY <1>3, <1>4
    <2>2. SignatureWords = [i \in 1..3 |-> SignatureWords[i]]
      BY CodecAssumption
    <2>3. Slice(w, at, 3) = SignatureWords
      BY <2>1, <2>2 DEF Slice
    <2>4. QED
      BY ONLY <1>5, <1>6, <2>3 DEF Signature
  <1>8. /\ DOMAIN types = 1..n /\ Len(types) = n /\ types[n] = "bytes"
        /\ \A i \in 1..(n - 1) : ~Dynamic(types[i])
    BY DEF SignedTypes
  <1>9. Decodable(types, data)
    <2>1. ASSUME NEW i \in DOMAIN types, Dynamic(types[i])
          PROVE  Readable(types[i], w, w[i])
      <3>1. i = n
        BY <1>8, <2>1
      <3>2. QED
        BY <1>2, <1>7, <1>8, <3>1
    <2>2. Len(types) <= Len(w)
      BY <1>1, <1>8
    <2>3. QED
      BY <2>1, <2>2 DEF Decodable, w
  <1>10. Decode(types, data)[n] = Signature
    <2>1. n \in DOMAIN types /\ Dynamic(types[n])
      BY <1>8 DEF Dynamic
    <2>2. Decode(types, data)[n] = Contents(types[n], w, w[n])
      BY <2>1 DEF Decode, w, Dynamic
    <2>3. QED
      BY <1>2, <1>7, <1>8, <2>2
  <1>11. ASSUME NEW i \in 1..(n - 1)
         PROVE  Decode(types, data)[i]
                    = Read(types[i], Word(types[i], values[i]))
    <2>1. i \in DOMAIN types /\ ~Dynamic(types[i])
      BY <1>8
    <2>2. Decode(types, data)[i] = Read(types[i], w[i])
      BY <2>1 DEF Decode, w, Read
    <2>3. QED
      BY <1>2, <2>2
  <1>12. \A i \in 1..n : i # n => i \in 1..(n - 1)
    OBVIOUS
  <1>13. QED
    BY <1>9, <1>10, <1>11, <1>12

-----------------------------------------------------------------------------
(***************************************************************************)
(* The formats.                                                            *)
(***************************************************************************)
LEMMA SwapTransitionTypesAre ==
  /\ SignedTypes(SwapTransitionTypes, 8)
  /\ SwapTransitionTypes[1] = "bytes32" /\ SwapTransitionTypes[2] = "uint32"
  /\ SwapTransitionTypes[3] = "uint32" /\ SwapTransitionTypes[4] = "uint"
  /\ SwapTransitionTypes[5] = "uint32" /\ SwapTransitionTypes[6] = "uint32"
  /\ SwapTransitionTypes[7] = "uint" /\ SwapTransitionTypes[8] = "bytes"
  <1> DEFINE T == SwapTransitionTypes
  <1>1. /\ DOMAIN T = 1..8 /\ Len(T) = 8
        /\ T[1] = "bytes32" /\ T[2] = "uint32" /\ T[3] = "uint32"
        /\ T[4] = "uint" /\ T[5] = "uint32" /\ T[6] = "uint32"
        /\ T[7] = "uint" /\ T[8] = "bytes"
    BY DEF SwapTransitionTypes
  <1> HIDE DEF T
  <1>2. \A i \in 1..(8 - 1) : ~Dynamic(T[i])
    BY <1>1 DEF Dynamic
  <1>3. QED
    BY <1>1, <1>2 DEF T, SignedTypes

LEMMA TransferTransitionTypesAre ==
  /\ SignedTypes(TransferTransitionTypes, 6)
  /\ TransferTransitionTypes[1] = "bytes32"
  /\ TransferTransitionTypes[2] = "uint32"
  /\ TransferTransitionTypes[3] = "uint32"
  /\ TransferTransitionTypes[4] = "uint"
  /\ TransferTransitionTypes[5] = "uint32"
  /\ TransferTransitionTypes[6] = "bytes"
  <1> DEFINE T == TransferTransitionTypes
  <1>1. /\ DOMAIN T = 1..6 /\ Len(T) = 6
        /\ T[1] = "bytes32" /\ T[2] = "uint32" /\ T[3] = "uint32"
        /\ T[4] = "uint" /\ T[5] = "uint32" /\ T[6] = "bytes"
    BY DEF TransferTransitionTypes
  <1> HIDE DEF T
  <1>2. \A i \in 1..(6 - 1) : ~Dynamic(T[i])
    BY <1>1 DEF Dynamic
  <1>3. QED
    BY <1>1, <1>2 DEF T, SignedTypes

LEMMA CreateTransitionTypesAre ==
  /\ SignedTypes(CreateAndTransferTransitionTypes, 7)
  /\ CreateAndTransferTransitionTypes[1] = "bytes32"
  /\ CreateAndTransferTransitionTypes[2] = "uint32"
  /\ CreateAndTransferTransitionTypes[3] = "uint32"
  /\ CreateAndTransferTransitionTypes[4] = "address"
  /\ CreateAndTransferTransitionTypes[5] = "uint"
  /\ CreateAndTransferTransitionTypes[6] = "uint32"
  /\ CreateAndTransferTransitionTypes[7] = "bytes"
  <1> DEFINE T == CreateAndTransferTransitionTypes
  <1>1. /\ DOMAIN T = 1..7 /\ Len(T) = 7
        /\ T[1] = "bytes32" /\ T[2] = "uint32" /\ T[3] = "uint32"
        /\ T[4] = "address" /\ T[5] = "uint" /\ T[6] = "uint32"
        /\ T[7] = "bytes"
    BY DEF CreateAndTransferTransitionTypes
  <1> HIDE DEF T
  <1>2. \A i \in 1..(7 - 1) : ~Dynamic(T[i])
    BY <1>1 DEF Dynamic
  <1>3. QED
    BY <1>1, <1>2 DEF T, SignedTypes

LEMMA ReadWord ==
  ASSUME NEW x
  PROVE  /\ Read("uint32", Word("uint32", x)) = x
         /\ Read("uint", Word("uint", x)) = x
         /\ Read("address", Word("address", x)) = Address(x.address, TRUE)
         /\ Read("bytes32", Word("bytes32", Add0x(Hash(x)))) = Add0x(Hash(x))
  <1>1. Read("uint32", Word("uint32", x)) = x /\ Read("uint", Word("uint", x)) = x
    BY DEF Read, Word
  <1>2. Read("address", Word("address", x)) = Address(x.address, TRUE)
    BY DEF Read, Word
  <1>3. Word("bytes32", Add0x(Hash(x))) = x
    BY HashText DEF Word
  <1>4. Read("bytes32", x) = Add0x(Hash(x))
    BY DEF Read
  <1>5. QED
    BY <1>1, <1>2, <1>3, <1>4

-----------------------------------------------------------------------------
(***************************************************************************)
(* The three kinds of transitions and what is written of them.             *)
(***************************************************************************)
TextWritten(words, bytes) == Hex(words, bytes, TRUE)

WithChecksum(word) == Address(word, TRUE)

SwapRecord(f, k, a, m, x) ==
    [stateRoot |-> Hash(Root), senderSlotIndex |-> f, uniswapSlotIndex |-> 0,
     tokenType |-> k, inputAmount |-> a, minOutputAmount |-> m,
     timeout |-> x, signature |-> Signature]

TransferRecord(f, t, k, a) ==
    [stateRoot |-> Hash(Root), senderSlotIndex |-> f,
     recipientSlotIndex |-> t, tokenType |-> k, amount |-> a,
     signature |-> Signature]

CreateRecord(f, t, c, k, a) ==
    [stateRoot |-> Hash(Root), senderSlotIndex |-> f,
     recipientSlotIndex |-> t, createdAccountPubkey |-> c, tokenType |-> k,
     amount |-> a, signature |-> Signature]

SwapValues(f, k, a, m, x) ==
    <<Add0x(Hash(Root)), f, 0, k, a, m, x, Signature>>

TransferValues(f, t, k, a) == <<Add0x(Hash(Root)), f, t, k, a, Signature>>

CreateValues(f, t, c, k, a) ==
    <<Add0x(Hash(Root)), f, t, c, k, a, Signature>>

LEMMA SwapWritten ==
  ASSUME NEW f, NEW k, NEW a, NEW m, NEW x
  PROVE  Encoded(TransitionForm(SwapRecord(f, k, a, m, x)))
             = TextWritten(SignedWords(SwapTransitionTypes,
                               SwapValues(f, k, a, m, x), 8), 384)
  <1> DEFINE t == SwapRecord(f, k, a, m, x)
             V == SwapValues(f, k, a, m, x)
             T == SwapTransitionTypes
  <1>1. IsSwapTransition(t)
    BY DEF IsSwapTransition, SwapRecord
  <1>2. /\ t.stateRoot = Hash(Root) /\ t.senderSlotIndex = f
        /\ t.uniswapSlotIndex = 0 /\ t.tokenType = k /\ t.inputAmount = a
        /\ t.minOutputAmount = m /\ t.timeout = x /\ t.signature = Signature
    BY DEF SwapRecord
  <1>3. V[8] = Signature
    BY DEF SwapValues
  <1> HIDE DEF t
  <1>4. SwapTransitionForm(t) = [types |-> T, values |-> V]
    BY <1>2, SignatureIs DEF SwapTransitionForm, SwapValues
  <1>5. TransitionForm(t) = [types |-> T, values |-> V]
    BY <1>1, <1>4 DEF TransitionForm
  <1> HIDE DEF T, V
  <1>6. Encoded(TransitionForm(t)) = Encode(T, V)
    BY <1>5 DEF Encoded
  <1>7. Encode(T, V) = Hex(SignedWords(T, V, 8), 384, TRUE)
    <2>1. SignedTypes(T, 8) /\ 384 = 32 * (8 + 4)
      BY SwapTransitionTypesAre DEF T
    <2>2. PICK n \in Nat \ {0} : n = 8
      OBVIOUS
    <2>3. PICK size : size = 384
      OBVIOUS
    <2>4. Encode(T, V) = Hex(SignedWords(T, V, n), size, TRUE)
      <3>1. SignedTypes(T, n) /\ V[n] = Signature /\ size = 32 * (n + 4)
        BY <1>3, <2>1, <2>2, <2>3
      <3>2. QED
        BY ONLY n \in Nat \ {0}, <3>1, SignedForm
    <2>5. QED
      BY <2>2, <2>3, <2>4
  <1>8. QED
    BY <1>6, <1>7 DEF t, T, V, TextWritten, TextWritten, TextWritten

LEMMA TransferWritten ==
  ASSUME NEW f, NEW r, NEW k, NEW a
  PROVE  Encoded(TransitionForm(TransferRecord(f, r, k, a)))
             = TextWritten(SignedWords(TransferTransitionTypes,
                               TransferValues(f, r, k, a), 6), 320)
  <1> DEFINE t == TransferRecord(f, r, k, a)
             V == TransferValues(f, r, k, a)
             T == TransferTransitionTypes
  <1>1. ~IsSwapTransition(t) /\ ~IsCreateAndTransferTransition(t)
    BY DEF IsSwapTransition, IsCreateAndTransferTransition, TransferRecord
  <1>2. /\ t.stateRoot = Hash(Root) /\ t.senderSlotIndex = f
        /\ t.recipientSlotIndex = r /\ t.tokenType = k /\ t.amount = a
        /\ t.signature = Signature
    BY DEF TransferRecord
  <1>3. V[6] = Signature
    BY DEF TransferValues
  <1> HIDE DEF t
  <1>4. TransferTransitionForm(t) = [types |-> T, values |-> V]
    BY <1>2, SignatureIs DEF TransferTransitionForm, TransferValues
  <1>5. TransitionForm(t) = [types |-> T, values |-> V]
    BY <1>1, <1>4 DEF TransitionForm
  <1> HIDE DEF T, V
  <1>6. Encoded(TransitionForm(t)) = Encode(T, V)
    BY <1>5 DEF Encoded
  <1>7. Encode(T, V) = Hex(SignedWords(T, V, 6), 320, TRUE)
    <2>1. SignedTypes(T, 6) /\ 320 = 32 * (6 + 4)
      BY TransferTransitionTypesAre DEF T
    <2>2. PICK n \in Nat \ {0} : n = 6
      OBVIOUS
    <2>3. PICK size : size = 320
      OBVIOUS
    <2>4. Encode(T, V) = Hex(SignedWords(T, V, n), size, TRUE)
      <3>1. SignedTypes(T, n) /\ V[n] = Signature /\ size = 32 * (n + 4)
        BY <1>3, <2>1, <2>2, <2>3
      <3>2. QED
        BY ONLY n \in Nat \ {0}, <3>1, SignedForm
    <2>5. QED
      BY <2>2, <2>3, <2>4
  <1>8. QED
    BY <1>6, <1>7 DEF t, T, V, TextWritten, TextWritten, TextWritten

LEMMA CreateWritten ==
  ASSUME NEW f, NEW r, NEW c, NEW k, NEW a
  PROVE  Encoded(TransitionForm(CreateRecord(f, r, c, k, a)))
             = TextWritten(SignedWords(CreateAndTransferTransitionTypes,
                               CreateValues(f, r, c, k, a), 7), 352)
  <1> DEFINE t == CreateRecord(f, r, c, k, a)
             V == CreateValues(f, r, c, k, a)
             T == CreateAndTransferTransitionTypes
  <1>1. ~IsSwapTransition(t) /\ IsCreateAndTransferTransition(t)
    BY DEF IsSwapTransition, IsCreateAndTransferTransition, CreateRecord
  <1>2. /\ t.stateRoot = Hash(Root) /\ t.senderSlotIndex = f
        /\ t.recipientSlotIndex = r /\ t.createdAccountPubkey = c
        /\ t.tokenType = k /\ t.amount = a /\ t.signature = Signature
    BY DEF CreateRecord
  <1>3. V[7] = Signature
    BY DEF CreateValues
  <1> HIDE DEF t
  <1>4. CreateAndTransferTransitionForm(t) = [types |-> T, values |-> V]
    BY <1>2, SignatureIs DEF CreateAndTransferTransitionForm, CreateValues
  <1>5. TransitionForm(t) = [types |-> T, values |-> V]
    BY <1>1, <1>4 DEF TransitionForm
  <1> HIDE DEF T, V
  <1>6. Encoded(TransitionForm(t)) = Encode(T, V)
    BY <1>5 DEF Encoded
  <1>7. Encode(T, V) = Hex(SignedWords(T, V, 7), 352, TRUE)
    <2>1. SignedTypes(T, 7) /\ 352 = 32 * (7 + 4)
      BY CreateTransitionTypesAre DEF T
    <2>2. PICK n \in Nat \ {0} : n = 7
      OBVIOUS
    <2>3. PICK size : size = 352
      OBVIOUS
    <2>4. Encode(T, V) = Hex(SignedWords(T, V, n), size, TRUE)
      <3>1. SignedTypes(T, n) /\ V[n] = Signature /\ size = 32 * (n + 4)
        BY <1>3, <2>1, <2>2, <2>3
      <3>2. QED
        BY ONLY n \in Nat \ {0}, <3>1, SignedForm
    <2>5. QED
      BY <2>2, <2>3, <2>4
  <1>8. QED
    BY <1>6, <1>7 DEF t, T, V, TextWritten, TextWritten, TextWritten

\* Each parser reads back what was written in its format.
LEMMA SwapRead ==
  ASSUME NEW f, NEW k \in Tokens, NEW a, NEW m, NEW x, NEW data,
         data.words = SignedWords(SwapTransitionTypes,
                                  SwapValues(f, k, a, m, x), 8)
  PROVE  ParseSwapTransition(data) = SwapRecord(f, k, a, m, x)
  <1> DEFINE V == SwapValues(f, k, a, m, x)
             T == SwapTransitionTypes
             v == Decode(T, data)
  <1>1. /\ V[1] = Add0x(Hash(Root)) /\ V[2] = f /\ V[3] = 0 /\ V[4] = k
        /\ V[5] = a /\ V[6] = m /\ V[7] = x
    BY DEF SwapValues
  <1> HIDE DEF V, T, v
  <1>2. /\ Decodable(T, data) /\ v[8] = Signature
        /\ \A i \in 1..8 : i # 8 => v[i] = Read(T[i], Word(T[i], V[i]))
    <2>1. SignedTypes(T, 8) /\ data.words = SignedWords(T, V, 8)
      BY SwapTransitionTypesAre DEF T, V
    <2>2. PICK n \in Nat \ {0} : n = 8
      OBVIOUS
    <2>3. /\ Decodable(T, data) /\ Decode(T, data)[n] = Signature
          /\ \A i \in 1..n : i # n =>
                Decode(T, data)[i] = Read(T[i], Word(T[i], V[i]))
      <3>1. SignedTypes(T, n) /\ data.words = SignedWords(T, V, n)
        BY <2>1, <2>2
      <3>2. QED
        BY ONLY n \in Nat \ {0}, <3>1, SignedRead
    <2>4. QED
      BY <2>2, <2>3 DEF v
  <1>3. /\ v[1] = Read("bytes32", Word("bytes32", V[1]))
        /\ v[2] = Read("uint32", Word("uint32", V[2]))
        /\ v[3] = Read("uint32", Word("uint32", V[3]))
        /\ v[4] = Read("uint", Word("uint", V[4]))
        /\ v[5] = Read("uint32", Word("uint32", V[5]))
        /\ v[6] = Read("uint32", Word("uint32", V[6]))
        /\ v[7] = Read("uint", Word("uint", V[7]))
    BY <1>2, SwapTransitionTypesAre DEF T
  <1>4. /\ v[1] = Add0x(Hash(Root)) /\ v[2] = f /\ v[3] = 0 /\ v[4] = k
        /\ v[5] = a /\ v[6] = m /\ v[7] = x
    BY <1>1, <1>3, ReadWord
  <1>5. Remove0x(v[1]) = Hash(Root)
    BY <1>4, HashText
  <1>6. IsToken(v[4])
    BY <1>4 DEF IsToken
  <1>7. ParseSwapTransition(data)
            = [stateRoot |-> Remove0x(v[1]), senderSlotIndex |-> v[2],
               uniswapSlotIndex |-> v[3], tokenType |-> v[4],
               inputAmount |-> v[5], minOutputAmount |-> v[6],
               timeout |-> v[7], signature |-> v[8]]
    BY <1>2, <1>6 DEF ParseSwapTransition, T, v
  <1>8. QED
    BY <1>2, <1>4, <1>5, <1>7 DEF SwapRecord

LEMMA TransferRead ==
  ASSUME NEW f, NEW r, NEW k \in Tokens, NEW a, NEW data,
         data.words = SignedWords(TransferTransitionTypes,
                                  TransferValues(f, r, k, a), 6)
  PROVE  ParseTransferTransition(data) = TransferRecord(f, r, k, a)
  <1> DEFINE V == TransferValues(f, r, k, a)
             T == TransferTransitionTypes
             v == Decode(T, data)
  <1>1. /\ V[1] = Add0x(Hash(Root)) /\ V[2] = f /\ V[3] = r /\ V[4] = k
        /\ V[5] = a
    BY DEF TransferValues
  <1> HIDE DEF V, T, v
  <1>2. /\ Decodable(T, data) /\ v[6] = Signature
        /\ \A i \in 1..6 : i # 6 => v[i] = Read(T[i], Word(T[i], V[i]))
    <2>1. SignedTypes(T, 6) /\ data.words = SignedWords(T, V, 6)
      BY TransferTransitionTypesAre DEF T, V
    <2>2. PICK n \in Nat \ {0} : n = 6
      OBVIOUS
    <2>3. /\ Decodable(T, data) /\ Decode(T, data)[n] = Signature
          /\ \A i \in 1..n : i # n =>
                Decode(T, data)[i] = Read(T[i], Word(T[i], V[i]))
      <3>1. SignedTypes(T, n) /\ data.words = SignedWords(T, V, n)
        BY <2>1, <2>2
      <3>2. QED
        BY ONLY n \in Nat \ {0}, <3>1, SignedRead
    <2>4. QED
      BY <2>2, <2>3 DEF v
  <1>3. /\ v[1] = Read("bytes32", Word("bytes32", V[1]))
        /\ v[2] = Read("uint32", Word("uint32", V[2]))
        /\ v[3] = Read("uint32", Word("uint32", V[3]))
        /\ v[4] = Read("uint", Word("uint", V[4]))
        /\ v[5] = Read("uint32", Word("uint32", V[5]))
    BY <1>2, TransferTransitionTypesAre DEF T
  <1>4. /\ v[1] = Add0x(Hash(Root)) /\ v[2] = f /\ v[3] = r /\ v[4] = k
        /\ v[5] = a
    BY <1>1, <1>3, ReadWord
  <1>5. Remove0x(v[1]) = Hash(Root)
    BY <1>4, HashText
  <1>6. IsToken(v[4])
    BY <1>4 DEF IsToken
  <1>7. ParseTransferTransition(data)
            = [stateRoot |-> Remove0x(v[1]), senderSlotIndex |-> v[2],
               recipientSlotIndex |-> v[3], tokenType |-> v[4],
               amount |-> v[5], signature |-> v[6]]
    BY <1>2, <1>6 DEF ParseTransferTransition, T, v
  <1>8. QED
    BY <1>2, <1>4, <1>5, <1>7 DEF TransferRecord

LEMMA CreateRead ==
  ASSUME NEW f, NEW r, NEW c, NEW k \in Tokens, NEW a, NEW data,
         data.words = SignedWords(CreateAndTransferTransitionTypes,
                                  CreateValues(f, r, c, k, a), 7)
  PROVE  ParseCreateAndTransferTransition(data)
             = CreateRecord(f, r, WithChecksum(c.address), k, a)
  <1> DEFINE V == CreateValues(f, r, c, k, a)
             T == CreateAndTransferTransitionTypes
             v == Decode(T, data)
  <1>1. /\ V[1] = Add0x(Hash(Root)) /\ V[2] = f /\ V[3] = r /\ V[4] = c
        /\ V[5] = k /\ V[6] = a
    BY DEF CreateValues
  <1> HIDE DEF V, T, v
  <1>2. /\ Decodable(T, data) /\ v[7] = Signature
        /\ \A i \in 1..7 : i # 7 => v[i] = Read(T[i], Word(T[i], V[i]))
    <2>1. SignedTypes(T, 7) /\ data.words = SignedWords(T, V, 7)
      BY CreateTransitionTypesAre DEF T, V
    <2>2. PICK n \in Nat \ {0} : n = 7
      OBVIOUS
    <2>3. /\ Decodable(T, data) /\ Decode(T, data)[n] = Signature
          /\ \A i \in 1..n : i # n =>
                Decode(T, data)[i] = Read(T[i], Word(T[i], V[i]))
      <3>1. SignedTypes(T, n) /\ data.words = SignedWords(T, V, n)
        BY <2>1, <2>2
      <3>2. QED
        BY ONLY n \in Nat \ {0}, <3>1, SignedRead
    <2>4. QED
      BY <2>2, <2>3 DEF v
  <1>3. /\ v[1] = Read("bytes32", Word("bytes32", V[1]))
        /\ v[2] = Read("uint32", Word("uint32", V[2]))
        /\ v[3] = Read("uint32", Word("uint32", V[3]))
        /\ v[4] = Read("address", Word("address", V[4]))
        /\ v[5] = Read("uint", Word("uint", V[5]))
        /\ v[6] = Read("uint32", Word("uint32", V[6]))
    BY <1>2, CreateTransitionTypesAre DEF T
  <1>4. /\ v[1] = Add0x(Hash(Root)) /\ v[2] = f /\ v[3] = r
        /\ v[4] = WithChecksum(c.address) /\ v[5] = k /\ v[6] = a
    BY <1>1, <1>3, ReadWord DEF WithChecksum
  <1>5. Remove0x(v[1]) = Hash(Root)
    BY <1>4, HashText
  <1>6. IsToken(v[5])
    BY <1>4 DEF IsToken
  <1>7. ParseCreateAndTransferTransition(data)
            = [stateRoot |-> Remove0x(v[1]), senderSlotIndex |-> v[2],
               recipientSlotIndex |-> v[3], createdAccountPubkey |-> v[4],
               tokenType |-> v[5], amount |-> v[6], signature |-> v[7]]
    BY <1>2, <1>6 DEF ParseCreateAndTransferTransition, T, v
  <1>8. QED
    BY <1>2, <1>4, <1>5, <1>7 DEF CreateRecord

\* No parser takes what was written in another format.
LEMMA SignedLength ==
  ASSUME NEW n \in Nat \ {0}, NEW types, NEW values, NEW w,
         w = SignedWords(types, values, n)
  PROVE  /\ Len(w) = n + 4 /\ DOMAIN w = 1..(n + 4)
         /\ \A i \in 1..(n - 1) : w[i] = Word(types[i], values[i])
         /\ w[n] = 32 * n
         /\ w[n + 1] = 65
         /\ \A i \in 1..3 : w[(n + 1) + i] = SignatureWords[i]
  <1>1. DOMAIN w = 1..(n + 4) /\ w = [i \in 1..(n + 4) |-> w[i]]
    BY DEF SignedWords
  <1>2. Len(w) = n + 4
    <2> DEFINE T == {w[i] : i \in 1..(n + 4)}
    <2>1. w \in [1..(n + 4) -> T]
      BY <1>1
    <2> HIDE DEF T
    <2>2. n + 4 \in Nat
      OBVIOUS
    <2>3. QED
      BY <2>1, <2>2
  <1>3. /\ \A i \in 1..(n - 1) : w[i] = Word(types[i], values[i])
        /\ w[n] = 32 * n
        /\ \A i \in 1..4 : w[n + i] = SignatureTail[i]
    BY DEF SignedWords
  <1>4. w[n + 1] = 65
    BY <1>3, SignatureIs
  <1>5. ASSUME NEW i \in 1..3
        PROVE  w[(n + 1) + i] = SignatureWords[i]
    <2>1. i + 1 \in 1..4 /\ (n + 1) + i = n + (i + 1)
      OBVIOUS
    <2>2. w[n + (i + 1)] = SignatureTail[i + 1]
      BY <1>3, <2>1
    <2>3. QED
      BY <2>1, <2>2, SignatureIs
  <1>6. QED
    BY <1>1, <1>2, <1>3, <1>4, <1>5

LEMMA TransferIsNoSwap ==
  ASSUME NEW f, NEW r, NEW k, NEW a, NEW data,
         data.words = SignedWords(TransferTransitionTypes,
                                  TransferValues(f, r, k, a), 6)
  PROVE  ParseSwapTransition(data) = Invalid
  <1> DEFINE w == data.words
             T == SwapTransitionTypes
  <1>1. Len(w) = 10 /\ w[8] = SignatureWords[1]
    <2>1. PICK n \in Nat \ {0} : n = 6
      OBVIOUS
    <2>2. w = SignedWords(TransferTransitionTypes,
                          TransferValues(f, r, k, a), n)
      BY <2>1
    <2> HIDE DEF w
    <2>3. Len(w) = n + 4 /\ \A i \in 1..3 : w[(n + 1) + i] = SignatureWords[i]
      BY ONLY n \in Nat \ {0}, <2>2, SignedLength
    <2>4. QED
      BY <2>1, <2>3
  <1>2. w[8] \notin 0..(32 * Len(w))
    <2>1. \A i \in 1..3 : SignatureWords[i] \notin 0..(32 * 12)
      BY CodecAssumption
    <2>2. 0..(32 * 10) \subseteq 0..(32 * 12)
      OBVIOUS
    <2> HIDE DEF w
    <2>3. QED
      BY <1>1, <2>1, <2>2
  <1>3. ~Readable("bytes", w, w[8])
    BY <1>2 DEF Readable
  <1>4. 8 \in DOMAIN T /\ T[8] = "bytes" /\ Dynamic(T[8])
    BY SwapTransitionTypesAre DEF SignedTypes, Dynamic
  <1> HIDE DEF T
  <1>5. ~Decodable(T, data)
    BY <1>3, <1>4 DEF Decodable
  <1>6. QED
    BY <1>5 DEF ParseSwapTransition, T

LEMMA CreateIsNoOther ==
  ASSUME NEW f, NEW r, NEW c, c.address \notin Tokens, NEW k, NEW a, NEW data,
         data.words = SignedWords(CreateAndTransferTransitionTypes,
                                  CreateValues(f, r, c, k, a), 7)
  PROVE  /\ ParseSwapTransition(data) = Invalid
         /\ ParseTransferTransition(data) = Invalid
  <1> DEFINE w == data.words
             V == CreateValues(f, r, c, k, a)
             T == CreateAndTransferTransitionTypes
  <1>1. w[4] = c.address
    <2>1. PICK n \in Nat \ {0} : n = 7
      OBVIOUS
    <2>2. w = SignedWords(T, V, n)
      BY <2>1
    <2>3. V[4] = c /\ T[4] = "address"
      BY CreateTransitionTypesAre DEF CreateValues
    <2> HIDE DEF w, V, T
    <2>4. \A i \in 1..(n - 1) : w[i] = Word(T[i], V[i])
      BY ONLY n \in Nat \ {0}, <2>2, SignedLength
    <2>5. w[4] = Word("address", c)
      BY <2>1, <2>3, <2>4
    <2>6. QED
      BY <2>5 DEF Word
  <1>2. ~IsToken(w[4])
    <2> HIDE DEF w
    <2>1. QED
      BY <1>1 DEF IsToken
  <1>3. Decode(SwapTransitionTypes, data)[4] = w[4]
    <2>1. 4 \in DOMAIN SwapTransitionTypes /\ SwapTransitionTypes[4] = "uint"
      BY SwapTransitionTypesAre DEF SignedTypes
    <2>2. QED
      BY <2>1 DEF Decode, Dynamic
  <1>4. Decode(TransferTransitionTypes, data)[4] = w[4]
    <2>1. /\ 4 \in DOMAIN TransferTransitionTypes
          /\ TransferTransitionTypes[4] = "uint"
      BY TransferTransitionTypesAre DEF SignedTypes
    <2>2. QED
      BY <2>1 DEF Decode, Dynamic
  <1> HIDE DEF w
  <1>5. ParseSwapTransition(data) = Invalid
    BY <1>2, <1>3 DEF ParseSwapTransition
  <1>6. ParseTransferTransition(data) = Invalid
    BY <1>2, <1>4 DEF ParseTransferTransition
  <1>7. QED
    BY <1>5, <1>6

-----------------------------------------------------------------------------
(***************************************************************************)
(* Every reader has what was made, up to the checksum of an address.       *)
(***************************************************************************)
ASwap(t) ==
    \E f, a, m, x : \E k \in Tokens : t = SwapRecord(f, k, a, m, x)

ATransfer(t) == \E f, r, a : \E k \in Tokens : t = TransferRecord(f, r, k, a)

ACreation(t) ==
    \E f, r, c, a : \E k \in Tokens :
        c.address \notin Tokens /\ c = Address(c.address, c.checksum)
        /\ t = CreateRecord(f, r, c, k, a)

ATransition(t) == ASwap(t) \/ ATransfer(t) \/ ACreation(t)

\* All readers of the text of t have its checksummed form, which has the same
\* text.
ReadAs(t) ==
    LET data == Encoded(TransitionForm(t))
    IN  /\ ParseTransition(data) = Checksummed(t)
        /\ DecodedByContract(data) = Checksummed(t)
        /\ Checksummed(Checksummed(t)) = Checksummed(t)
        /\ Encoded(TransitionForm(Checksummed(t))) = data
        /\ {"stateRoot", "senderSlotIndex", "tokenType", "signature"}
               \subseteq DOMAIN t
        /\ {"stateRoot", "senderSlotIndex", "tokenType", "signature"}
               \subseteq DOMAIN Checksummed(t)
        /\ data # Nothing

LEMMA WrittenIs ==
  ASSUME NEW words, NEW bytes
  PROVE  /\ TextWritten(words, bytes) # Nothing
         /\ TextWritten(words, bytes).words = words
         /\ TextWritten(words, bytes).bytes = bytes
  <1>1. "words" \in DOMAIN TextWritten(words, bytes)
    BY DEF TextWritten, Hex
  <1>2. DOMAIN Nothing = {}
    BY DEF Nothing
  <1>3. QED
    BY <1>1, <1>2 DEF TextWritten, Hex

LEMMA SwapReadAs ==
  ASSUME NEW t, ASwap(t)
  PROVE  ReadAs(t)
  <1>1. PICK f, a, m, x : \E k \in Tokens : t = SwapRecord(f, k, a, m, x)
    BY DEF ASwap
  <1>2. PICK k \in Tokens : t = SwapRecord(f, k, a, m, x)
    BY <1>1
  <1> DEFINE W == SignedWords(SwapTransitionTypes, SwapValues(f, k, a, m, x), 8)
             data == Encoded(TransitionForm(t))
  <1>3. data = TextWritten(W, 384)
    BY <1>2, SwapWritten
  <1> HIDE DEF W, data
  <1>4. data.words = W /\ data.bytes = 384 /\ data # Nothing
    BY <1>3, WrittenIs
  <1>5. ParseSwapTransition(data) = t
    BY <1>2, <1>4, SwapRead DEF W
  <1>6. /\ {"stateRoot", "senderSlotIndex", "tokenType", "signature"}
               \subseteq DOMAIN t
        /\ ~IsCreateAndTransferTransition(t)
    BY <1>2 DEF SwapRecord, IsCreateAndTransferTransition
  <1>7. t # Invalid
    BY <1>6 DEF Invalid
  <1>8. ParseTransition(data) = t
    BY <1>5, <1>7 DEF ParseTransition
  <1>9. InferTransitionType(data) = "swap"
    BY <1>4 DEF InferTransitionType
  <1>10. DecodedByContract(data) = t
    BY <1>5, <1>9 DEF DecodedByContract
  <1>11. Checksummed(t) = t
    BY <1>6 DEF Checksummed
  <1>12. QED
    BY <1>4, <1>6, <1>8, <1>10, <1>11 DEF ReadAs, data

LEMMA TransferReadAs ==
  ASSUME NEW t, ATransfer(t)
  PROVE  ReadAs(t)
  <1>1. PICK f, r, a : \E k \in Tokens : t = TransferRecord(f, r, k, a)
    BY DEF ATransfer
  <1>2. PICK k \in Tokens : t = TransferRecord(f, r, k, a)
    BY <1>1
  <1> DEFINE W == SignedWords(TransferTransitionTypes,
                              TransferValues(f, r, k, a), 6)
             data == Encoded(TransitionForm(t))
  <1>3. data = TextWritten(W, 320)
    BY <1>2, TransferWritten
  <1> HIDE DEF W, data
  <1>4. data.words = W /\ data.bytes = 320 /\ data # Nothing
    BY <1>3, WrittenIs
  <1>5. /\ ParseTransferTransition(data) = t
        /\ ParseSwapTransition(data) = Invalid
    <2>1. ParseTransferTransition(data) = t
      BY <1>2, <1>4, TransferRead DEF W
    <2>2. ParseSwapTransition(data) = Invalid
      BY <1>2, <1>4, TransferIsNoSwap DEF W
    <2>3. QED
      BY <2>1, <2>2
  <1>6. /\ {"stateRoot", "senderSlotIndex", "tokenType", "signature"}
               \subseteq DOMAIN t
        /\ ~IsCreateAndTransferTransition(t)
    BY <1>2 DEF TransferRecord, IsCreateAndTransferTransition
  <1>7. t # Invalid
    BY <1>6 DEF Invalid
  <1>8. ParseTransition(data) = t
    BY <1>5, <1>7 DEF ParseTransition
  <1>9. InferTransitionType(data) = "transfer"
    BY <1>4 DEF InferTransitionType
  <1>10. DecodedByContract(data) = t
    BY <1>5, <1>9 DEF DecodedByContract
  <1>11. Checksummed(t) = t
    BY <1>6 DEF Checksummed
  <1>12. QED
    BY <1>4, <1>6, <1>8, <1>10, <1>11 DEF ReadAs, data

LEMMA ChecksumChanged ==
  ASSUME NEW f, NEW r, NEW c, NEW k, NEW a,
         c = Address(c.address, c.checksum)
  PROVE  Checksummed(CreateRecord(f, r, c, k, a))
             = CreateRecord(f, r, WithChecksum(c.address), k, a)
  <1> DEFINE t == CreateRecord(f, r, c, k, a)
             d == WithChecksum(c.address)
  <1>1. IsCreateAndTransferTransition(t)
    BY DEF CreateRecord, IsCreateAndTransferTransition
  <1>2. /\ t \in [stateRoot : {Hash(Root)}, senderSlotIndex : {f},
                  recipientSlotIndex : {r}, createdAccountPubkey : {c},
                  tokenType : {k}, amount : {a}, signature : {Signature}]
        /\ t.createdAccountPubkey = c
    BY DEF CreateRecord
  <1>3. [c EXCEPT !.checksum = TRUE] = d
    <2>1. PICK p, q : p = c.address /\ q = c.checksum
      OBVIOUS
    <2>2. c = [address |-> p, checksum |-> q]
      BY <2>1 DEF Address
    <2>3. c \in [address : {p}, checksum : {q}] /\ c.address = p
      BY <2>2
    <2> DEFINE e == [c EXCEPT !.checksum = TRUE]
    <2>4. e \in [address : {p}, checksum : BOOLEAN] /\ e.checksum
      BY <2>3
    <2> HIDE DEF e
    <2>5. e = [address |-> p, checksum |-> TRUE]
      BY <2>4
    <2>6. QED
      BY <2>1, <2>5 DEF WithChecksum, Address, e
  <1> HIDE DEF t, d
  <1>4. Checksummed(t) = [t EXCEPT !.createdAccountPubkey
                                       = [c EXCEPT !.checksum = TRUE]]
    BY <1>1, <1>2 DEF Checksummed
  <1>5. [t EXCEPT !.createdAccountPubkey = d] = CreateRecord(f, r, d, k, a)
    BY <1>2 DEF CreateRecord
  <1>6. QED
    BY <1>3, <1>4, <1>5 DEF t, d

LEMMA CreationReadAs ==
  ASSUME NEW t, ACreation(t)
  PROVE  ReadAs(t)
  <1>1. PICK f, r, c, a : \E k \in Tokens :
            c.address \notin Tokens /\ c = Address(c.address, c.checksum)
            /\ t = CreateRecord(f, r, c, k, a)
    BY DEF ACreation
  <1>2. PICK k \in Tokens :
            /\ c.address \notin Tokens /\ c = Address(c.address, c.checksum)
            /\ t = CreateRecord(f, r, c, k, a)
    BY <1>1
  <1> DEFINE W == SignedWords(CreateAndTransferTransitionTypes,
                              CreateValues(f, r, c, k, a), 7)
             data == Encoded(TransitionForm(t))
             d == WithChecksum(c.address)
             u == CreateRecord(f, r, d, k, a)
  <1>3. data = TextWritten(W, 352)
    BY <1>2, CreateWritten
  <1>4. /\ d.address = c.address /\ d = Address(d.address, d.checksum)
        /\ WithChecksum(d.address) = d
    BY DEF Address, WithChecksum
  <1> HIDE DEF W, data
  <1>6. data.words = W /\ data.bytes = 352 /\ data # Nothing
    BY <1>3, WrittenIs
  <1>7. /\ ParseCreateAndTransferTransition(data) = u
        /\ ParseSwapTransition(data) = Invalid
        /\ ParseTransferTransition(data) = Invalid
    <2>1. ParseCreateAndTransferTransition(data) = u
      BY <1>6, CreateRead DEF W
    <2>2. /\ ParseSwapTransition(data) = Invalid
          /\ ParseTransferTransition(data) = Invalid
      BY <1>2, <1>6, CreateIsNoOther DEF W
    <2>3. QED
      BY <2>1, <2>2
  <1>8. ParseTransition(data) = u
    BY <1>7 DEF ParseTransition
  <1>9. InferTransitionType(data) = "createAndTransfer"
    BY <1>6 DEF InferTransitionType
  <1>10. DecodedByContract(data) = u
    BY <1>7, <1>9 DEF DecodedByContract
  <1>11. Checksummed(t) = u
    BY <1>2, ChecksumChanged
  <1>12. Checksummed(u) = u
    <2> HIDE DEF d
    <2>1. Checksummed(u) = CreateRecord(f, r, WithChecksum(d.address), k, a)
      BY <1>4, ChecksumChanged
    <2>2. QED
      BY <1>4, <2>1
  <1>13. Encoded(TransitionForm(u)) = data
    <2> DEFINE V == CreateValues(f, r, c, k, a)
               U == CreateValues(f, r, d, k, a)
               T == CreateAndTransferTransitionTypes
    <2>1. /\ V[1] = U[1] /\ V[2] = U[2] /\ V[3] = U[3] /\ V[4] = c
          /\ U[4] = d /\ V[5] = U[5] /\ V[6] = U[6]
      BY DEF CreateValues
    <2>2. T[4] = "address"
      BY CreateTransitionTypesAre
    <2> HIDE DEF V, U, T
    <2>3. Word("address", d) = Word("address", c)
      BY <1>4 DEF Word
    <2>4. \A i \in 1..6 : Word(T[i], V[i]) = Word(T[i], U[i])
      <3>1. \A i \in 1..6 : i # 4 => V[i] = U[i]
        BY <2>1
      <3>2. QED
        BY <2>1, <2>2, <2>3, <3>1
    <2>5. SignedWords(T, V, 7) = SignedWords(T, U, 7)
      BY <2>4 DEF SignedWords
    <2>6. Encoded(TransitionForm(u)) = TextWritten(SignedWords(T, U, 7), 352)
      <3> HIDE DEF d
      <3>1. QED
        BY CreateWritten DEF U, T
    <2>7. QED
      BY <1>3, <2>5, <2>6 DEF W, V, T
  <1>14. /\ {"stateRoot", "senderSlotIndex", "tokenType", "signature"}
                \subseteq DOMAIN t
         /\ {"stateRoot", "senderSlotIndex", "tokenType", "signature"}
                \subseteq DOMAIN u
    BY <1>2 DEF CreateRecord
  <1> HIDE DEF u
  <1>15. QED
    BY <1>6, <1>8, <1>10, <1>11, <1>12, <1>13, <1>14 DEF ReadAs, data

LEMMA TransitionReadAs ==
  ASSUME NEW t, ATransition(t)
  PROVE  ReadAs(t)
  BY SwapReadAs, TransferReadAs, CreationReadAs DEF ATransition

-----------------------------------------------------------------------------
(***************************************************************************)
(* Formats of values of fixed size.                                        *)
(***************************************************************************)
FixedTypes(types, n) ==
    /\ DOMAIN types = 1..n /\ Len(types) = n
    /\ \A i \in 1..n : ~Dynamic(types[i])

FixedWords(types, values, n) == [i \in 1..n |-> Word(types[i], values[i])]

LEMMA FixedWritten ==
  ASSUME NEW n \in Nat, NEW types, FixedTypes(types, n), NEW values,
         NEW size, size = 32 * n
  PROVE  Encode(types, values) = TextWritten(FixedWords(types, values, n), size)
  <1>1. DOMAIN types = 1..n /\ \A i \in 1..n : ~Dynamic(types[i])
    BY DEF FixedTypes
  <1>2. Encode(types, values)
            = Hex([i \in 1..n |-> Word(types[i], values[i])], 32 * n, TRUE)
    BY <1>1, NoTail
  <1>3. QED
    BY <1>2 DEF TextWritten, FixedWords

LEMMA FixedText ==
  ASSUME NEW n \in Nat, NEW types, NEW values
  PROVE  /\ TextOf(FixedWords(types, values, n), n)
         /\ Len(FixedWords(types, values, n)) = n
         /\ \A i \in 1..n : FixedWords(types, values, n)[i]
                                = Word(types[i], values[i])
  <1> DEFINE w == FixedWords(types, values, n)
             T == {w[i] : i \in 1..n}
  <1>1. /\ DOMAIN w = 1..n /\ w = [i \in 1..n |-> w[i]]
        /\ \A i \in 1..n : w[i] = Word(types[i], values[i])
    BY DEF FixedWords
  <1> HIDE DEF w
  <1>2. w \in [1..n -> T]
    BY <1>1
  <1> HIDE DEF T
  <1>3. Len(w) = n
    BY <1>2
  <1>4. QED
    BY <1>1, <1>3 DEF w, TextOf

LEMMA FixedRead ==
  ASSUME NEW n \in Nat, NEW types, FixedTypes(types, n), NEW values,
         NEW data, data.words = FixedWords(types, values, n)
  PROVE  /\ Decodable(types, data)
         /\ \A i \in 1..n : Decode(types, data)[i]
                                = Read(types[i], Word(types[i], values[i]))
  <1>1. /\ DOMAIN types = 1..n /\ Len(types) = n
        /\ \A i \in 1..n : ~Dynamic(types[i])
    BY DEF FixedTypes
  <1>2. /\ Len(data.words) = n
        /\ \A i \in 1..n : data.words[i] = Word(types[i], values[i])
    BY FixedText
  <1>3. Decodable(types, data)
    BY <1>1, <1>2 DEF Decodable
  <1>4. ASSUME NEW i \in 1..n
        PROVE  Decode(types, data)[i] = Read(types[i], Word(types[i], values[i]))
    <2>1. i \in DOMAIN types /\ ~Dynamic(types[i])
      BY <1>1
    <2>2. Decode(types, data)[i] = Read(types[i], data.words[i])
      BY <2>1 DEF Decode, Read
    <2>3. QED
      BY <1>2, <2>2
  <1>5. QED
    BY <1>3, <1>4

LEMMA TransferTypesAre ==
  /\ FixedTypes(TransferTypes, 4)
  /\ TransferTypes[1] = "address" /\ TransferTypes[2] = "address"
  /\ TransferTypes[3] = "uint" /\ TransferTypes[4] = "uint32"
  <1> DEFINE T == TransferTypes
  <1>1. /\ DOMAIN T = 1..4 /\ Len(T) = 4
        /\ T[1] = "address" /\ T[2] = "address" /\ T[3] = "uint"
        /\ T[4] = "uint32"
    BY DEF TransferTypes
  <1> HIDE DEF T
  <1>2. \A i \in 1..4 : ~Dynamic(T[i])
    BY <1>1 DEF Dynamic
  <1>3. QED
    BY <1>1, <1>2 DEF T, FixedTypes

LEMMA SwapTypesAre ==
  /\ FixedTypes(SwapTypes, 5)
  /\ SwapTypes[1] = "address" /\ SwapTypes[2] = "uint"
  /\ SwapTypes[3] = "uint32" /\ SwapTypes[4] = "uint32"
  /\ SwapTypes[5] = "uint"
  <1> DEFINE T == SwapTypes
  <1>1. /\ DOMAIN T = 1..5 /\ Len(T) = 5
        /\ T[1] = "address" /\ T[2] = "uint" /\ T[3] = "uint32"
        /\ T[4] = "uint32" /\ T[5] = "uint"
    BY DEF SwapTypes
  <1> HIDE DEF T
  <1>2. \A i \in 1..5 : ~Dynamic(T[i])
    BY <1>1 DEF Dynamic
  <1>3. QED
    BY <1>1, <1>2 DEF T, FixedTypes

\* What the client signs, and how it is read back.
TransferText(s, r, k, a) == FixedWords(TransferTypes, <<s, r, k, a>>, 4)

SwapText(s, k, a, m, x) == FixedWords(SwapTypes, <<s, k, a, m, x>>, 5)

LEMMA TransferTextKept ==
  ASSUME NEW s, NEW r, NEW k, NEW a
  PROVE  TransferText(WithChecksum(s.address), WithChecksum(r.address), k, a)
             = TransferText(s, r, k, a)
  <1> DEFINE V == <<s, r, k, a>>
             T == TransferTypes
             U == <<WithChecksum(s.address), WithChecksum(r.address), k, a>>
  <1>1. FixedWords(T, U, 4) = FixedWords(T, V, 4)
    <2>1. /\ V[1] = s /\ V[2] = r /\ V[3] = k /\ V[4] = a
          /\ U[1] = WithChecksum(s.address) /\ U[2] = WithChecksum(r.address)
          /\ U[3] = k /\ U[4] = a
          /\ T[1] = "address" /\ T[2] = "address"
      BY TransferTypesAre
    <2> HIDE DEF T, U, V
    <2>2. /\ Word("address", WithChecksum(s.address)) = Word("address", s)
          /\ Word("address", WithChecksum(r.address)) = Word("address", r)
      BY DEF Word, WithChecksum, Address
    <2>3. \A i \in 1..4 : Word(T[i], U[i]) = Word(T[i], V[i])
      <3>1. Word(T[1], U[1]) = Word(T[1], V[1])
        BY ONLY <2>1, <2>2
      <3>2. Word(T[2], U[2]) = Word(T[2], V[2])
        BY ONLY <2>1, <2>2
      <3>3. QED
        BY <2>1, <3>1, <3>2
    <2>4. QED
      BY <2>3 DEF FixedWords
  <1>2. QED
    BY <1>1 DEF TransferText

LEMMA TransferSigned ==
  ASSUME NEW s, NEW r, NEW k, NEW a
  PROVE  /\ Encode(TransferTypes, <<s, r, k, a>>)
                = TextWritten(TransferText(s, r, k, a), 128)
         /\ TextOf(TransferText(s, r, k, a), 4)
         /\ Len(TransferText(s, r, k, a)) = 4
  <1> DEFINE V == <<s, r, k, a>>
             T == TransferTypes
  <1>1. Encode(T, V) = TextWritten(FixedWords(T, V, 4), 128)
    <2>1. FixedTypes(T, 4) /\ 128 = 32 * 4
      BY TransferTypesAre
    <2> HIDE DEF T, V
    <2>2. PICK n \in Nat : n = 4
      OBVIOUS
    <2>3. PICK size : size = 128
      OBVIOUS
    <2>4. FixedTypes(T, n) /\ size = 32 * n
      BY <2>1, <2>2, <2>3
    <2>5. Encode(T, V) = TextWritten(FixedWords(T, V, n), size)
      BY ONLY n \in Nat, <2>4, FixedWritten
    <2>6. QED
      BY <2>2, <2>3, <2>5
  <1>2. TextOf(FixedWords(T, V, 4), 4) /\ Len(FixedWords(T, V, 4)) = 4
    <2> HIDE DEF T, V
    <2>1. PICK n \in Nat : n = 4
      OBVIOUS
    <2>2. TextOf(FixedWords(T, V, n), n) /\ Len(FixedWords(T, V, n)) = n
      BY FixedText
    <2>3. QED
      BY <2>1, <2>2
  <1>3. QED
    BY <1>1, <1>2 DEF TransferText

LEMMA SwapSigned ==
  ASSUME NEW s, NEW k, NEW a, NEW m, NEW x
  PROVE  /\ Encode(SwapTypes, <<s, k, a, m, x>>)
                = TextWritten(SwapText(s, k, a, m, x), 160)
         /\ SwapText(WithChecksum(s.address), k, a, m, x)
                = SwapText(s, k, a, m, x)
         /\ TextOf(SwapText(s, k, a, m, x), 5)
  <1> DEFINE V == <<s, k, a, m, x>>
             T == SwapTypes
             U == <<WithChecksum(s.address), k, a, m, x>>
  <1>1. Encode(T, V) = TextWritten(FixedWords(T, V, 5), 160)
    <2>1. FixedTypes(T, 5) /\ 160 = 32 * 5
      BY SwapTypesAre
    <2> HIDE DEF T, V
    <2>2. PICK n \in Nat : n = 5
      OBVIOUS
    <2>3. PICK size : size = 160
      OBVIOUS
    <2>4. FixedTypes(T, n) /\ size = 32 * n
      BY <2>1, <2>2, <2>3
    <2>5. Encode(T, V) = TextWritten(FixedWords(T, V, n), size)
      BY ONLY n \in Nat, <2>4, FixedWritten
    <2>6. QED
      BY <2>2, <2>3, <2>5
  <1>2. FixedWords(T, U, 5) = FixedWords(T, V, 5)
    <2>1. /\ V[1] = s /\ V[2] = k /\ V[3] = a /\ V[4] = m /\ V[5] = x
          /\ U[1] = WithChecksum(s.address)
          /\ U[2] = k /\ U[3] = a /\ U[4] = m /\ U[5] = x
          /\ T[1] = "address"
      BY SwapTypesAre
    <2> HIDE DEF T, U, V
    <2>2. Word("address", WithChecksum(s.address)) = Word("address", s)
      BY DEF Word, WithChecksum, Address
    <2>3. \A i \in 1..5 : Word(T[i], U[i]) = Word(T[i], V[i])
      <3>1. Word(T[1], U[1]) = Word(T[1], V[1])
        BY ONLY <2>1, <2>2
      <3>2. QED
        BY <2>1, <3>1
    <2>4. QED
      BY <2>3 DEF FixedWords
  <1>3. TextOf(FixedWords(T, V, 5), 5)
    <2> HIDE DEF T, V
    <2>1. PICK n \in Nat : n = 5
      OBVIOUS
    <2>2. TextOf(FixedWords(T, V, n), n)
      BY FixedText
    <2>3. QED
      BY <2>1, <2>2
  <1>4. QED
    BY <1>1, <1>2, <1>3 DEF SwapText

LEMMA SwapTextRead ==
  ASSUME NEW s, NEW k \in Tokens, NEW a, NEW m, NEW x, NEW data,
         data.words = SwapText(s, k, a, m, x)
  PROVE  ParseTransaction(data)
             = [sender |-> WithChecksum(s.address), tokenType |-> k,
                inputAmount |-> a, minOutputAmount |-> m, timeout |-> x]
  <1> DEFINE V == <<s, k, a, m, x>>
             T == SwapTypes
             v == Decode(T, data)
             read == [sender |-> WithChecksum(s.address), tokenType |-> k,
                      inputAmount |-> a, minOutputAmount |-> m,
                      timeout |-> x]
  <1>1. V[1] = s /\ V[2] = k /\ V[3] = a /\ V[4] = m /\ V[5] = x
    OBVIOUS
  <1>2. /\ Decodable(T, data)
        /\ \A i \in 1..5 : v[i] = Read(T[i], Word(T[i], V[i]))
    <2>1. FixedTypes(T, 5) /\ data.words = FixedWords(T, V, 5)
      BY SwapTypesAre DEF SwapText
    <2> HIDE DEF T, V, v
    <2>2. PICK n \in Nat : n = 5
      OBVIOUS
    <2>3. FixedTypes(T, n) /\ data.words = FixedWords(T, V, n)
      BY <2>1, <2>2
    <2>4. /\ Decodable(T, data)
          /\ \A i \in 1..n :
                Decode(T, data)[i] = Read(T[i], Word(T[i], V[i]))
      BY ONLY n \in Nat, <2>3, FixedRead
    <2>5. QED
      BY <2>2, <2>4 DEF v
  <1> HIDE DEF V, T, v
  <1>3. /\ v[1] = Read("address", Word("address", V[1]))
        /\ v[2] = Read("uint", Word("uint", V[2]))
        /\ v[3] = Read("uint32", Word("uint32", V[3]))
        /\ v[4] = Read("uint32", Word("uint32", V[4]))
        /\ v[5] = Read("uint", Word("uint", V[5]))
    BY <1>2, SwapTypesAre DEF T
  <1>4. /\ v[1] = WithChecksum(s.address) /\ v[2] = k /\ v[3] = a
        /\ v[4] = m /\ v[5] = x
    BY <1>1, <1>3, ReadWord DEF WithChecksum
  <1>5. IsToken(v[2])
    BY <1>4 DEF IsToken
  <1>6. ParseSwap(data)
            = [sender |-> v[1], tokenType |-> v[2], inputAmount |-> v[3],
               minOutputAmount |-> v[4], timeout |-> v[5]]
    BY <1>2, <1>5 DEF ParseSwap, T, v
  <1>7. ParseSwap(data) = read
    BY <1>4, <1>6
  <1>8. read # Invalid
    <2>1. "sender" \in DOMAIN read /\ "sender" \notin DOMAIN Invalid
      BY DEF Invalid
    <2> HIDE DEF read
    <2>2. QED
      BY <2>1
  <1> HIDE DEF read
  <1>9. QED
    BY <1>7, <1>8 DEF ParseTransaction, read

LEMMA TransferTextRead ==
  ASSUME NEW s, NEW r, NEW k \in Tokens, NEW a, NEW data,
         data.words = TransferText(s, r, k, a)
  PROVE  ParseTransaction(data)
             = [sender |-> WithChecksum(s.address),
                recipient |-> WithChecksum(r.address), tokenType |-> k,
                amount |-> a]
  <1> DEFINE V == <<s, r, k, a>>
             T == TransferTypes
             v == Decode(T, data)
  <1>1. V[1] = s /\ V[2] = r /\ V[3] = k /\ V[4] = a
    OBVIOUS
  <1>2. /\ Decodable(T, data) /\ Len(data.words) = 4
        /\ \A i \in 1..4 : v[i] = Read(T[i], Word(T[i], V[i]))
    <2>1. FixedTypes(T, 4) /\ data.words = FixedWords(T, V, 4)
      BY TransferTypesAre DEF TransferText
    <2> HIDE DEF T, V, v
    <2>3. PICK n \in Nat : n = 4
      OBVIOUS
    <2>4. FixedTypes(T, n) /\ data.words = FixedWords(T, V, n)
      BY <2>1, <2>3
    <2>5. /\ Decodable(T, data)
          /\ \A i \in 1..n :
                Decode(T, data)[i] = Read(T[i], Word(T[i], V[i]))
      BY ONLY n \in Nat, <2>4, FixedRead
    <2>6. Len(data.words) = n
      BY ONLY n \in Nat, <2>4, FixedText
    <2>7. QED
      BY <2>3, <2>5, <2>6 DEF v
  <1> HIDE DEF V, T, v
  <1>3. /\ v[1] = Read("address", Word("address", V[1]))
        /\ v[2] = Read("address", Word("address", V[2]))
        /\ v[3] = Read("uint", Word("uint", V[3]))
        /\ v[4] = Read("uint32", Word("uint32", V[4]))
    BY <1>2, TransferTypesAre DEF T
  <1>4. /\ v[1] = WithChecksum(s.address) /\ v[2] = WithChecksum(r.address)
        /\ v[3] = k /\ v[4] = a
    BY <1>1, <1>3, ReadWord DEF WithChecksum
  <1>5. IsToken(v[3])
    BY <1>4 DEF IsToken
  <1>6. ParseTransfer(data)
            = [sender |-> v[1], recipient |-> v[2], tokenType |-> v[3],
               amount |-> v[4]]
    BY <1>2, <1>5 DEF ParseTransfer, T, v
  <1>7. ParseSwap(data) = Invalid
    <2>1. Len(SwapTypes) = 5
      BY SwapTypesAre DEF FixedTypes
    <2>2. ~Decodable(SwapTypes, data)
      BY <1>2, <2>1 DEF Decodable
    <2>3. QED
      BY <2>2 DEF ParseSwap
  <1>8. QED
    BY <1>4, <1>6, <1>7 DEF ParseTransaction

-----------------------------------------------------------------------------
(***************************************************************************)
(* Formats that end in two contents: the signed transaction and the        *)
(* receipt.                                                                *)
(***************************************************************************)
\* Bytes of n words, with their number in front.
Sized(words, n, size) ==
    [i \in 1..(n + 1) |-> IF i = 1 THEN size ELSE words[i - 1]]

LEMMA SizedIs ==
  ASSUME NEW n \in Nat, NEW words, TextOf(words, n), NEW size
  PROVE  /\ Appended("bytes", TextWritten(words, size)) = Sized(words, n, size)
         /\ Len(Sized(words, n, size)) = n + 1
         /\ \E S : Sized(words, n, size) \in Seq(S)
         /\ Sized(words, n, size)[1] = size
         /\ \A i \in 1..n : Sized(words, n, size)[i + 1] = words[i]
  <1> DEFINE b == Sized(words, n, size)
             one == <<size>>
             S == {b[i] : i \in 1..(n + 1)}
  <1>1. Appended("bytes", TextWritten(words, size)) = one \o words
    BY DEF Appended, TextWritten, Hex
  <1>2. one \o words = b
    <2>1. DOMAIN one = 1..1 /\ one = [i \in 1..1 |-> one[i]] /\ one[1] = size
      OBVIOUS
    <2> HIDE DEF one, b
    <2>2. PICK p \in Nat : p = 1
      OBVIOUS
    <2>3. /\ DOMAIN one = 1..p /\ one = [i \in 1..p |-> one[i]]
          /\ DOMAIN words = 1..n /\ words = [i \in 1..n |-> words[i]]
      BY <2>1, <2>2 DEF TextOf
    <2>4. one \o words = [i \in 1..(p + n) |-> IF i <= p THEN one[i]
                                               ELSE words[i - p]]
      BY <2>3, JoinIs
    <2>5. b = [i \in 1..(n + 1) |-> IF i = 1 THEN size ELSE words[i - 1]]
      BY DEF b, Sized
    <2>6. /\ p + n = n + 1
          /\ \A i \in 1..(n + 1) : (i <= p <=> i = 1) /\ i - p = i - 1
      BY <2>2
    <2>7. QED
      BY <2>1, <2>2, <2>4, <2>5, <2>6
  <1>3. /\ DOMAIN b = 1..(n + 1) /\ b = [i \in 1..(n + 1) |-> b[i]]
        /\ b[1] = size /\ \A i \in 1..n : b[i + 1] = words[i]
    BY DEF Sized
  <1> HIDE DEF b
  <1>4. b \in [1..(n + 1) -> S]
    BY <1>3
  <1> HIDE DEF S, one
  <1>5. Len(b) = n + 1 /\ b \in Seq(S)
    <2>1. n + 1 \in Nat
      OBVIOUS
    <2>2. QED
      BY <1>4, <2>1
  <1>6. QED
    BY <1>1, <1>2, <1>3, <1>5 DEF b

\* The text of n values of which the last two have the contents a, of p
\* words, and b, of q words.
TwoText(w, types, values, n, a, p, b, q) ==
    /\ TextOf(w, n + p + q)
    /\ \A i \in 1..(n - 2) : w[i] = Word(types[i], values[i])
    /\ w[n - 1] = 32 * n /\ w[n] = 32 * (n + p)
    /\ \A i \in 1..p : w[n + i] = a[i]
    /\ \A i \in 1..q : w[n + p + i] = b[i]

LEMMA TwoWritten ==
  ASSUME NEW n \in Nat, n >= 2, NEW types, TwoTypes(types, n), NEW values,
         NEW p \in Nat, NEW q \in Nat, NEW a, NEW b, TextOf(a, p),
         TextOf(b, q), LastTwoAre(types, values, n, a, b)
  PROVE  LET w == Encode(types, values).words
         IN  /\ Encode(types, values) = TextWritten(w, 32 * (n + p + q))
             /\ TwoText(w, types, values, n, a, p, b, q)
  <1> DEFINE S == {a[i] : i \in 1..p} \cup {b[i] : i \in 1..q}
             w == TwoTailWords(types, values, n, a, b)
             e == Encode(types, values)
  <1>1. a \in Seq(S) /\ Len(a) = p
    <2>1. a \in [1..p -> S]
      BY DEF TextOf
    <2> HIDE DEF S
    <2>2. QED
      BY <2>1
  <1>2. b \in Seq(S) /\ Len(b) = q
    <2>1. b \in [1..q -> S]
      BY DEF TextOf
    <2> HIDE DEF S
    <2>2. QED
      BY <2>1
  <1> HIDE DEF S
  <1>4. e = Hex(w, 32 * (n + Len(a) + Len(b)), TRUE)
    <2>1. a \in Seq(S) /\ b \in Seq(S)
      BY <1>1, <1>2
    <2>2. n >= 2 /\ TwoTypes(types, n) /\ LastTwoAre(types, values, n, a, b)
      OBVIOUS
    <2>3. QED
      <3>1. Encode(types, values) = TwoTailText(types, values, n, a, b)
        BY ONLY n \in Nat, <2>1, <2>2, TwoTails
      <3>2. QED
        BY <3>1 DEF TwoTailText
  <1> HIDE DEF e
  <1>5. /\ TextOf(w, n + p + q)
        /\ \A i \in 1..(n - 2) : w[i] = Word(types[i], values[i])
        /\ w[n - 1] = 32 * n /\ w[n] = 32 * (n + p)
    BY <1>1, <1>2 DEF TwoTailWords, TextOf
  <1>6. ASSUME NEW i \in 1..(n + p + q)
        PROVE  w[i] = IF i < n - 1 THEN Word(types[i], values[i])
                      ELSE IF i = n - 1 THEN 32 * n
                      ELSE IF i = n THEN 32 * (n + p)
                      ELSE IF i <= n + p THEN a[i - n] ELSE b[i - (n + p)]
    BY <1>1, <1>2 DEF TwoTailWords
  <1> HIDE DEF w
  <1>7. ASSUME NEW i \in 1..p
        PROVE  w[n + i] = a[i]
    <2>1. PICK j \in 1..(n + p + q) : j = n + i
      OBVIOUS
    <2>2. /\ ~(j < n - 1) /\ j # n - 1 /\ j # n /\ j <= n + p /\ j - n = i
      BY <2>1
    <2>3. QED
      BY <1>6, <2>1, <2>2
  <1>8. ASSUME NEW i \in 1..q
        PROVE  w[n + p + i] = b[i]
    <2>1. PICK j \in 1..(n + p + q) : j = n + p + i
      OBVIOUS
    <2>2. /\ ~(j < n - 1) /\ j # n - 1 /\ j # n /\ ~(j <= n + p)
          /\ j - (n + p) = i
      BY <2>1
    <2>3. QED
      BY <1>6, <2>1, <2>2
  <1>9. e.words = w /\ e = TextWritten(w, 32 * (n + p + q))
    BY <1>1, <1>2, <1>4 DEF TextWritten, Hex
  <1>10. QED
    BY <1>5, <1>7, <1>8, <1>9 DEF TwoText, e

LEMMA SignedTransactionTypesAre ==
  /\ TwoTypes(SignedTransactionTypes, 2)
  /\ SignedTransactionTypes[1] = "bytes" /\ SignedTransactionTypes[2] = "bytes"
  <1> DEFINE T == SignedTransactionTypes
  <1>1. DOMAIN T = 1..2 /\ Len(T) = 2 /\ T[1] = "bytes" /\ T[2] = "bytes"
    BY DEF SignedTransactionTypes
  <1> HIDE DEF T
  <1>2. /\ T[2 - 1] = "bytes" /\ Dynamic("bytes")
        /\ \A i \in 1..(2 - 2) : ~Dynamic(T[i])
    BY <1>1 DEF Dynamic
  <1>3. QED
    BY <1>1, <1>2 DEF T, TwoTypes

\* The text of a signed transaction is read as the signature and the text of
\* the transaction.
LEMMA SignedTextRead ==
  ASSUME NEW n \in Nat \ {0}, NEW words, TextOf(words, n), NEW size \in Nat,
         size = 32 * n
  PROVE  LET P == TextWritten(words, size)
             data == Encode(SignedTransactionTypes, <<Signature, P>>)
         IN  ParseSignedTransaction(data)
                 = [signature |-> Signature, transaction |-> ParseTransaction(P)]
  <1> DEFINE P == TextWritten(words, size)
             T == SignedTransactionTypes
             V == <<Signature, P>>
             data == Encode(T, V)
             w == data.words
             a == SignatureTail
             b == Sized(words, n, size)
  <1>1. PICK two, four, q \in Nat : two = 2 /\ four = 4 /\ q = n + 1
    OBVIOUS
  <1>2. /\ Appended("bytes", P) = b /\ Len(b) = n + 1 /\ b[1] = size
        /\ \A i \in 1..n : b[i + 1] = words[i]
    BY SizedIs
  <1>3. TextOf(a, four) /\ TextOf(b, q)
    <2>1. a = [i \in 1..4 |-> a[i]] /\ DOMAIN a = 1..4
      BY SignatureIs DEF SignatureTail
    <2>2. b = [i \in 1..(n + 1) |-> b[i]] /\ DOMAIN b = 1..(n + 1)
      BY DEF Sized
    <2> HIDE DEF a, b
    <2>3. QED
      BY <1>1, <2>1, <2>2 DEF TextOf
  <1>4. V[1] = Signature /\ V[2] = P
    OBVIOUS
  <1>5. /\ T[1] = "bytes" /\ T[2] = "bytes" /\ DOMAIN T = 1..2 /\ Len(T) = 2
    BY SignedTransactionTypesAre DEF TwoTypes
  <1>6. TwoTypes(T, two)
    BY <1>1, SignedTransactionTypesAre
  <1> HIDE DEF P, T, V, a, b
  <1>7. LastTwoAre(T, V, two, a, b)
    BY <1>1, <1>2, <1>4, <1>5, SignatureIs DEF LastTwoAre, a
  <1>8. TwoText(w, T, V, two, a, four, b, q)
    <2>1. two >= 2
      BY <1>1
    <2>2. QED
      BY ONLY two \in Nat, four \in Nat, q \in Nat, <2>1, <1>3, <1>6, <1>7,
              TwoWritten
  <1> HIDE DEF data
  <1> DEFINE v == w
  <1>9. /\ TextOf(v, n + 7) /\ v[1] = 64 /\ v[2] = 192
        /\ \A i \in 1..4 : v[2 + i] = a[i]
        /\ \A i \in 1..(n + 1) : v[6 + i] = b[i]
    <2>1. two + four + q = n + 7 /\ 2 - 1 = 1 /\ two + four = 6
      BY <1>1
    <2> HIDE DEF v
    <2>2. QED
      BY <1>1, <1>8, <2>1 DEF TwoText, v
  <1> HIDE DEF v
  <1>10. /\ v[3] = 65 /\ \A i \in 1..3 : v[3 + i] = SignatureWords[i]
         /\ v[7] = size /\ \A i \in 1..n : v[7 + i] = words[i]
    <2>1. v[3] = 65
      <3>1. v[2 + 1] = a[1]
        BY <1>9
      <3>2. QED
        BY <3>1, SignatureIs DEF a
    <2>2. ASSUME NEW i \in 1..3
          PROVE  v[3 + i] = SignatureWords[i]
      <3>1. i + 1 \in 1..4 /\ 2 + (i + 1) = 3 + i
        OBVIOUS
      <3>2. v[2 + (i + 1)] = a[i + 1]
        BY <1>9, <3>1
      <3>3. QED
        BY <3>1, <3>2, SignatureIs DEF a
    <2>3. v[7] = size
      <3>1. 1 \in 1..(n + 1) /\ 6 + 1 = 7
        OBVIOUS
      <3>2. v[6 + 1] = b[1]
        BY <1>9, <3>1
      <3>3. QED
        BY <1>2, <3>1, <3>2
    <2>4. ASSUME NEW i \in 1..n
          PROVE  v[7 + i] = words[i]
      <3>1. i + 1 \in 1..(n + 1) /\ 6 + (i + 1) = 7 + i
        OBVIOUS
      <3>2. v[6 + (i + 1)] = b[i + 1]
        BY <1>9, <3>1
      <3>3. QED
        BY <1>2, <3>1, <3>2
    <2>5. QED
      BY <2>1, <2>2, <2>3, <2>4
  <1>11. PICK m \in Nat : m = n + 7
    OBVIOUS
  <1>12. /\ Contents("bytes", v, 64) = Signature /\ Readable("bytes", v, 64)
    <2>1. PICK at, k, c, o \in Nat : at = 3 /\ k = 3 /\ c = 65 /\ o = 64
      OBVIOUS
    <2>2. BytesAt(v, m, at, k, c) /\ o = 32 * (at - 1)
      BY <1>9, <1>10, <1>11, <2>1 DEF BytesAt
    <2>3. /\ Contents("bytes", v, o) = Hex(Slice(v, at, k), c, TRUE)
          /\ Readable("bytes", v, o)
      BY ONLY <2>2, BytesRead
    <2>4. Slice(v, at, k) = SignatureWords
      <3>1. SignatureWords = [i \in 1..3 |-> SignatureWords[i]]
        BY CodecAssumption
      <3>2. QED
        BY <1>10, <2>1, <3>1 DEF Slice
    <2>5. QED
      BY <2>1, <2>3, <2>4 DEF Signature
  <1>13. /\ Contents("bytes", v, 192) = P /\ Readable("bytes", v, 192)
    <2>1. PICK at, o \in Nat : at = 7 /\ o = 192
      OBVIOUS
    <2>2. BytesAt(v, m, at, n, size) /\ o = 32 * (at - 1)
      <3>1. (size + 31) \div 32 = n /\ size <= 32 * m /\ at + n <= m
        BY <1>11, <2>1
      <3>2. QED
        BY <1>9, <1>10, <1>11, <2>1, <3>1 DEF BytesAt
    <2>3. /\ Contents("bytes", v, o) = Hex(Slice(v, at, n), size, TRUE)
          /\ Readable("bytes", v, o)
      BY ONLY <2>2, BytesRead
    <2>4. Slice(v, at, n) = words
      BY <1>10, <2>1 DEF Slice, TextOf
    <2>5. QED
      BY <2>1, <2>3, <2>4 DEF P, TextWritten
  <1>14. Len(v) = n + 7
    <2> DEFINE S == {v[i] : i \in 1..(n + 7)}
    <2>1. v \in [1..(n + 7) -> S]
      BY <1>9 DEF TextOf
    <2> HIDE DEF S
    <2>2. n + 7 \in Nat
      OBVIOUS
    <2>3. QED
      BY <2>1, <2>2
  <1>15. Decodable(T, data)
    <2>1. \A i \in 1..2 : Readable(T[i], v, v[i])
      BY <1>5, <1>9, <1>12, <1>13
    <2>2. 2 <= Len(v)
      BY <1>14
    <2>3. QED
      BY <1>5, <2>1, <2>2 DEF Decodable, v
  <1>16. Decode(T, data)[1] = Signature /\ Decode(T, data)[2] = P
    <2>1. Dynamic(T[1]) /\ Dynamic(T[2])
      BY <1>5 DEF Dynamic
    <2>2. /\ Decode(T, data)[1] = Contents(T[1], v, v[1])
          /\ Decode(T, data)[2] = Contents(T[2], v, v[2])
      <3>1. \A i \in DOMAIN T : Dynamic(T[i]) =>
               Decode(T, data)[i]
                   = Contents(T[i], data.words, data.words[i])
        BY DEF Decode, Dynamic
      <3>2. QED
        BY <1>5, <2>1, <3>1 DEF v
    <2>3. QED
      BY <1>5, <1>9, <1>12, <1>13, <2>2
  <1>17. ParseSignedTransaction(data)
             = [signature |-> Signature, transaction |-> ParseTransaction(P)]
    BY <1>15, <1>16 DEF ParseSignedTransaction, T
  <1>18. QED
    BY <1>17 DEF data, T, V, P

-----------------------------------------------------------------------------
(***************************************************************************)
(* The state and its receipt.                                              *)
(***************************************************************************)
LEMMA StateTypesAre ==
  /\ FixedTypes(StateTypes, 3)
  /\ StateTypes[1] = "address" /\ StateTypes[2] = "uint32"
  /\ StateTypes[3] = "uint32"
  <1> DEFINE T == StateTypes
  <1>1. /\ DOMAIN T = 1..3 /\ Len(T) = 3
        /\ T[1] = "address" /\ T[2] = "uint32" /\ T[3] = "uint32"
    BY DEF StateTypes
  <1> HIDE DEF T
  <1>2. \A i \in 1..3 : ~Dynamic(T[i])
    BY <1>1 DEF Dynamic
  <1>3. QED
    BY <1>1, <1>2 DEF T, FixedTypes

StateText(c, b0, b1) == FixedWords(StateTypes, <<c, b0, b1>>, 3)

StateRecord(c, balances) == [pubkey |-> c, balances |-> balances]

LEMMA StateWritten ==
  ASSUME NEW c, NEW balances
  PROVE  /\ Encoded(StateForm(StateRecord(c, balances)))
                = TextWritten(StateText(c, balances[0], balances[1]), 96)
         /\ StateText(WithChecksum(c.address), balances[0], balances[1])
                = StateText(c, balances[0], balances[1])
         /\ TextOf(StateText(c, balances[0], balances[1]), 3)
  <1>1. PICK b0, b1 : b0 = balances[0] /\ b1 = balances[1]
    OBVIOUS
  <1> DEFINE V == <<c, b0, b1>>
             T == StateTypes
             U == <<WithChecksum(c.address), b0, b1>>
  <1>2. Encoded(StateForm(StateRecord(c, balances))) = Encode(T, V)
    BY <1>1 DEF Encoded, StateForm, StateRecord
  <1>3. Encode(T, V) = TextWritten(FixedWords(T, V, 3), 96)
    <2>1. FixedTypes(T, 3) /\ 96 = 32 * 3
      BY StateTypesAre
    <2> HIDE DEF T, V
    <2>2. PICK n \in Nat : n = 3
      OBVIOUS
    <2>3. PICK size : size = 96
      OBVIOUS
    <2>4. FixedTypes(T, n) /\ size = 32 * n
      BY <2>1, <2>2, <2>3
    <2>5. Encode(T, V) = TextWritten(FixedWords(T, V, n), size)
      BY ONLY n \in Nat, <2>4, FixedWritten
    <2>6. QED
      BY <2>2, <2>3, <2>5
  <1>4. FixedWords(T, U, 3) = FixedWords(T, V, 3)
    <2>1. /\ V[1] = c /\ V[2] = b0 /\ V[3] = b1
          /\ U[1] = WithChecksum(c.address)
          /\ U[2] = b0 /\ U[3] = b1
          /\ T[1] = "address"
      BY StateTypesAre
    <2> HIDE DEF T, U, V
    <2>2. Word("address", WithChecksum(c.address)) = Word("address", c)
      BY DEF Word, WithChecksum, Address
    <2>3. \A i \in 1..3 : Word(T[i], U[i]) = Word(T[i], V[i])
      <3>1. Word(T[1], U[1]) = Word(T[1], V[1])
        BY ONLY <2>1, <2>2
      <3>2. QED
        BY <2>1, <3>1
    <2>4. QED
      BY <2>3 DEF FixedWords
  <1>5. TextOf(FixedWords(T, V, 3), 3)
    <2> HIDE DEF T, V
    <2>1. PICK n \in Nat : n = 3
      OBVIOUS
    <2>2. TextOf(FixedWords(T, V, n), n)
      BY FixedText
    <2>3. QED
      BY <2>1, <2>2
  <1>6. QED
    BY <1>1, <1>2, <1>3, <1>4, <1>5 DEF StateText

ReadBalances(b0, b1) == [t \in Tokens |-> IF t = 0 THEN b0 ELSE b1]

LEMMA StateRead ==
  ASSUME NEW c, NEW b0, NEW b1, NEW data, data.words = StateText(c, b0, b1)
  PROVE  ParseState(data)
             = StateRecord(WithChecksum(c.address), ReadBalances(b0, b1))
  <1> DEFINE V == <<c, b0, b1>>
             T == StateTypes
             v == Decode(T, data)
  <1>1. V[1] = c /\ V[2] = b0 /\ V[3] = b1
    OBVIOUS
  <1>2. \A i \in 1..3 : v[i] = Read(T[i], Word(T[i], V[i]))
    <2>1. FixedTypes(T, 3) /\ data.words = FixedWords(T, V, 3)
      BY StateTypesAre DEF StateText
    <2> HIDE DEF T, V, v
    <2>2. PICK n \in Nat : n = 3
      OBVIOUS
    <2>3. FixedTypes(T, n) /\ data.words = FixedWords(T, V, n)
      BY <2>1, <2>2
    <2>4. \A i \in 1..n :
             Decode(T, data)[i] = Read(T[i], Word(T[i], V[i]))
      BY ONLY n \in Nat, <2>3, FixedRead
    <2>5. QED
      BY <2>2, <2>4 DEF v
  <1> HIDE DEF V, T, v
  <1>3. /\ v[1] = Read("address", Word("address", V[1]))
        /\ v[2] = Read("uint32", Word("uint32", V[2]))
        /\ v[3] = Read("uint32", Word("uint32", V[3]))
    BY <1>2, StateTypesAre DEF T
  <1>4. v[1] = WithChecksum(c.address) /\ v[2] = b0 /\ v[3] = b1
    BY <1>1, <1>3, ReadWord DEF WithChecksum
  <1>5. [t \in Tokens |-> v[t + 2]] = ReadBalances(b0, b1)
    BY <1>4 DEF ReadBalances, Tokens
  <1>6. ParseState(data) = [pubkey |-> v[1],
                            balances |-> [t \in Tokens |-> v[t + 2]]]
    BY DEF ParseState, T, v
  <1>7. QED
    BY <1>4, <1>5, <1>6 DEF StateRecord

LEMMA StateReceiptTypesAre ==
  /\ TwoTypes(StateReceiptTypes, 6)
  /\ DOMAIN StateReceiptTypes = 1..6
  /\ StateReceiptTypes[1] = "bytes32" /\ StateReceiptTypes[2] = "uint"
  /\ StateReceiptTypes[3] = "uint" /\ StateReceiptTypes[4] = "uint32"
  /\ StateReceiptTypes[5] = "bytes32[]" /\ StateReceiptTypes[6] = "bytes"
  <1> DEFINE T == StateReceiptTypes
  <1>1. /\ DOMAIN T = 1..6 /\ Len(T) = 6 /\ T[1] = "bytes32" /\ T[2] = "uint"
        /\ T[3] = "uint" /\ T[4] = "uint32" /\ T[5] = "bytes32[]"
        /\ T[6] = "bytes"
    BY DEF StateReceiptTypes
  <1> HIDE DEF T
  <1>2. /\ Dynamic(T[6 - 1]) /\ Dynamic(T[6])
        /\ \A i \in 1..(6 - 2) : ~Dynamic(T[i])
    BY <1>1 DEF Dynamic
  <1>3. QED
    BY <1>1, <1>2 DEF T, TwoTypes

\* Two siblings, without and with 0x, and as they are written.
Proof == <<Hash(Sibling), Hash(Sibling)>>

Nodes == [i \in 1..2 |-> Add0x(Hash(Sibling))]

Siblings == [i \in 1..2 |-> Sibling]

LEMMA ProofIs ==
  /\ DOMAIN Proof = 1..2 /\ Proof = [i \in 1..2 |-> Hash(Sibling)]
  /\ [i \in DOMAIN Proof |-> Add0x(Proof[i])] = Nodes
  /\ [i \in DOMAIN Nodes |-> Remove0x(Nodes[i])] = Proof
  /\ \A i \in DOMAIN Proof : ~Proof[i].prefixed
  /\ Appended("bytes32[]", Nodes) = Sized(Siblings, 2, 2)
  /\ TextOf(Siblings, 2)
  <1>1. /\ DOMAIN Proof = 1..2 /\ Proof[1] = Hash(Sibling)
        /\ Proof[2] = Hash(Sibling)
    BY DEF Proof
  <1>2. Proof = [i \in 1..2 |-> Hash(Sibling)]
    <2>1. Proof = [i \in 1..2 |-> Proof[i]]
      BY DEF Proof
    <2>2. QED
      BY <1>1, <2>1
  <1>3. [i \in DOMAIN Proof |-> Add0x(Proof[i])] = Nodes
    BY <1>1 DEF Nodes
  <1>4. DOMAIN Nodes = 1..2 /\ \A i \in 1..2 : Nodes[i] = Add0x(Hash(Sibling))
    BY DEF Nodes
  <1>5. [i \in DOMAIN Nodes |-> Remove0x(Nodes[i])] = Proof
    BY <1>2, <1>4, HashText
  <1>6. \A i \in DOMAIN Proof : ~Proof[i].prefixed
    BY <1>1, HashText
  <1>7. Len(Nodes) = 2
    <2> DEFINE S == {Add0x(Hash(Sibling))}
    <2>1. Nodes \in [1..2 -> S]
      BY DEF Nodes
    <2> HIDE DEF S
    <2>2. QED
      BY <2>1
  <1>8. [i \in DOMAIN Nodes |-> Nodes[i].words[1]] = Siblings
    BY <1>4, HashText DEF Siblings
  <1>9. TextOf(Siblings, 2)
    BY DEF TextOf, Siblings
  <1>10. Appended("bytes32[]", Nodes) = <<2>> \o Siblings
    BY <1>7, <1>8 DEF Appended
  <1>11. <<2>> \o Siblings = Sized(Siblings, 2, 2)
    <2>1. PICK n, size \in Nat : n = 2 /\ size = 2
      OBVIOUS
    <2>2. TextOf(Siblings, n)
      BY <1>9, <2>1
    <2>3. Appended("bytes", TextWritten(Siblings, size)) = Sized(Siblings, n, size)
      BY ONLY n \in Nat, <2>2, SizedIs
    <2>4. Appended("bytes", TextWritten(Siblings, size)) = <<size>> \o Siblings
      BY DEF Appended, TextWritten, Hex
    <2>5. QED
      BY <2>1, <2>3, <2>4
  <1>12. QED
    BY <1>1, <1>2, <1>3, <1>5, <1>6, <1>9, <1>10, <1>11

ReceiptRecord(slot, c, balances) ==
    [stateRoot |-> Hash(Root), blockNumber |-> 1, transitionIndex |-> 0,
     slotIndex |-> slot, inclusionProof |-> Proof,
     state |-> StateRecord(c, balances)]

ReceiptText(slot, words) ==
    Encode(StateReceiptTypes,
           <<Add0x(Hash(Root)), 1, 0, slot, Nodes, TextWritten(words, 96)>>)

LEMMA ReceiptWritten ==
  ASSUME NEW slot, NEW c, NEW balances
  PROVE  Encoded(StateReceiptForm(ReceiptRecord(slot, c, balances)))
             = ReceiptText(slot, StateText(c, balances[0], balances[1]))
  <1> DEFINE r == ReceiptRecord(slot, c, balances)
             P == Encoded(StateForm(StateRecord(c, balances)))
  <1>1. /\ r.stateRoot = Hash(Root) /\ r.blockNumber = 1
        /\ r.transitionIndex = 0 /\ r.slotIndex = slot
        /\ r.inclusionProof = Proof /\ r.state = StateRecord(c, balances)
    BY DEF ReceiptRecord
  <1> HIDE DEF r, P
  <1>2. StateReceiptForm(r)
            = [types |-> StateReceiptTypes,
               values |-> <<Add0x(Hash(Root)), 1, 0, slot, Nodes, P>>]
    BY <1>1, ProofIs DEF StateReceiptForm, P
  <1>3. Encoded(StateReceiptForm(r))
            = Encode(StateReceiptTypes,
                     <<Add0x(Hash(Root)), 1, 0, slot, Nodes, P>>)
    BY <1>2 DEF Encoded
  <1>4. P = TextWritten(StateText(c, balances[0], balances[1]), 96)
    BY StateWritten DEF P
  <1>5. QED
    BY <1>3, <1>4 DEF ReceiptText, r

\* The text of a receipt, word by word.
ReceiptWords(w, slot, words) ==
    /\ TextOf(w, 13)
    /\ w[1] = Root /\ w[2] = 1 /\ w[3] = 0 /\ w[4] = slot
    /\ w[5] = 192 /\ w[6] = 288
    /\ w[7] = 2 /\ \A i \in 1..2 : w[7 + i] = Sibling
    /\ w[10] = 96 /\ \A i \in 1..3 : w[10 + i] = words[i]

LEMMA ReceiptWordsAre ==
  ASSUME NEW slot, NEW words, TextOf(words, 3)
  PROVE  ReceiptWords(ReceiptText(slot, words).words, slot, words)
  <1> DEFINE P == TextWritten(words, 96)
             T == StateReceiptTypes
             V == <<Add0x(Hash(Root)), 1, 0, slot, Nodes, P>>
             data == Encode(T, V)
             w == data.words
             a == Sized(Siblings, 2, 2)
             b == Sized(words, 3, 96)
  <1>1. PICK n, p, q, m, s \in Nat : n = 6 /\ p = 3 /\ q = 4 /\ m = 3 /\ s = 96
    OBVIOUS
  <1>2. /\ Appended("bytes", P) = b /\ b[1] = 96
        /\ \A i \in 1..3 : b[i + 1] = words[i]
    <2>1. TextOf(words, m)
      BY <1>1
    <2>2. /\ Appended("bytes", TextWritten(words, s)) = Sized(words, m, s)
          /\ Sized(words, m, s)[1] = s
          /\ \A i \in 1..m : Sized(words, m, s)[i + 1] = words[i]
      BY ONLY m \in Nat, <2>1, SizedIs
    <2>3. QED
      BY <1>1, <2>2
  <1>3. /\ Appended("bytes32[]", Nodes) = a /\ a[1] = 2
        /\ a[2] = Sibling /\ a[3] = Sibling
    BY ProofIs DEF Sized, Siblings
  <1>4. TextOf(a, p) /\ TextOf(b, q)
    BY <1>1 DEF TextOf, Sized
  <1>5. /\ V[1] = Add0x(Hash(Root)) /\ V[2] = 1 /\ V[3] = 0 /\ V[4] = slot
        /\ V[5] = Nodes /\ V[6] = P
    OBVIOUS
  <1>6. /\ T[1] = "bytes32" /\ T[2] = "uint" /\ T[3] = "uint"
        /\ T[4] = "uint32" /\ T[5] = "bytes32[]" /\ T[6] = "bytes"
    BY StateReceiptTypesAre
  <1>7. TwoTypes(T, n) /\ n >= 2
    BY <1>1, StateReceiptTypesAre
  <1> HIDE DEF P, T, V, a, b
  <1>8. LastTwoAre(T, V, n, a, b)
    <2>1. n - 1 = 5
      BY <1>1
    <2>2. QED
      BY <1>1, <1>2, <1>3, <1>5, <1>6, <2>1 DEF LastTwoAre
  <1>9. TwoText(w, T, V, n, a, p, b, q)
    BY ONLY n \in Nat, p \in Nat, q \in Nat, <1>4, <1>7, <1>8, TwoWritten
  <1> DEFINE v == w
  <1> HIDE DEF v
  <1>10. /\ TextOf(v, 13)
         /\ \A i \in 1..4 : v[i] = Word(T[i], V[i])
         /\ v[5] = 192 /\ v[6] = 288
         /\ \A i \in 1..3 : v[6 + i] = a[i]
         /\ \A i \in 1..4 : v[9 + i] = b[i]
    <2>1. /\ n + p + q = 13 /\ n - 2 = 4 /\ n - 1 = 5 /\ n + p = 9
          /\ 32 * n = 192 /\ 32 * (n + p) = 288
      BY <1>1
    <2>2. /\ TextOf(v, n + p + q)
          /\ \A i \in 1..(n - 2) : v[i] = Word(T[i], V[i])
          /\ v[n - 1] = 32 * n /\ v[n] = 32 * (n + p)
          /\ \A i \in 1..p : v[n + i] = a[i]
          /\ \A i \in 1..q : v[n + p + i] = b[i]
      BY <1>9 DEF TwoText, v
    <2>3. QED
      BY ONLY <1>1, <2>1, <2>2
  <1>11. v[1] = Root /\ v[2] = 1 /\ v[3] = 0 /\ v[4] = slot
    <2>1. /\ v[1] = Word("bytes32", V[1]) /\ v[2] = Word("uint", V[2])
          /\ v[3] = Word("uint", V[3]) /\ v[4] = Word("uint32", V[4])
      BY <1>6, <1>10
    <2>2. Word("bytes32", V[1]) = Root
      BY <1>5, HashText DEF Word
    <2>3. /\ Word("uint", V[2]) = 1 /\ Word("uint", V[3]) = 0
          /\ Word("uint32", V[4]) = slot
      BY <1>5 DEF Word
    <2>4. QED
      BY <2>1, <2>2, <2>3
  <1>12. v[7] = 2 /\ v[8] = Sibling /\ v[9] = Sibling
    <2>1. v[6 + 1] = a[1] /\ v[6 + 2] = a[2] /\ v[6 + 3] = a[3]
      BY <1>10
    <2>2. QED
      BY <1>3, <2>1
  <1>13. v[10] = 96 /\ \A i \in 1..3 : v[10 + i] = words[i]
    <2>1. v[9 + 1] = b[1]
      BY <1>10
    <2>2. ASSUME NEW i \in 1..3
          PROVE  v[10 + i] = words[i]
      <3>1. i + 1 \in 1..4 /\ 9 + (i + 1) = 10 + i
        OBVIOUS
      <3>2. v[9 + (i + 1)] = b[i + 1]
        BY <1>10, <3>1
      <3>3. QED
        BY <1>2, <3>1, <3>2
    <2>3. QED
      BY <1>2, <2>1, <2>2
  <1>14. \A i \in 1..2 : v[7 + i] = Sibling
    BY <1>12
  <1>15. ReceiptWords(v, slot, words)
    BY <1>10, <1>11, <1>12, <1>13, <1>14 DEF ReceiptWords
  <1>16. w = ReceiptText(slot, words).words
    BY DEF ReceiptText, T, V, P
  <1>17. QED
    BY <1>15, <1>16 DEF v

LEMMA ReceiptTextRead ==
  ASSUME NEW slot, NEW c, NEW b0, NEW b1
  PROVE  ParseStateReceipt(ReceiptText(slot, StateText(c, b0, b1)))
             = ReceiptRecord(slot, WithChecksum(c.address),
                             ReadBalances(b0, b1))
  <1> DEFINE words == StateText(c, b0, b1)
             data == ReceiptText(slot, words)
             w == data.words
             T == StateReceiptTypes
             v == Decode(T, data)
  <1>1. TextOf(words, 3)
    <2>1. PICK n \in Nat : n = 3
      OBVIOUS
    <2>2. TextOf(FixedWords(StateTypes, <<c, b0, b1>>, n), n)
      BY FixedText
    <2>3. QED
      BY <2>1, <2>2 DEF StateText
  <1>2. ReceiptWords(w, slot, words)
    BY <1>1, ReceiptWordsAre
  <1> HIDE DEF words, data
  <1>3. /\ TextOf(w, 13)
        /\ w[1] = Root /\ w[2] = 1 /\ w[3] = 0 /\ w[4] = slot
        /\ w[5] = 192 /\ w[6] = 288
        /\ w[7] = 2 /\ \A i \in 1..2 : w[7 + i] = Sibling
        /\ w[10] = 96 /\ \A i \in 1..3 : w[10 + i] = words[i]
    BY <1>2 DEF ReceiptWords
  <1>4. /\ DOMAIN T = 1..6 /\ T[1] = "bytes32" /\ T[2] = "uint"
        /\ T[3] = "uint" /\ T[4] = "uint32" /\ T[5] = "bytes32[]"
        /\ T[6] = "bytes"
    BY StateReceiptTypesAre
  <1> HIDE DEF T
  <1>5. /\ v[1] = Add0x(Hash(w[1])) /\ v[2] = w[2] /\ v[3] = w[3]
        /\ v[4] = w[4] /\ v[5] = Contents("bytes32[]", w, w[5])
        /\ v[6] = Contents("bytes", w, w[6])
    <2>1. /\ v[1] = Add0x(Hash(w[1])) /\ v[2] = w[2] /\ v[3] = w[3]
          /\ v[4] = w[4]
      <3>1. \A i \in DOMAIN T : ~Dynamic(T[i]) => v[i] = Read(T[i], w[i])
        BY DEF Decode, Read
      <3>2. /\ v[1] = Read("bytes32", w[1]) /\ v[2] = Read("uint", w[2])
            /\ v[3] = Read("uint", w[3]) /\ v[4] = Read("uint32", w[4])
        BY <1>4, <3>1 DEF Dynamic
      <3>3. QED
        BY <3>2 DEF Read
    <2>2. \A i \in DOMAIN T : Dynamic(T[i]) => v[i] = Contents(T[i], w, w[i])
      BY DEF Decode, Dynamic
    <2>3. QED
      BY <1>4, <2>1, <2>2 DEF Dynamic
  <1> HIDE DEF w, v
  <1>6. Contents("bytes32[]", w, 192) = Nodes
    <2>1. LengthAt(192) = 7 /\ 192 % 32 = 0 /\ Units("bytes32[]", 2) = 2
      BY DEF LengthAt, Units
    <2>2. SubSeq(w, 8, 9) = Slice(w, 7, 2)
      <3>1. PICK n, a \in Nat : n = 13 /\ a = 7
        OBVIOUS
      <3>2. PICK k \in Nat \ {0} : k = 2
        OBVIOUS
      <3>3. TextOf(w, n) /\ a + k <= n
        BY <1>3, <3>1, <3>2
      <3>4. SubSeq(w, a + 1, a + k) = Slice(w, a, k)
        BY ONLY n \in Nat, a \in Nat, k \in Nat \ {0}, <3>3, SliceIs
      <3>5. QED
        BY <3>1, <3>2, <3>4
    <2>3. Slice(w, 7, 2) = Siblings
      BY <1>3 DEF Slice, Siblings
    <2> DEFINE read == SubSeq(w, LengthAt(192) + 1,
                              LengthAt(192)
                                  + Units("bytes32[]", w[LengthAt(192)]))
    <2>4. read = Siblings
      <3>1. /\ LengthAt(192) + 1 = 8
            /\ LengthAt(192) + Units("bytes32[]", w[LengthAt(192)]) = 9
        BY <1>3, <2>1
      <3>2. read = SubSeq(w, 8, 9)
        BY ONLY <3>1
      <3>3. QED
        BY <2>2, <2>3, <3>2
    <2>5. Contents("bytes32[]", w, 192)
              = [i \in DOMAIN read |-> Add0x(Hash(read[i]))]
      BY <2>1 DEF Contents
    <2> HIDE DEF read
    <2>6. QED
      BY <2>4, <2>5 DEF Siblings, Nodes
  <1>7. Contents("bytes", w, 288).words = words
    <2>1. PICK n, at, k, b, o \in Nat :
              n = 13 /\ at = 10 /\ k = 3 /\ b = 96 /\ o = 288
      OBVIOUS
    <2>2. BytesAt(w, n, at, k, b) /\ o = 32 * (at - 1)
      BY <1>3, <2>1 DEF BytesAt
    <2>3. Contents("bytes", w, o) = Hex(Slice(w, at, k), b, TRUE)
      BY ONLY <2>2, BytesRead
    <2>4. Slice(w, at, k) = words
      BY <1>1, <1>3, <2>1 DEF Slice, TextOf
    <2>5. QED
      BY <2>1, <2>3, <2>4 DEF Hex
  <1>8. /\ v[1] = Add0x(Hash(Root)) /\ v[2] = 1 /\ v[3] = 0 /\ v[4] = slot
        /\ v[5] = Nodes /\ v[6].words = words
    BY <1>3, <1>5, <1>6, <1>7
  <1>9. ParseState(v[6]) = StateRecord(WithChecksum(c.address),
                                       ReadBalances(b0, b1))
    BY <1>8, StateRead DEF words
  <1>10. Remove0x(v[1]) = Hash(Root)
    BY <1>8, HashText
  <1>11. [i \in DOMAIN v[5] |-> Remove0x(v[5][i])] = Proof
    BY <1>8, ProofIs
  <1>12. ParseStateReceipt(data)
             = [stateRoot |-> Remove0x(v[1]), blockNumber |-> v[2],
                transitionIndex |-> v[3], slotIndex |-> v[4],
                inclusionProof |-> [i \in DOMAIN v[5] |-> Remove0x(v[5][i])],
                state |-> ParseState(v[6])]
    BY DEF ParseStateReceipt, T, v
  <1>13. ParseStateReceipt(data)
             = ReceiptRecord(slot, WithChecksum(c.address),
                             ReadBalances(b0, b1))
    BY <1>8, <1>9, <1>10, <1>11, <1>12 DEF ReceiptRecord
  <1>14. QED
    BY <1>13 DEF data, words

\* A receipt that was read has the texts of the one that was made.
LEMMA ReceiptKept ==
  ASSUME NEW slot, NEW c, NEW balances
  PROVE  LET data == Encoded(StateReceiptForm(
                                 ReceiptRecord(slot, c, balances)))
         IN  \E d, read :
                /\ ParseStateReceipt(data) = ReceiptRecord(slot, d, read)
                /\ Encoded(StateReceiptForm(ReceiptRecord(slot, d, read)))
                       = data
                /\ Encoded(StateForm(StateRecord(d, read)))
                       = Encoded(StateForm(StateRecord(c, balances)))
  <1>1. PICK b0, b1 : b0 = balances[0] /\ b1 = balances[1]
    OBVIOUS
  <1>2. PICK d : d = WithChecksum(c.address)
    OBVIOUS
  <1>3. PICK read : read = ReadBalances(b0, b1)
    OBVIOUS
  <1>4. read[0] = b0 /\ read[1] = b1
    BY <1>3 DEF ReadBalances, Tokens
  <1>5. StateText(d, read[0], read[1]) = StateText(c, b0, b1)
    BY <1>1, <1>2, <1>4, StateWritten
  <1>6. Encoded(StateReceiptForm(ReceiptRecord(slot, c, balances)))
            = ReceiptText(slot, StateText(c, b0, b1))
    BY <1>1, ReceiptWritten
  <1>7. Encoded(StateReceiptForm(ReceiptRecord(slot, d, read)))
            = ReceiptText(slot, StateText(c, b0, b1))
    BY <1>5, ReceiptWritten
  <1>8. ParseStateReceipt(ReceiptText(slot, StateText(c, b0, b1)))
            = ReceiptRecord(slot, d, read)
    BY <1>2, <1>3, ReceiptTextRead
  <1>9. Encoded(StateForm(StateRecord(d, read)))
            = Encoded(StateForm(StateRecord(c, balances)))
    <2>1. /\ Encoded(StateForm(StateRecord(d, read)))
                 = TextWritten(StateText(d, read[0], read[1]), 96)
          /\ Encoded(StateForm(StateRecord(c, balances)))
                 = TextWritten(StateText(c, b0, b1), 96)
      BY <1>1, StateWritten
    <2>2. QED
      BY <1>5, <2>1
  <1>10. QED
    BY <1>6, <1>7, <1>8, <1>9

-----------------------------------------------------------------------------
(***************************************************************************)
(* The invariant.                                                          *)
(***************************************************************************)
RequestOf(tx) ==
    [signature |-> Signature, transaction |-> tx,
     preimage |-> Encoded(TransactionForm(tx))]

Requests == TransferTransactions \cup SwapTransactions

\* t is a transition that the aggregator may make of tx.
MadeOf(t, tx) ==
    \/ /\ IsSwap(tx)
       /\ \E f : t = SwapRecord(f, tx.tokenType, tx.inputAmount,
                                tx.minOutputAmount, tx.timeout)
    \/ /\ ~IsSwap(tx)
       /\ \E f, r : t = TransferRecord(f, r, tx.tokenType, tx.amount)
    \/ /\ ~IsSwap(tx) /\ tx.recipient.address # Uniswap
       /\ \E f, r : t = CreateRecord(f, r, tx.recipient, tx.tokenType,
                                     tx.amount)

RequestIsSigned ==
    request = Nothing \/ \E tx \in Requests : request = RequestOf(tx)

\* Before the transition is made there is nothing of it.
NothingBefore ==
    built = Nothing =>
        /\ inBlock = Nothing /\ queued = Nothing /\ guard = Nothing
        /\ posted = Nothing /\ receipt = Nothing /\ signed = Nothing
        /\ disk = [aggregator |-> Nothing, submitter |-> Nothing]

MadeOfRequest ==
    built # Nothing =>
        \E tx \in Requests : request = RequestOf(tx) /\ MadeOf(built, tx)

Copies ==
    built # Nothing /\ ~CreatesTokenAddress(built) =>
        /\ inBlock \in {Nothing, built, Checksummed(built)}
        /\ queued \in {Nothing, built, Checksummed(built)}
        /\ guard \in {Nothing, Checksummed(built)}
        /\ guard # Nothing => posted # Nothing

Texts ==
    built # Nothing /\ ~CreatesTokenAddress(built) =>
        LET data == Encoded(TransitionForm(built))
        IN  /\ posted \in {Nothing, data}
            /\ \E d \in {Nothing, data} :
                   disk = [aggregator |-> data, submitter |-> d]

SignedReceipt(r, s) ==
    \E slot, c, balances :
        /\ r = ReceiptRecord(slot, c, balances)
        /\ s = [receipt |-> Encoded(StateReceiptForm(r)),
                leaf |-> Encoded(StateForm(StateRecord(c, balances)))]

ReceiptIsSigned ==
    \/ receipt = Nothing /\ signed = Nothing
    \/ SignedReceipt(receipt, signed)

CodecInv ==
    /\ RequestIsSigned /\ NothingBefore /\ MadeOfRequest
    /\ Copies /\ Texts /\ ReceiptIsSigned

LEMMA TransactionsAre ==
  ASSUME NEW tx \in Requests
  PROVE  \/ /\ IsSwap(tx) /\ tx.tokenType \in Tokens
            /\ tx = [sender |-> tx.sender, tokenType |-> tx.tokenType,
                     inputAmount |-> tx.inputAmount,
                     minOutputAmount |-> tx.minOutputAmount,
                     timeout |-> tx.timeout]
            /\ WithChecksum(tx.sender.address) = tx.sender
         \/ /\ ~IsSwap(tx) /\ tx.tokenType \in Tokens
            /\ tx = [sender |-> tx.sender, recipient |-> tx.recipient,
                     tokenType |-> tx.tokenType, amount |-> tx.amount]
            /\ WithChecksum(tx.sender.address) = tx.sender
            /\ tx.recipient.address \in Clients \cup {Uniswap}
            /\ tx.recipient = Address(tx.recipient.address,
                                      tx.recipient.checksum)
  <1>1. CASE tx \in SwapTransactions
    <2>1. IsSwap(tx)
      BY <1>1 DEF SwapTransactions, IsSwap
    <2>2. /\ tx.sender \in {Address(c, TRUE) : c \in Clients}
          /\ tx.tokenType \in Tokens
          /\ tx = [sender |-> tx.sender, tokenType |-> tx.tokenType,
                   inputAmount |-> tx.inputAmount,
                   minOutputAmount |-> tx.minOutputAmount,
                   timeout |-> tx.timeout]
      BY <1>1 DEF SwapTransactions
    <2>3. WithChecksum(tx.sender.address) = tx.sender
      <3>1. PICK c \in Clients : tx.sender = Address(c, TRUE)
        BY <2>2
      <3>2. tx.sender.address = c
        BY <3>1 DEF Address
      <3>3. QED
        BY <3>1, <3>2 DEF WithChecksum
    <2>4. QED
      BY <2>1, <2>2, <2>3
  <1>2. CASE tx \in TransferTransactions
    <2>1. ~IsSwap(tx)
      BY <1>2 DEF TransferTransactions, IsSwap
    <2> DEFINE S == {Address(c, TRUE) : c \in Clients}
               R == [address : Clients, checksum : BOOLEAN]
                        \cup {Address(Uniswap, TRUE)}
    <2>0. tx \in [sender : S, recipient : R, tokenType : Tokens,
                  amount : Amounts]
      BY <1>2 DEF TransferTransactions
    <2> HIDE DEF S, R
    <2>2. /\ tx.sender \in S /\ tx.tokenType \in Tokens /\ tx.recipient \in R
          /\ tx = [sender |-> tx.sender, recipient |-> tx.recipient,
                   tokenType |-> tx.tokenType, amount |-> tx.amount]
      BY <2>0
    <2>3. WithChecksum(tx.sender.address) = tx.sender
      <3>0. tx.sender \in S
        BY <2>2
      <3>1. PICK c \in Clients : tx.sender = Address(c, TRUE)
        BY <3>0 DEF S
      <3>2. tx.sender.address = c
        BY <3>1 DEF Address
      <3>3. QED
        BY <3>1, <3>2 DEF WithChecksum
    <2>4. /\ tx.recipient.address \in Clients \cup {Uniswap}
          /\ tx.recipient = Address(tx.recipient.address,
                                    tx.recipient.checksum)
      <3>1. PICK c \in Clients \cup {Uniswap}, k \in BOOLEAN :
                tx.recipient = Address(c, k)
        <4>1. tx.recipient \in R
          BY <2>2
        <4>2. CASE tx.recipient = Address(Uniswap, TRUE)
          BY <4>2
        <4>3. CASE tx.recipient \in [address : Clients, checksum : BOOLEAN]
          <5>1. PICK p : p = tx.recipient
            OBVIOUS
          <5>2. /\ p.address \in Clients /\ p.checksum \in BOOLEAN
                /\ p = [address |-> p.address, checksum |-> p.checksum]
            BY <4>3, <5>1
          <5>3. QED
            BY <5>1, <5>2 DEF Address
        <4>4. QED
          BY <4>1, <4>2, <4>3 DEF R
      <3>2. tx.recipient.address = c /\ tx.recipient.checksum = k
        BY <3>1 DEF Address
      <3>3. QED
        BY <3>1, <3>2
    <2>5. QED
      BY <2>1, <2>2, <2>3, <2>4
  <1>3. QED
    BY <1>1, <1>2 DEF Requests

\* What the aggregator makes is a transition, and the contract computes from
\* it what was signed.
LEMMA MadeOfIs ==
  ASSUME NEW tx \in Requests, NEW t, MadeOf(t, tx)
  PROVE  /\ ATransition(t) \/ CreatesTokenAddress(t)
         /\ t # Nothing
         /\ PreimageOfContract(Checksummed(t), tx.sender, RecipientOf(tx))
                = Encoded(TransactionForm(tx))
  <1>1. tx.tokenType \in Tokens
    BY TransactionsAre
  <1>2. CASE IsSwap(tx)
    <2>1. PICK f : t = SwapRecord(f, tx.tokenType, tx.inputAmount,
                                  tx.minOutputAmount, tx.timeout)
      BY <1>2 DEF MadeOf
    <2>2. ASwap(t)
      BY <1>1, <2>1 DEF ASwap
    <2>3. /\ IsSwapTransition(t) /\ ~IsCreateAndTransferTransition(t)
          /\ t.tokenType = tx.tokenType /\ t.inputAmount = tx.inputAmount
          /\ t.minOutputAmount = tx.minOutputAmount
          /\ t.timeout = tx.timeout
          /\ "stateRoot" \in DOMAIN t
      BY <2>1 DEF SwapRecord, IsSwapTransition,
                  IsCreateAndTransferTransition
    <2>4. Checksummed(t) = t
      BY <2>3 DEF Checksummed
    <2>5. t # Nothing
      BY <2>3 DEF Nothing
    <2>6. PreimageOfContract(t, tx.sender, RecipientOf(tx))
              = Encode(SwapTypes, <<tx.sender, tx.tokenType, tx.inputAmount,
                                    tx.minOutputAmount, tx.timeout>>)
      BY <2>3 DEF PreimageOfContract
    <2>7. Encoded(TransactionForm(tx))
              = Encode(SwapTypes, <<tx.sender, tx.tokenType, tx.inputAmount,
                                    tx.minOutputAmount, tx.timeout>>)
      BY <1>2 DEF Encoded, TransactionForm
    <2>8. QED
      BY <2>2, <2>4, <2>5, <2>6, <2>7 DEF ATransition
  <1>3. CASE ~IsSwap(tx)
    <2>1. RecipientOf(tx) = tx.recipient
      BY <1>3 DEF RecipientOf
    <2>2. Encoded(TransactionForm(tx))
              = Encode(TransferTypes, <<tx.sender, tx.recipient,
                                        tx.tokenType, tx.amount>>)
      BY <1>3 DEF Encoded, TransactionForm
    <2>3. CASE \E f, r : t = TransferRecord(f, r, tx.tokenType, tx.amount)
      <3>1. PICK f, r : t = TransferRecord(f, r, tx.tokenType, tx.amount)
        BY <2>3
      <3>2. ATransfer(t)
        BY <1>1, <3>1 DEF ATransfer
      <3>3. /\ ~IsSwapTransition(t) /\ ~IsCreateAndTransferTransition(t)
            /\ t.tokenType = tx.tokenType /\ t.amount = tx.amount
            /\ "stateRoot" \in DOMAIN t
        BY <3>1 DEF TransferRecord, IsSwapTransition,
                    IsCreateAndTransferTransition
      <3>4. Checksummed(t) = t
        BY <3>3 DEF Checksummed
      <3>5. t # Nothing
        BY <3>3 DEF Nothing
      <3>6. PreimageOfContract(t, tx.sender, tx.recipient)
                = Encode(TransferTypes, <<tx.sender, tx.recipient,
                                          tx.tokenType, tx.amount>>)
        BY <3>3 DEF PreimageOfContract
      <3>7. QED
        BY <2>1, <2>2, <3>2, <3>4, <3>5, <3>6 DEF ATransition
    <2>4. CASE /\ tx.recipient.address # Uniswap
               /\ \E f, r : t = CreateRecord(f, r, tx.recipient,
                                             tx.tokenType, tx.amount)
      <3>1. PICK f, r : t = CreateRecord(f, r, tx.recipient, tx.tokenType,
                                         tx.amount)
        BY <2>4
      <3>2. /\ tx.recipient.address \in Clients
            /\ tx.recipient = Address(tx.recipient.address,
                                      tx.recipient.checksum)
        BY <1>3, <2>4, TransactionsAre
      <3>3. ACreation(t) \/ CreatesTokenAddress(t)
        <4>1. CASE tx.recipient.address \notin Tokens
          BY <1>1, <3>1, <3>2, <4>1 DEF ACreation
        <4>2. CASE tx.recipient.address \in Tokens
          <5>1. /\ "createdAccountPubkey" \in DOMAIN t
                /\ t.createdAccountPubkey = tx.recipient
            BY <3>1 DEF CreateRecord
          <5>2. QED
            BY <4>2, <5>1 DEF CreatesTokenAddress,
                              IsCreateAndTransferTransition
        <4>3. QED
          BY <4>1, <4>2
      <3>4. "stateRoot" \in DOMAIN t
        BY <3>1 DEF CreateRecord
      <3>5. t # Nothing
        BY <3>4 DEF Nothing
      <3>6. PICK u : u = Checksummed(t)
        OBVIOUS
      <3>7. u = CreateRecord(f, r, WithChecksum(tx.recipient.address),
                             tx.tokenType, tx.amount)
        BY <3>1, <3>2, <3>6, ChecksumChanged
      <3>8. /\ ~IsSwapTransition(u)
            /\ u.tokenType = tx.tokenType /\ u.amount = tx.amount
        BY <3>7 DEF CreateRecord, IsSwapTransition
      <3>9. PreimageOfContract(u, tx.sender, tx.recipient)
                = Encode(TransferTypes, <<tx.sender, tx.recipient,
                                          tx.tokenType, tx.amount>>)
        BY <3>8 DEF PreimageOfContract
      <3>10. QED
        BY <2>1, <2>2, <3>3, <3>5, <3>6, <3>9 DEF ATransition
    <2>5. QED
      BY <1>3, <2>3, <2>4 DEF MadeOf
  <1>4. QED
    BY <1>2, <1>3

\* A signed transaction is read as it was signed.
LEMMA SignedIsKept ==
  ASSUME NEW tx \in Requests, request = RequestOf(tx)
  PROVE  SignedTransactionIsKept
  <1> DEFINE P == Encoded(TransactionForm(tx))
             data == Encoded(SignedTransactionForm(request))
             read == ParseSignedTransaction(data)
  <1>1. /\ request.signature = Signature /\ request.transaction = tx
        /\ request.preimage = P
    BY DEF RequestOf
  <1>2. data = Encode(SignedTransactionTypes, <<Signature, P>>)
    BY <1>1 DEF Encoded, SignedTransactionForm
  <1>3. CASE IsSwap(tx)
    <2>1. /\ tx.tokenType \in Tokens
          /\ tx = [sender |-> tx.sender, tokenType |-> tx.tokenType,
                   inputAmount |-> tx.inputAmount,
                   minOutputAmount |-> tx.minOutputAmount,
                   timeout |-> tx.timeout]
          /\ WithChecksum(tx.sender.address) = tx.sender
      BY <1>3, TransactionsAre
    <2> DEFINE W == SwapText(tx.sender, tx.tokenType, tx.inputAmount,
                             tx.minOutputAmount, tx.timeout)
    <2>2. P = TextWritten(W, 160) /\ TextOf(W, 5)
      BY <1>3, SwapSigned DEF Encoded, TransactionForm
    <2> HIDE DEF P, data, W
    <2>3. ParseTransaction(P) = tx
      <3>1. P.words = W
        BY <2>2, WrittenIs
      <3>2. ParseTransaction(P)
                = [sender |-> WithChecksum(tx.sender.address),
                   tokenType |-> tx.tokenType,
                   inputAmount |-> tx.inputAmount,
                   minOutputAmount |-> tx.minOutputAmount,
                   timeout |-> tx.timeout]
        BY <2>1, <3>1, SwapTextRead DEF W
      <3>3. QED
        BY <2>1, <3>2
    <2>4. read = [signature |-> Signature, transaction |-> ParseTransaction(P)]
      <3>1. PICK n \in Nat \ {0} : n = 5
        OBVIOUS
      <3>2. PICK size \in Nat : size = 160
        OBVIOUS
      <3>3. TextOf(W, n) /\ size = 32 * n /\ P = TextWritten(W, size)
        BY <2>2, <3>1, <3>2
      <3>4. ParseSignedTransaction(Encode(SignedTransactionTypes,
                                          <<Signature, TextWritten(W, size)>>))
                = [signature |-> Signature,
                   transaction |-> ParseTransaction(TextWritten(W, size))]
        BY ONLY n \in Nat \ {0}, size \in Nat, <3>3, SignedTextRead
      <3>5. QED
        BY <1>2, <3>3, <3>4
    <2>5. read.signature = Signature /\ read.transaction = tx
      BY <2>3, <2>4
    <2> HIDE DEF read
    <2>6. QED
      BY <1>1, <2>5 DEF SignedTransactionIsKept, read, data, P
  <1>4. CASE ~IsSwap(tx)
    <2>1. /\ tx.tokenType \in Tokens
          /\ WithChecksum(tx.sender.address) = tx.sender
      BY <1>4, TransactionsAre
    <2> DEFINE W == TransferText(tx.sender, tx.recipient, tx.tokenType,
                                 tx.amount)
               got == [sender |-> WithChecksum(tx.sender.address),
                       recipient |-> WithChecksum(tx.recipient.address),
                       tokenType |-> tx.tokenType, amount |-> tx.amount]
    <2>2. P = TextWritten(W, 128) /\ TextOf(W, 4)
      BY <1>4, TransferSigned DEF Encoded, TransactionForm
    <2>3. ~IsSwap(got)
      BY DEF IsSwap
    <2>4. Encoded(TransactionForm(got))
              = Encode(TransferTypes,
                       <<WithChecksum(tx.sender.address),
                         WithChecksum(tx.recipient.address), tx.tokenType,
                         tx.amount>>)
      BY <2>3 DEF Encoded, TransactionForm
    <2>5. Encoded(TransactionForm(got)) = P
      <3>1. PICK s, r : /\ s = WithChecksum(tx.sender.address)
                        /\ r = WithChecksum(tx.recipient.address)
        OBVIOUS
      <3>2. Encode(TransferTypes, <<s, r, tx.tokenType, tx.amount>>)
                = TextWritten(TransferText(s, r, tx.tokenType, tx.amount), 128)
        <4>1. PICK k, a : k = tx.tokenType /\ a = tx.amount
          OBVIOUS
        <4>2. Encode(TransferTypes, <<s, r, k, a>>)
                  = TextWritten(TransferText(s, r, k, a), 128)
          BY ONLY TransferSigned
        <4>3. QED
          BY ONLY <4>1, <4>2
      <3>3. TransferText(s, r, tx.tokenType, tx.amount) = W
        <4>1. PICK u, v, k, a : /\ u = tx.sender /\ v = tx.recipient
                                /\ k = tx.tokenType /\ a = tx.amount
          OBVIOUS
        <4>2. TransferText(WithChecksum(u.address), WithChecksum(v.address),
                           k, a)
                  = TransferText(u, v, k, a)
          BY TransferTextKept
        <4>3. QED
          BY ONLY <3>1, <4>1, <4>2
      <3> HIDE DEF got, P, W
      <3>4. QED
        BY <2>2, <2>4, <3>1, <3>2, <3>3
    <2> HIDE DEF P, data, W
    <2>6. ParseTransaction(P) = got
      <3>1. P.words = W
        BY <2>2, WrittenIs
      <3>2. PICK k \in Tokens : k = tx.tokenType
        BY <2>1
      <3>3. PICK s, r, a : s = tx.sender /\ r = tx.recipient /\ a = tx.amount
        OBVIOUS
      <3>4. P.words = TransferText(s, r, k, a)
        BY <3>1, <3>2, <3>3 DEF W
      <3>5. ParseTransaction(P)
                = [sender |-> WithChecksum(s.address),
                   recipient |-> WithChecksum(r.address), tokenType |-> k,
                   amount |-> a]
        BY ONLY k \in Tokens, <3>4, TransferTextRead
      <3>6. QED
        BY <3>2, <3>3, <3>5
    <2> HIDE DEF got
    <2>7. read = [signature |-> Signature, transaction |-> ParseTransaction(P)]
      <3>1. PICK n \in Nat \ {0} : n = 4
        OBVIOUS
      <3>2. PICK size \in Nat : size = 128
        OBVIOUS
      <3>3. TextOf(W, n) /\ size = 32 * n /\ P = TextWritten(W, size)
        BY <2>2, <3>1, <3>2
      <3>4. ParseSignedTransaction(Encode(SignedTransactionTypes,
                                          <<Signature, TextWritten(W, size)>>))
                = [signature |-> Signature,
                   transaction |-> ParseTransaction(TextWritten(W, size))]
        BY ONLY n \in Nat \ {0}, size \in Nat, <3>3, SignedTextRead
      <3>5. QED
        BY <1>2, <3>3, <3>4
    <2>8. read.signature = Signature /\ read.transaction = got
      BY <2>6, <2>7
    <2> HIDE DEF read
    <2>9. /\ read.signature = request.signature
          /\ IsSwap(read.transaction) <=> IsSwap(request.transaction)
          /\ Encoded(TransactionForm(read.transaction)) = request.preimage
      BY <1>1, <1>4, <2>3, <2>5, <2>8
    <2>10. QED
      BY <2>9 DEF SignedTransactionIsKept, read, data
  <1>5. QED
    BY <1>3, <1>4

LEMMA CodecInitially ==
  CodecInit => CodecInv
  BY DEF CodecInit, CodecInv, RequestIsSigned, NothingBefore, MadeOfRequest,
         Copies, Texts, ReceiptIsSigned

LEMMA RequestThere ==
  ASSUME NEW tx
  PROVE  /\ RequestOf(tx) # Nothing /\ RequestOf(tx).transaction = tx
         /\ RequestOf(tx).signature = Signature
         /\ RequestOf(tx).preimage = Encoded(TransactionForm(tx))
  <1>1. "transaction" \in DOMAIN RequestOf(tx)
    BY DEF RequestOf
  <1>2. QED
    BY <1>1 DEF Nothing, RequestOf

\* The transition that was made, and what each reader has of it.
LEMMA BuiltIs ==
  ASSUME CodecInv, built # Nothing, ~CreatesTokenAddress(built)
  PROVE  /\ ATransition(built) /\ ReadAs(built)
         /\ Checksummed(built) # Nothing
  <1>1. PICK tx \in Requests : request = RequestOf(tx) /\ MadeOf(built, tx)
    BY DEF CodecInv, MadeOfRequest
  <1>2. ATransition(built)
    BY <1>1, MadeOfIs
  <1>3. ReadAs(built)
    BY <1>2, TransitionReadAs
  <1>4. "stateRoot" \in DOMAIN Checksummed(built)
    BY <1>3 DEF ReadAs
  <1>5. Checksummed(built) # Nothing
    BY <1>4 DEF Nothing
  <1>6. QED
    BY <1>2, <1>3, <1>5

LEMMA SendKeeps ==
  ASSUME CodecInv, NEW tx \in Requests, SendTransaction(tx)
  PROVE  CodecInv'
  <1>1. /\ request = Nothing /\ request' = RequestOf(tx)
        /\ UNCHANGED <<built, receipt, signed, inBlock, queued, disk, posted,
                       guard>>
    BY DEF SendTransaction, RequestOf
  <1>2. built = Nothing
    <2>1. SUFFICES ASSUME built # Nothing PROVE FALSE
      OBVIOUS
    <2>2. PICK x \in Requests : request = RequestOf(x)
      BY <2>1 DEF CodecInv, MadeOfRequest
    <2>3. QED
      BY <1>1, <2>2, RequestThere
  <1>3. RequestIsSigned'
    BY <1>1 DEF RequestIsSigned
  <1>4. NothingBefore' /\ MadeOfRequest' /\ Copies' /\ Texts'
    BY <1>1, <1>2 DEF CodecInv, NothingBefore, MadeOfRequest, Copies, Texts
  <1>5. ReceiptIsSigned'
    BY <1>1 DEF CodecInv, ReceiptIsSigned
  <1>6. QED
    BY <1>3, <1>4, <1>5 DEF CodecInv

LEMMA AddKeeps ==
  ASSUME CodecInv, NEW from \in SlotIndices,
         NEW to \in SlotIndices \cup {0}, NEW slot \in SlotIndices,
         NEW created \in BOOLEAN, NEW balances \in Balances,
         AddToPendingBlock(from, to, created, slot, balances)
  PROVE  CodecInv'
  <1> DEFINE tx == request.transaction
             t == IF IsSwap(tx) THEN SwapTransitionOf(tx, from)
                  ELSE TransferTransitionOf(tx, from, to, created)
             c == IF slot = from THEN tx.sender ELSE tx.recipient
             state == [pubkey |-> c, balances |-> balances]
             r == [stateRoot |-> Hash(Root), blockNumber |-> 1,
                   transitionIndex |-> 0, slotIndex |-> slot,
                   inclusionProof |-> <<Hash(Sibling), Hash(Sibling)>>,
                   state |-> state]
  <1>1. /\ request # Nothing /\ built = Nothing
        /\ to = 0 <=> RecipientOf(tx).address = Uniswap
        /\ created => to \notin {0, from}
        /\ built' = t /\ inBlock' = t
        /\ disk' = [disk EXCEPT !.aggregator = Encoded(TransitionForm(t))]
        /\ receipt' = r
        /\ signed' = [receipt |-> Encoded(StateReceiptForm(r)),
                      leaf    |-> Encoded(StateForm(state))]
        /\ UNCHANGED <<request, queued, posted, guard>>
    BY DEF AddToPendingBlock
  <1>2. PICK x \in Requests : request = RequestOf(x)
    BY <1>1 DEF CodecInv, RequestIsSigned
  <1>3. tx = x /\ request.signature = Signature
    BY <1>2, RequestThere
  <1>4. MadeOf(t, tx)
    <2>1. CASE IsSwap(tx)
      <3>1. t = SwapRecord(from, tx.tokenType, tx.inputAmount,
                           tx.minOutputAmount, tx.timeout)
        BY <1>3, <2>1 DEF SwapTransitionOf, SwapRecord
      <3> HIDE DEF tx, t
      <3>2. QED
        BY <2>1, <3>1 DEF MadeOf
    <2>2. CASE ~IsSwap(tx) /\ ~created
      <3>1. t = TransferRecord(from, to, tx.tokenType, tx.amount)
        BY <1>3, <2>2 DEF TransferTransitionOf, TransferRecord
      <3> HIDE DEF tx, t
      <3>2. QED
        BY <2>2, <3>1 DEF MadeOf
    <2>3. CASE ~IsSwap(tx) /\ created
      <3>1. t = CreateRecord(from, to, tx.recipient, tx.tokenType, tx.amount)
        BY <1>3, <2>3 DEF TransferTransitionOf, CreateRecord
      <3>2. tx.recipient.address # Uniswap
        BY <1>1, <2>3 DEF RecipientOf
      <3> HIDE DEF tx, t
      <3>3. QED
        BY <2>3, <3>1, <3>2 DEF MadeOf
    <2>4. QED
      BY <2>1, <2>2, <2>3
  <1>5. state = StateRecord(c, balances) /\ r = ReceiptRecord(slot, c, balances)
    BY DEF StateRecord, ReceiptRecord, Proof
  <1> HIDE DEF tx, t, c, r, state
  <1>6. built' # Nothing
    BY <1>1, <1>2, <1>3, <1>4, MadeOfIs
  <1>7. RequestIsSigned'
    BY <1>1 DEF CodecInv, RequestIsSigned
  <1>8. MadeOfRequest'
    BY <1>1, <1>2, <1>3, <1>4 DEF MadeOfRequest
  <1>9. /\ queued = Nothing /\ guard = Nothing /\ posted = Nothing
        /\ disk = [aggregator |-> Nothing, submitter |-> Nothing]
    BY <1>1 DEF CodecInv, NothingBefore
  <1>10. Copies'
    BY <1>1, <1>9 DEF Copies
  <1>11. disk' = [aggregator |-> Encoded(TransitionForm(t)),
                  submitter |-> Nothing]
    <2>1. PICK e : e = Encoded(TransitionForm(t))
      OBVIOUS
    <2>2. disk \in [aggregator : {Nothing}, submitter : {Nothing}]
      BY <1>9
    <2>3. PICK d : d = [disk EXCEPT !.aggregator = e]
      OBVIOUS
    <2>4. d \in [aggregator : {e}, submitter : {Nothing}]
      BY <2>2, <2>3
    <2>5. d = [aggregator |-> e, submitter |-> Nothing]
      BY ONLY <2>4
    <2>6. QED
      BY <1>1, <2>1, <2>3, <2>5
  <1>12. Texts'
    BY <1>1, <1>9, <1>11 DEF Texts
  <1>13. ReceiptIsSigned'
    BY <1>1, <1>5 DEF ReceiptIsSigned, SignedReceipt
  <1>14. NothingBefore'
    BY <1>6 DEF NothingBefore
  <1>15. QED
    BY <1>7, <1>8, <1>10, <1>12, <1>13, <1>14 DEF CodecInv

\* Once the transition is made, the request and the transition stay, and a
\* step keeps the invariant if it keeps the copies, the texts and the receipt.
LEMMA LaterKeeps ==
  ASSUME CodecInv, built # Nothing, UNCHANGED <<request, built>>,
         Copies', Texts', ReceiptIsSigned'
  PROVE  CodecInv'
  <1>1. RequestIsSigned' /\ MadeOfRequest'
    BY DEF CodecInv, RequestIsSigned, MadeOfRequest
  <1>2. NothingBefore'
    BY DEF NothingBefore
  <1>3. QED
    BY <1>1, <1>2 DEF CodecInv

LEMMA RecoverPendingKeeps ==
  ASSUME CodecInv, RecoverPending, ~CreatesTokenAddress(built)
  PROVE  CodecInv'
  <1>1. built # Nothing
    BY DEF CodecInv, NothingBefore, RecoverPending
  <1>2. ReadAs(built)
    BY <1>1, BuiltIs
  <1>3. PICK d \in {Nothing, Encoded(TransitionForm(built))} :
            disk = [aggregator |-> Encoded(TransitionForm(built)),
                    submitter |-> d]
    BY <1>1 DEF CodecInv, Texts
  <1>4. disk.aggregator = Encoded(TransitionForm(built))
    BY <1>3
  <1>5. inBlock' = Checksummed(built)
    BY <1>2, <1>4 DEF RecoverPending, ReadAs
  <1>6. UNCHANGED <<request, built, receipt, signed, queued, disk, posted,
                    guard>>
    BY DEF RecoverPending
  <1>7. Copies'
    BY <1>1, <1>5, <1>6 DEF CodecInv, Copies
  <1>8. Texts' /\ ReceiptIsSigned'
    BY <1>6 DEF CodecInv, Texts, ReceiptIsSigned
  <1>9. QED
    BY <1>1, <1>6, <1>7, <1>8, LaterKeeps

LEMMA QueueKeeps ==
  ASSUME CodecInv, QueueBlock, ~CreatesTokenAddress(built)
  PROVE  CodecInv'
  <1>1. built # Nothing
    BY DEF CodecInv, NothingBefore, QueueBlock
  <1> DEFINE data == Encoded(TransitionForm(built))
  <1>2. ReadAs(built)
    BY <1>1, BuiltIs
  <1>3. PICK d \in {Nothing, data} :
            disk = [aggregator |-> data, submitter |-> d]
    BY <1>1 DEF CodecInv, Texts
  <1>4. inBlock \in {built, Checksummed(built)}
    BY <1>1 DEF CodecInv, Copies, QueueBlock
  <1>5. Encoded(TransitionForm(inBlock)) = data
    BY <1>2, <1>4 DEF ReadAs
  <1>6. /\ UNCHANGED <<request, built, receipt, signed, inBlock, posted,
                       guard>>
        /\ queued' = inBlock
        /\ disk' = [disk EXCEPT !.submitter = data]
    BY <1>5 DEF QueueBlock
  <1>7. Copies'
    BY <1>1, <1>4, <1>6 DEF CodecInv, Copies
  <1> HIDE DEF data
  <1>8. disk' = [aggregator |-> data, submitter |-> data]
    <2>1. disk \in [aggregator : {data}, submitter : {Nothing, data}]
      BY <1>3
    <2>2. PICK e : e = [disk EXCEPT !.submitter = data]
      OBVIOUS
    <2>3. e \in [aggregator : {data}, submitter : {data}]
      BY <2>1, <2>2
    <2>4. e = [aggregator |-> data, submitter |-> data]
      BY ONLY <2>3
    <2>5. QED
      BY <1>6, <2>2, <2>4
  <1>9. Texts'
    BY <1>1, <1>6, <1>8 DEF CodecInv, Texts, data
  <1>10. ReceiptIsSigned'
    BY <1>6 DEF CodecInv, ReceiptIsSigned
  <1>11. QED
    BY <1>1, <1>6, <1>7, <1>9, <1>10, LaterKeeps

LEMMA RecoverQueueKeeps ==
  ASSUME CodecInv, RecoverQueue, ~CreatesTokenAddress(built)
  PROVE  CodecInv'
  <1>1. built # Nothing
    BY DEF CodecInv, NothingBefore, RecoverQueue
  <1>2. ReadAs(built)
    BY <1>1, BuiltIs
  <1>3. PICK d \in {Nothing, Encoded(TransitionForm(built))} :
            disk = [aggregator |-> Encoded(TransitionForm(built)),
                    submitter |-> d]
    BY <1>1 DEF CodecInv, Texts
  <1>4. disk.submitter = Encoded(TransitionForm(built))
    BY <1>3 DEF RecoverQueue
  <1>5. queued' = Checksummed(built)
    BY <1>2, <1>4 DEF RecoverQueue, ReadAs
  <1>6. UNCHANGED <<request, built, receipt, signed, inBlock, disk, posted,
                    guard>>
    BY DEF RecoverQueue
  <1>7. Copies'
    BY <1>1, <1>5, <1>6 DEF CodecInv, Copies
  <1>8. Texts' /\ ReceiptIsSigned'
    BY <1>6 DEF CodecInv, Texts, ReceiptIsSigned
  <1>9. QED
    BY <1>1, <1>6, <1>7, <1>8, LaterKeeps

LEMMA PostKeeps ==
  ASSUME CodecInv, PostBlock, ~CreatesTokenAddress(built)
  PROVE  CodecInv'
  <1>1. built # Nothing
    BY DEF CodecInv, NothingBefore, PostBlock
  <1>2. ReadAs(built)
    BY <1>1, BuiltIs
  <1>3. queued \in {built, Checksummed(built)}
    BY <1>1 DEF CodecInv, Copies, PostBlock
  <1>4. /\ posted' = Encoded(TransitionForm(built)) /\ posted' # Nothing
    BY <1>2, <1>3 DEF PostBlock, ReadAs
  <1>5. UNCHANGED <<request, built, receipt, signed, inBlock, queued, disk,
                    guard>>
    BY DEF PostBlock
  <1>6. Copies'
    BY <1>1, <1>4, <1>5 DEF CodecInv, Copies
  <1>7. Texts' /\ ReceiptIsSigned'
    BY <1>1, <1>4, <1>5 DEF CodecInv, Texts, ReceiptIsSigned
  <1>8. QED
    BY <1>1, <1>5, <1>6, <1>7, LaterKeeps

LEMMA GuardKeeps ==
  ASSUME CodecInv, GuardReads, ~CreatesTokenAddress(built)
  PROVE  CodecInv'
  <1>1. built # Nothing /\ posted # Nothing
    BY DEF CodecInv, NothingBefore, GuardReads
  <1>2. ReadAs(built)
    BY <1>1, BuiltIs
  <1>3. posted = Encoded(TransitionForm(built))
    BY <1>1 DEF CodecInv, Texts
  <1>4. guard' = Checksummed(built)
    BY <1>2, <1>3 DEF GuardReads, ReadAs
  <1>5. UNCHANGED <<request, built, receipt, signed, inBlock, queued, disk,
                    posted>>
    BY DEF GuardReads
  <1>6. Copies'
    BY <1>1, <1>4, <1>5 DEF CodecInv, Copies
  <1>7. Texts' /\ ReceiptIsSigned'
    BY <1>5 DEF CodecInv, Texts, ReceiptIsSigned
  <1>8. QED
    BY <1>1, <1>5, <1>6, <1>7, LaterKeeps

\* Nothing is said of what is read once a token type's account is created.
LEMMA TokenAddressKeeps ==
  ASSUME CodecInv, CreatesTokenAddress(built),
         \/ RecoverPending \/ QueueBlock \/ RecoverQueue \/ PostBlock
         \/ GuardReads
  PROVE  CodecInv'
  <1>1. UNCHANGED <<request, built, receipt, signed>>
    BY DEF RecoverPending, QueueBlock, RecoverQueue, PostBlock, GuardReads
  <1>2. built # Nothing
    BY DEF CodecInv, NothingBefore, RecoverPending, QueueBlock, RecoverQueue,
           PostBlock, GuardReads
  <1>3. Copies' /\ Texts'
    BY <1>1 DEF Copies, Texts
  <1>4. ReceiptIsSigned'
    BY <1>1 DEF CodecInv, ReceiptIsSigned
  <1>5. QED
    BY <1>1, <1>2, <1>3, <1>4, LaterKeeps

LEMMA ReadReceiptKeeps ==
  ASSUME CodecInv, ReadReceipt
  PROVE  CodecInv'
  <1>1. built # Nothing /\ signed # Nothing
    BY DEF CodecInv, NothingBefore, ReadReceipt
  <1>2. SignedReceipt(receipt, signed)
    BY <1>1 DEF CodecInv, ReceiptIsSigned
  <1>3. PICK slot, c, balances :
            /\ receipt = ReceiptRecord(slot, c, balances)
            /\ signed = [receipt |-> Encoded(StateReceiptForm(receipt)),
                         leaf |-> Encoded(StateForm(
                                              StateRecord(c, balances)))]
    BY <1>2 DEF SignedReceipt
  <1> DEFINE data == Encoded(StateReceiptForm(receipt))
  <1>4. PICK d, read :
            /\ ParseStateReceipt(data) = ReceiptRecord(slot, d, read)
            /\ Encoded(StateReceiptForm(ReceiptRecord(slot, d, read))) = data
            /\ Encoded(StateForm(StateRecord(d, read)))
                   = Encoded(StateForm(StateRecord(c, balances)))
    BY <1>3, ReceiptKept
  <1>5. signed.receipt = data
    BY <1>3
  <1>6. /\ receipt' = ReceiptRecord(slot, d, read)
        /\ UNCHANGED <<request, built, signed, inBlock, queued, disk, posted,
                       guard>>
    BY <1>4, <1>5 DEF ReadReceipt
  <1>7. signed' = [receipt |-> Encoded(StateReceiptForm(receipt')),
                   leaf |-> Encoded(StateForm(StateRecord(d, read)))]
    BY <1>3, <1>4, <1>6
  <1>8. ReceiptIsSigned'
    BY <1>6, <1>7 DEF ReceiptIsSigned, SignedReceipt
  <1>9. Copies' /\ Texts'
    BY <1>6 DEF CodecInv, Copies, Texts
  <1>10. QED
    BY <1>1, <1>6, <1>8, <1>9, LaterKeeps

LEMMA CodecStep ==
  ASSUME CodecInv, [CodecNext]_codecVars
  PROVE  CodecInv'
  <1>1. CASE \E tx \in TransferTransactions : SendTransaction(tx)
    BY <1>1, SendKeeps DEF Requests
  <1>2. CASE \E tx \in SwapTransactions : SendTransaction(tx)
    BY <1>2, SendKeeps DEF Requests
  <1>3. CASE \E from \in SlotIndices, to \in SlotIndices \cup {0},
                slot \in SlotIndices, created \in BOOLEAN, balances \in Balances :
                 AddToPendingBlock(from, to, created, slot, balances)
    BY <1>3, AddKeeps
  <1>4. CASE RecoverPending
    BY <1>4, RecoverPendingKeeps, TokenAddressKeeps
  <1>5. CASE QueueBlock
    BY <1>5, QueueKeeps, TokenAddressKeeps
  <1>6. CASE RecoverQueue
    BY <1>6, RecoverQueueKeeps, TokenAddressKeeps
  <1>7. CASE PostBlock
    BY <1>7, PostKeeps, TokenAddressKeeps
  <1>8. CASE GuardReads
    BY <1>8, GuardKeeps, TokenAddressKeeps
  <1>9. CASE ReadReceipt
    BY <1>9, ReadReceiptKeeps
  <1>10. CASE UNCHANGED codecVars
    BY <1>10 DEF codecVars, CodecInv, RequestIsSigned, NothingBefore,
                 MadeOfRequest, Copies, Texts, ReceiptIsSigned
  <1>11. QED
    BY <1>1, <1>2, <1>3, <1>4, <1>5, <1>6, <1>7, <1>8, <1>9, <1>10
       DEF CodecNext

LEMMA CodecAlways == CodecSpec => []CodecInv
  <1>1. CodecInv /\ [CodecNext]_codecVars => CodecInv'
    BY CodecStep
  <1>2. QED
    BY CodecInitially, <1>1, PTL DEF CodecSpec

LEMMA TransitionFollows ==
  ASSUME CodecInv
  PROVE  TransitionInv
  <1>1. CASE built = Nothing
    <2>1. /\ inBlock = Nothing /\ queued = Nothing /\ guard = Nothing
          /\ posted = Nothing
          /\ disk = [aggregator |-> Nothing, submitter |-> Nothing]
      BY <1>1 DEF CodecInv, NothingBefore
    <2>2. Transitions = {}
      BY <2>1 DEF Transitions
    <2>3. CodecTypeOK
      BY <2>1, <2>2 DEF CodecTypeOK
    <2>4. TransitionIsKept
      BY <2>2 DEF TransitionIsKept
    <2>5. OneEncoding
      BY <2>1 DEF OneEncoding
    <2>6. QED
      <3>1. SignedTransactionIsKept
        <4>1. CASE request = Nothing
          BY <4>1 DEF SignedTransactionIsKept
        <4>2. CASE \E tx \in Requests : request = RequestOf(tx)
          BY <4>2, SignedIsKept
        <4>3. QED
          BY <4>1, <4>2 DEF CodecInv, RequestIsSigned
      <3>2. QED
        BY <2>3, <2>4, <2>5, <3>1 DEF TransitionInv
  <1>2. CASE built # Nothing /\ CreatesTokenAddress(built)
    <2>1. PICK tx \in Requests : request = RequestOf(tx)
      BY <1>2 DEF CodecInv, MadeOfRequest
    <2>2. SignedTransactionIsKept
      BY <2>1, SignedIsKept
    <2>3. QED
      BY <1>2, <2>2 DEF TransitionInv
  <1>3. CASE built # Nothing /\ ~CreatesTokenAddress(built)
    <2> DEFINE data == Encoded(TransitionForm(built))
    <2>1. ReadAs(built)
      BY <1>3, BuiltIs
    <2>2. /\ Checksummed(Checksummed(built)) = Checksummed(built)
          /\ Encoded(TransitionForm(Checksummed(built))) = data
          /\ {"stateRoot", "senderSlotIndex", "tokenType", "signature"}
                 \subseteq DOMAIN built
          /\ {"stateRoot", "senderSlotIndex", "tokenType", "signature"}
                 \subseteq DOMAIN Checksummed(built)
      BY <2>1 DEF ReadAs
    <2>3. PICK d \in {Nothing, data} :
              disk = [aggregator |-> data, submitter |-> d]
      BY <1>3 DEF CodecInv, Texts
    <2>4. posted \in {Nothing, data}
      BY <1>3 DEF CodecInv, Texts
    <2>5. Transitions \subseteq {built, Checksummed(built)}
      BY <1>3 DEF CodecInv, Copies, Transitions
    <2>6. CodecTypeOK
      <3>1. DOMAIN disk = {"aggregator", "submitter"}
        BY <2>3
      <3>2. QED
        BY <2>2, <2>5, <3>1 DEF CodecTypeOK
    <2>7. TransitionIsKept
      BY <2>2, <2>5 DEF TransitionIsKept
    <2>8. OneEncoding
      <3>1. guard # Nothing => /\ guard = Checksummed(built)
                               /\ posted # Nothing
        BY <1>3 DEF CodecInv, Copies
      <3>2. guard # Nothing => Encoded(TransitionForm(guard)) = posted
        BY <2>2, <2>4, <3>1
      <3>3. disk.aggregator = data /\ disk.submitter = d
        BY <2>3
      <3>4. \A e \in {disk.aggregator, disk.submitter, posted} :
               e # Nothing => e = disk.aggregator
        BY <2>4, <3>3
      <3>5. QED
        BY <3>2, <3>4 DEF OneEncoding
    <2>9. SignedTransactionIsKept
      <3>1. PICK tx \in Requests : request = RequestOf(tx)
        BY <1>3 DEF CodecInv, MadeOfRequest
      <3>2. QED
        BY <3>1, SignedIsKept
    <2>10. QED
      BY <2>6, <2>7, <2>8, <2>9 DEF TransitionInv
  <1>4. QED
    BY <1>1, <1>2, <1>3

LEMMA ContractFollows ==
  ASSUME CodecInv
  PROVE  ContractInv
  <1>1. CASE built = Nothing
    <2>1. guard = Nothing /\ posted = Nothing
      BY <1>1 DEF CodecInv, NothingBefore
    <2>2. QED
      BY <2>1 DEF ContractInv, ContractReadsTheSame, SignatureHoldsInContract
  <1>2. CASE CreatesTokenAddress(built)
    BY <1>2 DEF ContractInv
  <1>3. CASE built # Nothing /\ ~CreatesTokenAddress(built)
    <2> DEFINE data == Encoded(TransitionForm(built))
    <2>1. DecodedByContract(data) = Checksummed(built)
      BY <1>3, BuiltIs DEF ReadAs
    <2>2. posted \in {Nothing, data}
      BY <1>3 DEF CodecInv, Texts
    <2>3. guard # Nothing => guard = Checksummed(built) /\ posted # Nothing
      BY <1>3 DEF CodecInv, Copies
    <2>4. PICK tx \in Requests : request = RequestOf(tx) /\ MadeOf(built, tx)
      BY <1>3 DEF CodecInv, MadeOfRequest
    <2>5. /\ request.transaction = tx
          /\ request.preimage = Encoded(TransactionForm(tx))
      BY <2>4, RequestThere
    <2>6. PreimageOfContract(Checksummed(built), tx.sender, RecipientOf(tx))
              = Encoded(TransactionForm(tx))
      BY <2>4, MadeOfIs
    <2> HIDE DEF data
    <2>7. ContractReadsTheSame
      BY <2>1, <2>2, <2>3 DEF ContractReadsTheSame
    <2>8. SignatureHoldsInContract
      BY <2>1, <2>2, <2>5, <2>6 DEF SignatureHoldsInContract
    <2>9. QED
      BY <2>7, <2>8 DEF ContractInv
  <1>4. QED
    BY <1>1, <1>2, <1>3

LEMMA ReceiptFollows ==
  ASSUME CodecInv
  PROVE  ReceiptIsProvable
  <1>1. CASE receipt = Nothing
    BY <1>1 DEF ReceiptIsProvable
  <1>2. CASE SignedReceipt(receipt, signed)
    <2>1. PICK slot, c, balances :
              /\ receipt = ReceiptRecord(slot, c, balances)
              /\ signed = [receipt |-> Encoded(StateReceiptForm(receipt)),
                           leaf |-> Encoded(StateForm(
                                                StateRecord(c, balances)))]
      BY <1>2 DEF SignedReceipt
    <2>2. /\ receipt.state = StateRecord(c, balances)
          /\ receipt.inclusionProof = Proof
      BY <2>1 DEF ReceiptRecord
    <2>3. /\ signed.receipt = Encoded(StateReceiptForm(receipt))
          /\ signed.leaf = Encoded(StateForm(StateRecord(c, balances)))
      BY <2>1
    <2>4. QED
      BY <2>2, <2>3, ProofIs DEF ReceiptIsProvable
  <1>3. QED
    BY <1>1, <1>2 DEF CodecInv, ReceiptIsSigned

\* Whatever the addresses, the amounts, the slots and the order in which the
\* parts write, restart and read: everyone has the transition the aggregator
\* made, in one text, unless it creates the account whose address is a token
\* type's number, and the transaction the client signed.
THEOREM TransitionsAreKept == CodecSpec => []TransitionInv
  <1>1. CodecInv => TransitionInv
    BY TransitionFollows
  <1>2. QED
    BY CodecAlways, <1>1, PTL

\* Unless it creates such an account, the contract reads what the fraud guard
\* reads of a transition and computes the bytes that the client signed.
THEOREM ContractAgrees == CodecSpec => []ContractInv
  <1>1. CodecInv => ContractInv
    BY ContractFollows
  <1>2. QED
    BY CodecAlways, <1>1, PTL

\* A receipt, made or read back, has the text that was signed and the leaf of
\* the tree, and a proof that can be turned to bytes.
THEOREM ReceiptsAreProvable == CodecSpec => []ReceiptIsProvable
  <1>1. CodecInv => ReceiptIsProvable
    BY ReceiptFollows
  <1>2. QED
    BY CodecAlways, <1>1, PTL

-----------------------------------------------------------------------------
(***************************************************************************)
(* RollupNode.                                                             *)
(***************************************************************************)
USE NodeAssumption

-----------------------------------------------------------------------------
(***************************************************************************)
(* Helpers.                                                                *)
(***************************************************************************)
LEMMA TransactionFacts ==
    /\ Len(Modified) \in Nat /\ Transactions = 1..Len(Modified)
    /\ \A n \in Transactions : n \in Nat /\ n >= 1
    /\ None \notin Transactions
  BY DEF Transactions, None

\* The result that is next, when it is queued.
LEMMA MinQueued ==
    ASSUME CallsType, NextIsQueued
    PROVE  /\ Min(aggregator.queue) \in aggregator.queue
           /\ Min(aggregator.queue) = aggregator.next
           /\ aggregator.next \in Transactions
  <1>1. aggregator.queue \in SUBSET Nat /\ aggregator.queue # {}
        /\ aggregator.queue \subseteq Transactions
    BY TransactionFacts DEF CallsType, NextIsQueued
  <1>2. QED
    BY <1>1, NatMin DEF NextIsQueued

LEMMA TailFacts ==
    ASSUME NEW S, NEW s \in Seq(S), s # <<>>
    PROVE  /\ Tail(s) \in Seq(S) /\ Len(Tail(s)) = Len(s) - 1
           /\ Len(s) >= 1 /\ Len(s) \in Nat
           /\ \A i \in 1..Len(Tail(s)) :
                 i + 1 \in 1..Len(s) /\ Tail(s)[i] = s[i + 1]
           /\ Head(s) = s[1]
  OBVIOUS

\* The blocks as records.
LEMMA BlockFacts ==
    ASSUME NEW b \in Blocks
    PROVE  /\ b.blockNumber \in Nat /\ b.txs \in Seq(Transactions)
           /\ Len(b.txs) \in Nat
           /\ b = Block(b.blockNumber, b.txs)
  BY DEF Blocks, Block

LEMMA BlockIsBlock ==
    ASSUME NEW n \in Nat, NEW txs \in Seq(Transactions)
    PROVE  /\ Block(n, txs) \in Blocks
           /\ Block(n, txs).blockNumber = n /\ Block(n, txs).txs = txs
  BY DEF Blocks, Block

LEMMA NoBuildFacts ==
    /\ NoBuild.at = "none" /\ NoBuild.block \in Blocks
    /\ NoBuild = [at |-> NoBuild.at, block |-> NoBuild.block,
                  jobs |-> NoBuild.jobs, root |-> NoBuild.root]
    /\ NoBuild.block.txs = <<>>
  <1>1. <<>> \in Seq(Transactions) /\ 0 \in Nat
    OBVIOUS
  <1>2. Block(0, <<>>) \in Blocks /\ Block(0, <<>>).txs = <<>>
    BY <1>1, BlockIsBlock
  <1>3. QED
    BY <1>2 DEF NoBuild

\* What the last block queued counts.
LEMMA LastQueuedFacts ==
    ASSUME BuilderType, BlockShape, "submit" \notin faults
    PROVE  LastQueued = Len(handed.queued) /\ Len(handed.queued) \in Nat
  <1>1. handed.queued \in Seq(Blocks) /\ Len(handed.queued) \in Nat
    BY DEF BuilderType
  <1>2. CASE handed.queued = <<>>
    BY <1>1, <1>2 DEF LastQueued
  <1>3. CASE handed.queued # <<>>
    <2>1. Len(handed.queued) \in DOMAIN handed.queued
      BY <1>1, <1>3
    <2>2. handed.queued[Len(handed.queued)].blockNumber = Len(handed.queued)
      BY <2>1 DEF BlockShape
    <2>3. QED
      BY <1>1, <1>3, <2>2 DEF LastQueued, Last
  <1>4. QED
    BY <1>2, <1>3

\* The variables of the machine and of the aggregator and the lock, as
\* CallsType and BuilderType have them.
Machines == [next : Nat, stored : Nat, applying : Nat,
             returned : SUBSET Transactions]

Aggregators == [queue : SUBSET Transactions, next : Nat, callers : Nat,
                at : {"idle", "tx", "count", "submitting", "next"},
                res : Nat, index : Nat]

Locks == Seq({"add", "timer", "init"})

\* The part of CallShape that is about the lock.
LockShape ==
    /\ aggregator.at # "idle" => aggregator.callers > 0
    /\ \A i \in DOMAIN lock : lock[i] = "add" => aggregator.at = "submitting"
    /\ \A i, j \in DOMAIN lock : lock[i] = "add" /\ lock[j] = "add" => i = j

\* The caller of submitBlock leaves the lock.
LEMMA TailOfLock ==
    ASSUME lock \in Locks, CallShape, lock # <<>>, lock' = Tail(lock)
    PROVE  /\ lock' \in Locks
           /\ \A i \in DOMAIN lock' :
                 lock'[i] = "add" => /\ aggregator.at = "submitting"
                                     /\ ~Holds("add")
           /\ \A i, j \in DOMAIN lock' :
                 lock'[i] = "add" /\ lock'[j] = "add" => i = j
           /\ Holds("add") => aggregator.at = "submitting"
  <1>1. /\ lock' \in Locks
        /\ DOMAIN lock' = 1..Len(lock') /\ DOMAIN lock = 1..Len(lock)
        /\ 1 \in DOMAIN lock /\ Head(lock) = lock[1]
        /\ \A i \in DOMAIN lock' : i + 1 \in DOMAIN lock
                                   /\ lock'[i] = lock[i + 1]
    BY TailFacts DEF Locks
  <1>2. \A i \in DOMAIN lock' : i \in Nat /\ i >= 1
    BY <1>1 DEF Locks
  <1>3. \A i, j \in DOMAIN lock' :
           lock'[i] = "add" /\ lock'[j] = "add" => i = j
    <2>1. ASSUME NEW i \in DOMAIN lock', NEW j \in DOMAIN lock',
                 lock'[i] = "add", lock'[j] = "add"
          PROVE  i = j
      <3>1. i + 1 = j + 1
        BY <1>1, <2>1 DEF CallShape
      <3>2. QED
        BY <1>2, <3>1
    <2>2. QED
      BY <2>1
  <1>4. Holds("add") => aggregator.at = "submitting"
    BY <1>1 DEF Holds, CallShape
  <1>5. ASSUME NEW i \in DOMAIN lock', lock'[i] = "add"
        PROVE  aggregator.at = "submitting" /\ ~Holds("add")
    <2>1. i + 1 \in DOMAIN lock /\ lock[i + 1] = "add" /\ i + 1 # 1
      BY <1>1, <1>2, <1>5
    <2>2. lock[1] # "add"
      BY <1>1, <2>1 DEF CallShape
    <2>3. QED
      BY <1>1, <2>1, <2>2 DEF Holds, CallShape
  <1>6. QED
    BY <1>1, <1>3, <1>4, <1>5

LEMMA ReturnFacts ==
    ASSUME TypeOK, CallShape, lock # <<>>, Return
    PROVE  /\ lock' \in Locks /\ LockShape'
           /\ status' \in {"down", "building", "processing", "running"}
           /\ status' = "down" => status = "down"
           /\ aggregator' \in Aggregators
           /\ aggregator'.queue = aggregator.queue
           /\ aggregator'.next = aggregator.next
           /\ aggregator'.res = aggregator.res
           /\ aggregator'.index = aggregator.index
           /\ \/ aggregator'.at = aggregator.at
              \/ aggregator.at = "submitting" /\ aggregator'.at = "next"
  <1>1. lock \in Locks /\ lock' = Tail(lock) /\ aggregator \in Aggregators
    BY DEF TypeOK, BuilderType, CallsType, Return, Locks, Aggregators
  <1>2. /\ status' \in {"down", "building", "processing", "running"}
        /\ status' = "down" => status = "down"
    BY DEF TypeOK, NodeType, Return
  <1>3. /\ lock' \in Locks
        /\ \A i \in DOMAIN lock' :
              lock'[i] = "add" => /\ aggregator.at = "submitting"
                                  /\ ~Holds("add")
        /\ \A i, j \in DOMAIN lock' :
              lock'[i] = "add" /\ lock'[j] = "add" => i = j
        /\ Holds("add") => aggregator.at = "submitting"
    BY <1>1, TailOfLock
  <1>4. aggregator.at # "idle" => aggregator.callers > 0
    BY DEF CallShape
  <1>5. CASE Holds("add")
    <2>1. aggregator' = [aggregator EXCEPT !.at = "next"]
      BY <1>5 DEF Return
    <2>2. /\ aggregator' \in Aggregators
          /\ aggregator'.queue = aggregator.queue
          /\ aggregator'.next = aggregator.next
          /\ aggregator'.res = aggregator.res
          /\ aggregator'.index = aggregator.index
          /\ aggregator'.callers = aggregator.callers
          /\ aggregator'.at = "next"
      BY <1>1, <2>1 DEF Aggregators
    <2>3. QED
      BY <1>2, <1>3, <1>4, <1>5, <2>2 DEF LockShape
  <1>6. CASE ~Holds("add")
    <2>1. /\ aggregator' \in Aggregators
          /\ aggregator'.queue = aggregator.queue
          /\ aggregator'.next = aggregator.next
          /\ aggregator'.res = aggregator.res
          /\ aggregator'.index = aggregator.index
          /\ aggregator'.callers = aggregator.callers \/ aggregator'.callers = 1
          /\ aggregator'.at = aggregator.at
      <3>1. CASE aggregator' = aggregator
        BY <1>1, <3>1
      <3>2. CASE aggregator' = [aggregator EXCEPT !.callers = 1]
        BY <1>1, <3>2 DEF Aggregators
      <3>3. QED
        BY <1>6, <3>1, <3>2 DEF Return
    <2>2. aggregator'.at # "idle" => aggregator'.callers > 0
      BY <1>4, <2>1
    <2>3. \A i \in DOMAIN lock' :
             lock'[i] = "add" => aggregator'.at = "submitting"
      <3>1. aggregator'.at = aggregator.at
        BY <2>1
      <3>2. QED
        BY <1>3, <3>1
    <2>4. LockShape'
      BY <1>3, <2>2, <2>3 DEF LockShape
    <2>5. QED
      BY <1>2, <1>3, <2>1, <2>4
  <1>7. QED
    BY <1>5, <1>6

\* What a restart recovers is well-typed.
LEMMA RecoveredFacts ==
    ASSUME TypeOK, StoredShape
    PROVE  /\ RecoveredBlock \in Blocks
           /\ Fresh => RecoveredBlock = Block(0, <<>>)
           /\ ~Fresh => /\ db.count \in Nat
                        /\ Len(RecoveredBlock.txs) = db.count
                        /\ RecoveredBlock.blockNumber =
                              IF db.number = Absent THEN 1 ELSE db.number
                        /\ \A i \in 1..db.count :
                              RecoveredBlock.txs[i] = db.txs[i]
  <1>1. CASE Fresh
    <2>1. <<>> \in Seq(Transactions) /\ 0 \in Nat
      OBVIOUS
    <2>2. RecoveredBlock = Block(0, <<>>)
      BY <1>1 DEF RecoveredBlock
    <2>3. RecoveredBlock \in Blocks
      BY <2>1, <2>2, BlockIsBlock
    <2>4. QED
      BY <1>1, <2>2, <2>3
  <1>2. CASE ~Fresh
    <2> DEFINE txs == [i \in 1..db.count |-> db.txs[i]]
    <2>1. db.count \in Nat /\ (db.number = Absent \/ db.number \in Nat)
      BY <1>2 DEF Fresh, TypeOK, DatabaseType
    <2>2. \A i \in 1..db.count : db.txs[i] \in Transactions
      BY <1>2 DEF Fresh, StoredShape, TypeOK, DatabaseType
    <2>3. txs \in Seq(Transactions) /\ Len(txs) = db.count
          /\ \A i \in 1..db.count : txs[i] = db.txs[i]
      BY <2>1, <2>2
    <2>4. RecoveredBlock = Block(IF db.number = Absent THEN 1 ELSE db.number,
                                 txs)
      BY <1>2 DEF RecoveredBlock
    <2> HIDE DEF txs
    <2>5. QED
      BY <1>2, <2>1, <2>3, <2>4, BlockIsBlock
  <1>3. QED
    BY <1>1, <1>2

-----------------------------------------------------------------------------
(***************************************************************************)
(* NodeInv is inductive: the state machine's steps.                        *)
(***************************************************************************)
LEMMA ApplyStep ==
    ASSUME NodeInv, Apply
    PROVE  NodeInv'
  <1>1. TypeOK'
    <2>1. machine \in Machines /\ machine.next \in Nat
          /\ aggregator \in Aggregators
      BY DEF NodeInv, TypeOK, CallsType, Machines, Aggregators
    <2>2. machine' \in Machines
      <3>1. machine' = [machine EXCEPT !.applying = machine.next,
                                       !.next = machine.next + 1]
        BY DEF Apply
      <3>2. machine.next + 1 \in Nat
        BY <2>1
      <3>3. QED
        BY <2>1, <3>1, <3>2 DEF Machines
    <2>3. CallsType'
      BY <2>1, <2>2 DEF CallsType, Apply, Machines, Aggregators
    <2>4. NodeType' /\ BuilderType' /\ DatabaseType'
      BY DEF NodeInv, TypeOK, NodeType, BuilderType, DatabaseType, Apply,
             builderVars
    <2>5. QED
      BY <2>3, <2>4 DEF TypeOK
  <1>2. NumberShape'
    <2>1. machine.next \in Nat /\ machine.stored \in Nat
      BY DEF NodeInv, TypeOK, CallsType
    <2>2. /\ machine'.stored = machine.stored
          /\ machine'.next = machine.next + 1
          /\ machine'.applying = machine.next
          /\ machine'.returned = machine.returned
          /\ machine.next \in Transactions
      BY DEF NodeInv, TypeOK, CallsType, Apply
    <2>3. QED
      BY <2>1, <2>2 DEF NodeInv, NumberShape, Apply
  <1>3. CallShape' /\ StoredShape' /\ BlockShape'
    BY DEF NodeInv, CallShape, StoredShape, BlockShape, Taking, Apply,
           builderVars
  <1>4. QED
    BY <1>1, <1>2, <1>3 DEF NodeInv

LEMMA NumberStoredStep ==
    ASSUME NodeInv, NumberStored
    PROVE  NodeInv'
  <1>1. /\ machine.applying \in Transactions /\ machine.applying # None
        /\ machine.applying = machine.next - 1
        /\ machine.stored <= machine.applying
        /\ machine.next \in Nat /\ machine.stored \in Nat
    BY DEF NodeInv, NumberShape, TypeOK, CallsType, NumberStored
  <1>2. TypeOK'
    <2>1. NodeType'
      BY <1>1 DEF NodeInv, TypeOK, NodeType, NumberStored
    <2>2. CallsType'
      BY <1>1 DEF NodeInv, TypeOK, CallsType, NumberStored, NumberToStore, None
    <2>3. BuilderType' /\ DatabaseType'
      BY DEF NodeInv, TypeOK, BuilderType, DatabaseType, NumberStored,
             builderVars
    <2>4. QED
      BY <2>1, <2>2, <2>3 DEF TypeOK
  <1>3. NumberShape'
    <2>1. /\ machine'.stored = machine.next
          /\ machine'.next = machine.next
          /\ machine'.applying = None
          /\ machine'.returned = machine.returned \cup {machine.applying}
          /\ issued' = issued \cup {machine.applying}
      BY DEF NodeInv, TypeOK, CallsType, NumberStored, NumberToStore
    <2>2. issued' \subseteq 1..(machine'.stored - 1)
      <3>1. machine.applying \in Nat /\ machine.applying >= 1
        BY <1>1, TransactionFacts
      <3>2. issued \subseteq 1..(machine.stored - 1)
            /\ machine.stored <= machine.next
        BY DEF NodeInv, NumberShape
      <3>3. \A n \in issued : n \in 1..(machine.next - 1)
        BY <1>1, <3>2
      <3>4. machine.applying \in 1..(machine.next - 1)
        BY <1>1, <3>1
      <3>5. QED
        BY <2>1, <3>3, <3>4
    <2>3. QED
      BY <1>1, <2>1, <2>2 DEF NodeInv, NumberShape, NumberStored
  <1>4. CallShape' /\ StoredShape' /\ BlockShape'
    BY DEF NodeInv, CallShape, StoredShape, BlockShape, Taking, NumberStored,
           builderVars
  <1>5. QED
    BY <1>2, <1>3, <1>4 DEF NodeInv

AllFaults ==
    {"number", "submit", "overlap", "reopened", "misplaced", "crash"}

LEMMA FailsFacts ==
    ASSUME NodeType, NEW fault \in {"number", "submit", "misplaced"},
           Fails(fault)
    PROVE  /\ faults' \subseteq AllFaults
           /\ spent' \in [crashes : 0..MaxCrashes, failures : 0..MaxFailures]
           /\ faults \subseteq faults' /\ fault \in faults'
           /\ IF fault = "submit" THEN faults' \cap Accidents # {}
              ELSE faults' \cap Accidents = faults \cap Accidents
  <1>1. spent' \in [crashes : 0..MaxCrashes, failures : 0..MaxFailures]
    BY DEF NodeType, Fails
  <1>2. QED
    BY <1>1 DEF NodeType, Fails, Accidents, AllFaults

\* An error of the submitter or of a tree.
LEMMA ErrorFacts ==
    ASSUME NodeType, SubmitFails \/ BuildFails
    PROVE  /\ faults' \subseteq AllFaults
           /\ spent' \in [crashes : 0..MaxCrashes, failures : 0..MaxFailures]
           /\ faults \subseteq faults'
           /\ "submit" \in faults' /\ faults' \cap Accidents # {}
  <1>1. CASE Fails("submit")
    BY <1>1, FailsFacts
  <1>2. CASE faults' = faults \cup {"submit"} /\ UNCHANGED spent
    BY <1>2 DEF NodeType, Accidents, AllFaults
  <1>3. QED
    BY <1>1, <1>2 DEF SubmitFails, BuildFails

LEMMA NumberFailsStep ==
    ASSUME NodeInv, NumberFails
    PROVE  NodeInv'
  <1>1. /\ Fails("number") /\ NodeType
        /\ machine' = [machine EXCEPT !.applying = None]
    BY DEF NodeInv, TypeOK, NumberFails
  <1>2. /\ faults' \subseteq AllFaults
        /\ spent' \in [crashes : 0..MaxCrashes, failures : 0..MaxFailures]
        /\ faults \subseteq faults'
        /\ faults' \cap Accidents = faults \cap Accidents
    BY <1>1, FailsFacts
  <1>3. TypeOK'
    <2>1. NodeType'
      BY <1>2 DEF NodeInv, TypeOK, NodeType, NumberFails, AllFaults
    <2>2. CallsType'
      BY SMTT(30), <1>1 DEF NodeInv, TypeOK, CallsType, NumberFails, None
    <2>3. BuilderType' /\ DatabaseType'
      BY DEF NodeInv, TypeOK, BuilderType, DatabaseType, NumberFails,
             builderVars
    <2>4. QED
      BY <2>1, <2>2, <2>3 DEF TypeOK
  <1>4. NumberShape'
    BY <1>1 DEF NodeInv, TypeOK, CallsType, NumberShape, NumberFails
  <1>5. CallShape' /\ StoredShape'
    BY <1>2 DEF NodeInv, CallShape, StoredShape, NumberFails, builderVars
  <1>6. BlockShape'
    BY <1>2 DEF NodeInv, BlockShape, Taking, NumberFails, builderVars
  <1>7. QED
    BY <1>3, <1>4, <1>5, <1>6 DEF NodeInv

-----------------------------------------------------------------------------
(***************************************************************************)
(* The aggregator's steps.                                                 *)
(***************************************************************************)
LEMMA HandleResultStep ==
    ASSUME NodeInv, NEW n \in machine.returned, HandleResult(n)
    PROVE  NodeInv'
  <1>1. n \in Transactions /\ n \in issued
    BY DEF NodeInv, TypeOK, CallsType, NumberShape
  <1>2. /\ machine' = [machine EXCEPT !.returned = @ \ {n}]
        /\ aggregator' = [aggregator EXCEPT !.queue = @ \cup {n},
                                            !.callers = @ + 1]
        /\ CallsType
    BY DEF NodeInv, TypeOK, HandleResult
  <1>3. CallsType'
    <2>1. machine' \in [next : Nat, stored : Nat, applying : Nat,
                        returned : SUBSET Transactions]
      BY <1>2 DEF CallsType
    <2>2. aggregator' \in Aggregators
      <3>1. aggregator \in Aggregators
        BY <1>2 DEF CallsType, Aggregators
      <3>2. aggregator.queue \cup {n} \in SUBSET Transactions
            /\ aggregator.callers + 1 \in Nat
        BY <1>1, <3>1 DEF Aggregators
      <3>3. QED
        BY <1>2, <3>1, <3>2 DEF Aggregators
    <2>3. QED
      BY <2>1, <2>2 DEF CallsType, Aggregators
  <1>4. NodeType' /\ BuilderType' /\ DatabaseType'
    BY DEF NodeInv, TypeOK, NodeType, BuilderType, DatabaseType, HandleResult,
           builderVars
  <1>5. NumberShape'
    BY <1>1, <1>2 DEF NodeInv, NumberShape, CallsType, HandleResult
  <1>6. CallShape' /\ StoredShape' /\ BlockShape'
    <2>1. aggregator'.at = aggregator.at /\ aggregator'.index = aggregator.index
      BY <1>2 DEF CallsType
    <2>2. aggregator.at # "idle" => aggregator'.callers > 0
      BY <1>2 DEF CallsType, NodeInv, CallShape
    <2>3. QED
      BY <2>1, <2>2
         DEF NodeInv, CallShape, StoredShape, BlockShape, Taking, HandleResult,
             builderVars
  <1>7. QED
    BY <1>3, <1>4, <1>5, <1>6 DEF NodeInv, TypeOK

LEMMA ProcessStep ==
    ASSUME NodeInv, Process
    PROVE  NodeInv'
  <1>1. /\ aggregator \in Aggregators /\ aggregator.callers \in Nat
        /\ aggregator.callers > 0 /\ aggregator.at = "idle"
        /\ aggregator' = [aggregator EXCEPT !.callers = @ - 1]
    BY DEF NodeInv, TypeOK, CallsType, Aggregators, Process
  <1>2. /\ aggregator' \in Aggregators
        /\ aggregator'.at = aggregator.at
        /\ aggregator'.queue = aggregator.queue
    BY <1>1 DEF Aggregators
  <1>3. TypeOK'
    BY <1>2 DEF NodeInv, TypeOK, NodeType, CallsType, BuilderType,
                DatabaseType, Aggregators, Process, builderVars
  <1>4. NumberShape' /\ CallShape' /\ StoredShape' /\ BlockShape'
    BY <1>1, <1>2 DEF NodeInv, NumberShape, CallShape, StoredShape, BlockShape,
                      Taking, Process, builderVars
  <1>5. QED
    BY <1>3, <1>4 DEF NodeInv

\* No faults disappear, and an overlap is not an accident.
LEMMA OverlapFacts ==
    ASSUME NEW S \in SUBSET {"overlap", "reopened"}, faults' = faults \cup S,
           NodeType
    PROVE  /\ faults' \subseteq AllFaults
           /\ "submit" \in faults' <=> "submit" \in faults
           /\ (faults' \cap Accidents = {}) <=> (faults \cap Accidents = {})
  BY DEF NodeType, Accidents, AllFaults

LEMMA AddTransactionResultStep ==
    ASSUME NodeInv, AddTransactionResult
    PROVE  NodeInv'
  <1> DEFINE n == Min(aggregator.queue)
  <1>1. /\ n \in aggregator.queue /\ n = aggregator.next
        /\ n \in Transactions /\ n \in Nat
        /\ aggregator \in Aggregators /\ aggregator.at = "idle"
        /\ aggregator.callers > 0
    BY MinQueued, TransactionFacts
       DEF NodeInv, TypeOK, CallsType, AddTransactionResult, Aggregators
  <1>2. /\ pending \in Blocks
        /\ pending.txs \in Seq(Transactions) /\ Len(pending.txs) \in Nat
        /\ pending.blockNumber \in Nat
    BY BlockFacts DEF NodeInv, TypeOK, BuilderType
  <1>3. faults' = faults \cup (IF build.at # "none" THEN {"overlap"} ELSE {})
    BY DEF AddTransactionResult
  <1>4. /\ faults' \subseteq AllFaults
        /\ "submit" \in faults' <=> "submit" \in faults
        /\ (faults' \cap Accidents = {}) <=> (faults \cap Accidents = {})
    BY <1>3, OverlapFacts DEF NodeInv, TypeOK
  <1>5. /\ UNCHANGED <<status, remembers, machine, lock, build, clock, db,
                       handed, issued, spent>>
        /\ \/ /\ aggregator' = [aggregator EXCEPT !.queue = @ \ {n},
                                                  !.at = "next", !.res = n]
              /\ pending' = pending
           \/ /\ aggregator' = [aggregator EXCEPT
                                   !.queue = @ \ {n}, !.at = "tx",
                                   !.res = n, !.index = Len(pending.txs) + 1]
              /\ pending' = [pending EXCEPT !.txs = Append(pending.txs, n)]
    BY DEF AddTransactionResult
  <1> HIDE DEF n
  <1>6. /\ aggregator' \in Aggregators
        /\ aggregator'.queue = aggregator.queue \ {n}
        /\ aggregator'.next = aggregator.next
        /\ aggregator'.callers = aggregator.callers
        /\ aggregator'.res = n
        /\ aggregator'.at \in {"next", "tx"}
    <2>1. CASE aggregator' = [aggregator EXCEPT !.queue = @ \ {n},
                                                !.at = "next", !.res = n]
      BY <1>1, <2>1 DEF Aggregators
    <2>2. CASE aggregator' = [aggregator EXCEPT
                                 !.queue = @ \ {n}, !.at = "tx",
                                 !.res = n, !.index = Len(pending.txs) + 1]
      <3>1. Len(pending.txs) + 1 \in Nat
        BY <1>2
      <3>2. QED
        BY <1>1, <2>2, <3>1 DEF Aggregators
    <2>3. QED
      BY <1>5, <2>1, <2>2
  <1>7. /\ pending' \in Blocks
        /\ pending'.blockNumber = pending.blockNumber
        /\ \/ pending' = pending /\ aggregator'.at = "next"
           \/ /\ Len(pending'.txs) = Len(pending.txs) + 1
              /\ aggregator'.index = Len(pending.txs) + 1
              /\ aggregator'.at = "tx"
    <2>1. CASE pending' = pending /\ aggregator'.at = "next"
      BY <1>2, <2>1
    <2>2. CASE /\ pending' = [pending EXCEPT !.txs = Append(pending.txs, n)]
               /\ aggregator' = [aggregator EXCEPT
                                    !.queue = @ \ {n}, !.at = "tx",
                                    !.res = n, !.index = Len(pending.txs) + 1]
      <3>1. /\ Append(pending.txs, n) \in Seq(Transactions)
            /\ Len(Append(pending.txs, n)) = Len(pending.txs) + 1
        BY <1>1, <1>2, AppendFacts
      <3>2. /\ pending' \in Blocks
            /\ pending'.blockNumber = pending.blockNumber
            /\ pending'.txs = Append(pending.txs, n)
        BY <1>2, <2>2, <3>1 DEF Blocks
      <3>3. aggregator'.index = Len(pending.txs) + 1 /\ aggregator'.at = "tx"
        BY <1>1, <2>2 DEF Aggregators
      <3>4. QED
        BY <3>1, <3>2, <3>3
    <2>3. QED
      <3>1. CASE /\ aggregator' = [aggregator EXCEPT !.queue = @ \ {n},
                                                     !.at = "next", !.res = n]
                 /\ pending' = pending
        <4>1. aggregator'.at = "next"
          BY <1>1, <3>1 DEF Aggregators
        <4>2. QED
          BY <2>1, <3>1, <4>1
      <3>2. QED
        BY <1>5, <2>2, <3>1
  <1>8. TypeOK'
    <2>1. NodeType'
      BY <1>4, <1>5 DEF NodeInv, TypeOK, NodeType, AllFaults
    <2>2. CallsType'
      BY <1>5, <1>6 DEF NodeInv, TypeOK, CallsType, Aggregators
    <2>3. BuilderType' /\ DatabaseType'
      BY <1>5, <1>7 DEF NodeInv, TypeOK, BuilderType, DatabaseType
    <2>4. QED
      BY <2>1, <2>2, <2>3 DEF TypeOK
  <1>9. NumberShape'
    BY <1>1, <1>5, <1>6 DEF NodeInv, NumberShape
  <1>10. CallShape'
    <2>1. \A i \in DOMAIN lock : lock[i] # "add"
      BY <1>1 DEF NodeInv, CallShape
    <2>2. aggregator'.callers > 0
      BY <1>1, <1>6
    <2>3. QED
      BY <1>4, <1>5, <2>1, <2>2 DEF NodeInv, CallShape
  <1>11. StoredShape'
    <2>1. /\ 1..Len(pending.txs) \subseteq DOMAIN db.txs
          /\ db.count # Absent => 1..db.count \subseteq DOMAIN db.txs
      BY <1>1 DEF NodeInv, StoredShape
    <2>2. 1..(Len(pending.txs) + 1) =
             1..Len(pending.txs) \cup {Len(pending.txs) + 1}
      BY <1>2
    <2>3. 1..Len(pending'.txs) \subseteq
             DOMAIN db'.txs \cup (IF aggregator'.at = "tx"
                                  THEN {aggregator'.index} ELSE {})
      BY <1>5, <1>7, <2>1, <2>2
    <2>4. QED
      BY <1>5, <1>7, <2>1, <2>3 DEF StoredShape
  <1>12. BlockShape'
    BY <1>4, <1>5, <1>7 DEF NodeInv, BlockShape, Taking
  <1>13. QED
    BY <1>8, <1>9, <1>10, <1>11, <1>12 DEF NodeInv

LEMMA TransactionStoredStep ==
    ASSUME NodeInv, TransactionStored
    PROVE  NodeInv'
  <1>1. /\ aggregator \in Aggregators /\ aggregator.index \in Nat
        /\ aggregator.at = "tx" /\ Len(pending.txs) \in Nat
        /\ aggregator.res \in Transactions
        /\ aggregator' = [aggregator EXCEPT !.at = "count",
                                            !.index = Len(pending.txs)]
    BY BlockFacts
       DEF NodeInv, TypeOK, NodeType, CallsType, BuilderType, Aggregators,
           NumberShape, TransactionStored
  <1>2. /\ aggregator' \in Aggregators
        /\ aggregator'.at = "count" /\ aggregator'.index = Len(pending.txs)
        /\ aggregator'.queue = aggregator.queue
        /\ aggregator'.next = aggregator.next
        /\ aggregator'.callers = aggregator.callers
        /\ aggregator'.res = aggregator.res
    BY <1>1 DEF Aggregators
  <1>3. /\ db'.count = db.count /\ db'.number = db.number
        /\ db'.next = db.next
        /\ db' = [txs |-> db'.txs, count |-> db.count, number |-> db.number,
                  next |-> db.next]
        /\ DOMAIN db'.txs = DOMAIN db.txs \cup {aggregator.index}
        /\ \A i \in DOMAIN db'.txs :
              db'.txs[i] = IF i = aggregator.index THEN aggregator.res
                                                   ELSE db.txs[i]
    <2>1. db = [txs |-> db.txs, count |-> db.count, number |-> db.number,
                next |-> db.next]
      BY DEF NodeInv, TypeOK, DatabaseType
    <2> DEFINE new ==
          [i \in DOMAIN db.txs \cup {aggregator.index} |->
              IF i = aggregator.index THEN aggregator.res ELSE db.txs[i]]
    <2>2. db' = [db EXCEPT !.txs = new]
      BY DEF TransactionStored
    <2>3. /\ DOMAIN new = DOMAIN db.txs \cup {aggregator.index}
          /\ \A i \in DOMAIN new :
                new[i] = IF i = aggregator.index THEN aggregator.res
                                                 ELSE db.txs[i]
      OBVIOUS
    <2> HIDE DEF new
    <2>4. db' = [txs |-> new, count |-> db.count, number |-> db.number,
                 next |-> db.next]
      BY <2>1, <2>2
    <2>5. QED
      BY <2>3, <2>4
  <1>4. TypeOK'
    <2>1. DatabaseType'
      BY <1>1, <1>3 DEF NodeInv, TypeOK, DatabaseType
    <2>2. CallsType'
      BY <1>2 DEF NodeInv, TypeOK, CallsType, Aggregators, TransactionStored
    <2>3. NodeType' /\ BuilderType'
      BY DEF NodeInv, TypeOK, NodeType, BuilderType, TransactionStored,
             builderVars
    <2>4. QED
      BY <2>1, <2>2, <2>3 DEF TypeOK
  <1>5. NumberShape'
    BY <1>1, <1>2, <1>3 DEF NodeInv, NumberShape, TransactionStored
  <1>6. CallShape'
    <2>1. \A i \in DOMAIN lock : lock[i] # "add"
      BY <1>1 DEF NodeInv, CallShape
    <2>2. QED
      BY <1>1, <1>2, <2>1
         DEF NodeInv, CallShape, TransactionStored, builderVars
  <1>7. StoredShape'
    <2>1. pending' = pending
      BY DEF TransactionStored, builderVars
    <2>2. 1..Len(pending.txs) \subseteq DOMAIN db'.txs
      BY <1>1, <1>3 DEF NodeInv, StoredShape
    <2>3. db.count # Absent => 1..db.count \subseteq DOMAIN db'.txs
      BY <1>3 DEF NodeInv, StoredShape
    <2>4. QED
      BY <1>2, <1>3, <2>1, <2>2, <2>3 DEF StoredShape
  <1>8. BlockShape'
    BY <1>3 DEF NodeInv, BlockShape, Taking, TransactionStored, builderVars
  <1>9. QED
    BY <1>4, <1>5, <1>6, <1>7, <1>8 DEF NodeInv

\* Another caller waits for the builder's lock.
LEMMA AppendToLock ==
    ASSUME lock \in Locks, CallShape, NEW by \in {"add", "timer", "init"},
           by = "add" => \A i \in DOMAIN lock : lock[i] # "add",
           lock' = Append(lock, by)
    PROVE  /\ lock' \in Locks /\ lock' # <<>>
           /\ \A i \in DOMAIN lock' :
                 lock'[i] = "add" => \/ by = "add"
                                     \/ aggregator.at = "submitting"
           /\ \A i, j \in DOMAIN lock' :
                 lock'[i] = "add" /\ lock'[j] = "add" => i = j
  <1>1. /\ lock' \in Locks /\ lock' # <<>>
        /\ Len(lock') = Len(lock) + 1 /\ Len(lock) \in Nat
        /\ \A i \in 1..Len(lock) : lock'[i] = lock[i]
        /\ lock'[Len(lock) + 1] = by
    BY AppendFacts DEF Locks
  <1>2. DOMAIN lock' = 1..Len(lock') /\ DOMAIN lock = 1..Len(lock)
    BY <1>1 DEF Locks
  <1>3. \A i \in DOMAIN lock' : i \in DOMAIN lock \/ i = Len(lock) + 1
    BY <1>1, <1>2
  <1>4. \A i \in DOMAIN lock' :
           lock'[i] = "add" => by = "add" \/ aggregator.at = "submitting"
    BY <1>1, <1>2, <1>3 DEF CallShape
  <1>5. ASSUME NEW i \in DOMAIN lock', NEW j \in DOMAIN lock',
               lock'[i] = "add", lock'[j] = "add"
        PROVE  i = j
    <2>1. CASE by = "add"
      BY <1>1, <1>2, <1>3, <1>5, <2>1
    <2>2. CASE by # "add"
      BY <1>1, <1>2, <1>3, <1>5, <2>2 DEF CallShape
    <2>3. QED
      BY <2>1, <2>2
  <1>6. QED
    BY <1>1, <1>4, <1>5

LEMMA CountStoredStep ==
    ASSUME NodeInv, CountStored
    PROVE  NodeInv'
  <1>1. /\ aggregator \in Aggregators /\ aggregator.index \in Nat
        /\ aggregator.at = "count" /\ lock \in Locks
        /\ aggregator.callers > 0
        /\ \A i \in DOMAIN lock : lock[i] # "add"
    BY DEF NodeInv, TypeOK, CallsType, BuilderType, Aggregators, Locks,
           CallShape, CountStored
  <1>2. /\ aggregator' \in Aggregators
        /\ aggregator'.at \in {"submitting", "next"}
        /\ aggregator'.queue = aggregator.queue
        /\ aggregator'.next = aggregator.next
        /\ aggregator'.callers = aggregator.callers
        /\ aggregator'.res = aggregator.res
        /\ \/ lock' = Append(lock, "add") /\ aggregator'.at = "submitting"
           \/ lock' = lock /\ aggregator'.at = "next"
    <2>1. CASE aggregator' = [aggregator EXCEPT !.at = "submitting"]
               /\ lock' = Append(lock, "add")
      BY <1>1, <2>1 DEF Aggregators
    <2>2. CASE aggregator' = [aggregator EXCEPT !.at = "next"] /\ lock' = lock
      BY <1>1, <2>2 DEF Aggregators
    <2>3. QED
      BY <2>1, <2>2 DEF CountStored
  <1>3. /\ db' = [txs |-> db.txs, count |-> aggregator.index,
                  number |-> db.number, next |-> db.next]
        /\ db'.txs = db.txs /\ db'.count = aggregator.index
        /\ db'.number = db.number /\ db'.next = db.next
    BY DEF NodeInv, TypeOK, DatabaseType, CountStored
  <1>4. lock' \in Locks /\ LockShape'
    <2>1. CASE lock' = Append(lock, "add") /\ aggregator'.at = "submitting"
      <3>1. /\ lock' \in Locks
            /\ \A i, j \in DOMAIN lock' :
                  lock'[i] = "add" /\ lock'[j] = "add" => i = j
        BY <1>1, <2>1, AppendToLock DEF NodeInv
      <3>2. QED
        BY <1>1, <1>2, <2>1, <3>1 DEF LockShape
    <2>2. CASE lock' = lock /\ aggregator'.at = "next"
      BY <1>1, <1>2, <2>2 DEF LockShape
    <2>3. QED
      BY <1>2, <2>1, <2>2
  <1>5. TypeOK'
    <2>1. DatabaseType'
      BY <1>1, <1>3 DEF NodeInv, TypeOK, DatabaseType, Absent
    <2>2. CallsType' /\ NodeType'
      BY <1>2 DEF NodeInv, TypeOK, NodeType, CallsType, Aggregators,
                  CountStored
    <2>3. BuilderType'
      BY <1>4 DEF NodeInv, TypeOK, BuilderType, CountStored, Locks
    <2>4. QED
      BY <2>1, <2>2, <2>3 DEF TypeOK
  <1>6. NumberShape'
    BY <1>1, <1>2, <1>3 DEF NodeInv, NumberShape, CountStored
  <1>7. CallShape'
    <2>1. build' = build /\ status' = status /\ faults' = faults
      BY DEF CountStored
    <2>2. lock # <<>> => lock' # <<>>
      BY <1>1, <1>2, AppendFacts DEF Locks
    <2>3. QED
      BY <1>4, <2>1, <2>2 DEF NodeInv, CallShape, LockShape
  <1>8. StoredShape'
    <2>1. pending' = pending
      BY DEF CountStored
    <2>2. 1..Len(pending.txs) \subseteq DOMAIN db.txs
          /\ 1..aggregator.index \subseteq DOMAIN db.txs
      BY <1>1 DEF NodeInv, StoredShape
    <2>3. QED
      BY <1>2, <1>3, <2>1, <2>2 DEF StoredShape
  <1>9. BlockShape'
    BY <1>3 DEF NodeInv, BlockShape, Taking, CountStored
  <1>10. QED
    BY <1>5, <1>6, <1>7, <1>8, <1>9 DEF NodeInv

LEMMA NextStoredStep ==
    ASSUME NodeInv, NextStored
    PROVE  NodeInv'
  <1>1. /\ aggregator \in Aggregators /\ aggregator.at = "next"
        /\ aggregator.res \in issued /\ aggregator.res \in Nat
        /\ aggregator' = [aggregator EXCEPT !.at = "idle",
                                            !.next = aggregator.res + 1,
                                            !.res = None, !.index = 0]
        /\ \A i \in DOMAIN lock : lock[i] # "add"
    BY DEF NodeInv, TypeOK, CallsType, Aggregators, NumberShape, CallShape,
           NextStored
  <1>2. /\ aggregator' \in Aggregators
        /\ aggregator'.at = "idle"
        /\ aggregator'.queue = aggregator.queue
        /\ aggregator'.callers = aggregator.callers
    <2>1. aggregator.res + 1 \in Nat /\ None \in Nat /\ 0 \in Nat
      BY <1>1 DEF None
    <2>2. QED
      BY <1>1, <2>1 DEF Aggregators
  <1>3. /\ db' = [txs |-> db.txs, count |-> db.count,
                  number |-> db.number, next |-> aggregator.res]
        /\ db'.txs = db.txs /\ db'.count = db.count
        /\ db'.number = db.number /\ db'.next = aggregator.res
    BY DEF NodeInv, TypeOK, DatabaseType, NextStored
  <1>4. TypeOK'
    <2>1. DatabaseType'
      BY <1>1, <1>3 DEF NodeInv, TypeOK, DatabaseType, Absent
    <2>2. CallsType'
      BY <1>2 DEF NodeInv, TypeOK, CallsType, Aggregators, NextStored
    <2>3. NodeType' /\ BuilderType'
      BY DEF NodeInv, TypeOK, NodeType, BuilderType, NextStored, builderVars
    <2>4. QED
      BY <2>1, <2>2, <2>3 DEF TypeOK
  <1>5. NumberShape'
    BY <1>1, <1>2, <1>3 DEF NodeInv, NumberShape, NextStored
  <1>6. CallShape'
    BY <1>1, <1>2 DEF NodeInv, CallShape, NextStored, builderVars
  <1>7. StoredShape' /\ BlockShape'
    BY <1>1, <1>2, <1>3 DEF NodeInv, StoredShape, BlockShape, Taking,
                            NextStored, builderVars
  <1>8. QED
    BY <1>4, <1>5, <1>6, <1>7 DEF NodeInv

-----------------------------------------------------------------------------
(***************************************************************************)
(* The builder's steps.                                                    *)
(***************************************************************************)
\* What Return leaves of the invariant, for the steps that end submitBlock.
LEMMA ReturnKeeps ==
    ASSUME NodeInv, lock # <<>>, Return, build'.at = "none",
           UNCHANGED <<machine, issued, faults, remembers, spent>>,
           db'.next = db.next
    PROVE  /\ NodeType' /\ CallsType' /\ NumberShape' /\ CallShape'
           /\ lock' \in Locks
           /\ aggregator'.index = aggregator.index
           /\ (aggregator'.at = "count") <=> (aggregator.at = "count")
           /\ (aggregator'.at = "tx") <=> (aggregator.at = "tx")
  <1>1. /\ lock' \in Locks /\ LockShape'
        /\ status' \in {"down", "building", "processing", "running"}
        /\ status' = "down" => status = "down"
        /\ aggregator' \in Aggregators
        /\ aggregator'.queue = aggregator.queue
        /\ aggregator'.next = aggregator.next
        /\ aggregator'.res = aggregator.res
        /\ aggregator'.index = aggregator.index
        /\ \/ aggregator'.at = aggregator.at
           \/ aggregator.at = "submitting" /\ aggregator'.at = "next"
    BY ReturnFacts DEF NodeInv
  <1>2. NodeType' /\ CallsType'
    BY <1>1 DEF NodeInv, TypeOK, NodeType, CallsType, Aggregators
  <1>3. NumberShape'
    BY <1>1 DEF NodeInv, NumberShape
  <1>4. CallShape'
    BY <1>1 DEF NodeInv, CallShape, LockShape
  <1>5. QED
    BY <1>1, <1>2, <1>3, <1>4

LEMMA DeferredStep ==
    ASSUME NodeInv, Deferred
    PROVE  NodeInv'
  <1>1. /\ lock # <<>> /\ Return /\ build.at = "none"
        /\ UNCHANGED <<remembers, machine, pending, build, trees, db, handed,
                       issued, faults, spent>>
        /\ clock' = [clock EXCEPT !.armed = @ + 1]
    BY DEF Deferred
  <1>2. /\ NodeType' /\ CallsType' /\ NumberShape' /\ CallShape'
        /\ lock' \in Locks
        /\ aggregator'.index = aggregator.index
        /\ (aggregator'.at = "count") <=> (aggregator.at = "count")
        /\ (aggregator'.at = "tx") <=> (aggregator.at = "tx")
    BY <1>1, ReturnKeeps
  <1>3. clock' \in [armed : Nat, old : Nat, elapsed : BOOLEAN]
    <2>1. clock \in [armed : Nat, old : Nat, elapsed : BOOLEAN]
      BY DEF NodeInv, TypeOK, BuilderType
    <2>2. clock.armed + 1 \in Nat
      BY <2>1
    <2>3. QED
      BY <1>1, <2>1, <2>2
  <1>4. BuilderType' /\ DatabaseType'
    BY <1>1, <1>2, <1>3 DEF NodeInv, TypeOK, BuilderType, DatabaseType, Locks
  <1>5. StoredShape'
    BY <1>1, <1>2 DEF NodeInv, StoredShape
  <1>6. BlockShape'
    BY <1>1 DEF NodeInv, BlockShape, Taking
  <1>7. QED
    BY <1>2, <1>4, <1>5, <1>6 DEF NodeInv, TypeOK

LEMMA BuildBlockStep ==
    ASSUME NodeInv, BuildBlock
    PROVE  NodeInv'
  <1>1. /\ lock # <<>> /\ build.at = "none"
        /\ pending' = Block(pending.blockNumber + 1, <<>>)
        /\ UNCHANGED <<status, remembers, machine, aggregator, lock, clock, db,
                       handed, issued, spent>>
        /\ pending \in Blocks /\ pending.blockNumber \in Nat
    BY BlockFacts DEF NodeInv, TypeOK, BuilderType, BuildBlock
  <1>2. /\ build' = [at |-> "storage", block |-> pending,
                     jobs |-> build'.jobs, root |-> <<>>]
        /\ build'.at = "storage" /\ build'.block = pending
    BY DEF BuildBlock, NoBuild
  <1>3. /\ pending' \in Blocks
        /\ pending'.blockNumber = pending.blockNumber + 1
        /\ Len(pending'.txs) = 0
    <2>1. <<>> \in Seq(Transactions) /\ pending.blockNumber + 1 \in Nat
      BY <1>1
    <2>2. pending' \in Blocks
          /\ pending'.blockNumber = pending.blockNumber + 1
          /\ pending'.txs = <<>>
      BY <1>1, <2>1, BlockIsBlock
    <2>3. QED
      BY <2>2
  <1>4. /\ faults' \subseteq AllFaults
        /\ "submit" \in faults' <=> "submit" \in faults
        /\ (faults' \cap Accidents = {}) <=> (faults \cap Accidents = {})
    <2>1. PICK S \in SUBSET {"overlap", "reopened"} : faults' = faults \cup S
      <3> DEFINE reopens == OpensTwice(DOMAIN ModifiedStorage(pending))
                 A == IF reopens THEN {"reopened"} ELSE {}
                 B == IF aggregator.at \in {"tx", "count"} THEN {"overlap"}
                                                           ELSE {}
      <3>1. faults' = faults \cup (A \cup B)
        BY DEF BuildBlock
      <3>2. A \cup B \in SUBSET {"overlap", "reopened"}
        OBVIOUS
      <3>3. QED
        BY <3>1, <3>2
    <2>2. QED
      BY <2>1, OverlapFacts DEF NodeInv, TypeOK
  <1>5. TypeOK'
    <2>1. NodeType'
      BY <1>1, <1>4 DEF NodeInv, TypeOK, NodeType, AllFaults
    <2>2. CallsType' /\ DatabaseType'
      BY <1>1 DEF NodeInv, TypeOK, CallsType, DatabaseType
    <2>3. build' = [at |-> build'.at, block |-> build'.block,
                    jobs |-> build'.jobs, root |-> build'.root]
      BY <1>2
    <2>4. BuilderType'
      BY <1>1, <1>2, <1>3, <2>3 DEF NodeInv, TypeOK, BuilderType
    <2>5. QED
      BY <2>1, <2>2, <2>4 DEF TypeOK
  <1>6. NumberShape'
    BY <1>1 DEF NodeInv, NumberShape
  <1>7. CallShape'
    BY <1>1, <1>4 DEF NodeInv, CallShape
  <1>8. StoredShape'
    BY <1>1, <1>3 DEF NodeInv, StoredShape
  <1>9. BlockShape'
    BY <1>1, <1>2, <1>3, <1>4 DEF NodeInv, BlockShape, Taking
  <1>10. QED
    BY <1>5, <1>6, <1>7, <1>8, <1>9 DEF NodeInv

\* A step that moves the build on and leaves its block.
BuildMoves(to) ==
    /\ build' = [at |-> to, block |-> build.block, jobs |-> build'.jobs,
                 root |-> build'.root]
    /\ UNCHANGED <<status, remembers, machine, aggregator, pending, lock,
                   clock, issued, faults, spent>>

LEMMA BuildMovesKeeps ==
    ASSUME NodeInv, NEW to \in {"none", "storage", "submitting", "count", "number"},
           to # "none" => build.at # "none",
           BuildMoves(to), DatabaseType',
           handed' \in [all : Seq(Blocks), queued : Seq(Blocks)],
           db'.txs = db.txs, db'.next = db.next,
           db'.count \in {db.count, 0}, BlockShape'
    PROVE  NodeInv'
  <1>1. /\ build' = [at |-> to, block |-> build.block, jobs |-> build'.jobs,
                     root |-> build'.root]
        /\ build'.at = to /\ build'.block = build.block
        /\ UNCHANGED <<status, remembers, machine, aggregator, pending, lock,
                       clock, issued, faults, spent>>
    BY DEF BuildMoves
  <1>2. NodeType' /\ CallsType'
    BY <1>1 DEF NodeInv, TypeOK, NodeType, CallsType
  <1>3. BuilderType'
    <2>1. build' = [at |-> build'.at, block |-> build'.block,
                    jobs |-> build'.jobs, root |-> build'.root]
      BY <1>1
    <2>2. QED
      BY <1>1, <2>1 DEF NodeInv, TypeOK, BuilderType
  <1>4. NumberShape'
    BY <1>1 DEF NodeInv, NumberShape
  <1>5. CallShape'
    BY <1>1 DEF NodeInv, CallShape
  <1>6. StoredShape'
    BY <1>1, BlockFacts DEF NodeInv, StoredShape
  <1>7. QED
    BY <1>2, <1>3, <1>4, <1>5, <1>6 DEF NodeInv, TypeOK

\* An update of a tree changes no block.
LEMMA JobMoves ==
    ASSUME BuilderType, NEW j,
           OpenSubtree(j) \/ UpdateStorageSlot(j)
    PROVE  BuildMoves(build.at) /\ UNCHANGED <<db, handed>>
  <1>1. build = [at |-> build.at, block |-> build.block, jobs |-> build.jobs,
                 root |-> build.root]
    BY DEF BuilderType
  <1>2. CASE UpdateStorageSlot(j)
    <2>1. build' = [build EXCEPT !.jobs = @ \ {j}]
      BY <1>2 DEF UpdateStorageSlot
    <2> DEFINE jobs == build.jobs \ {j}
    <2>2. build' = [at |-> build.at, block |-> build.block, jobs |-> jobs,
                    root |-> build.root]
      BY <1>1, <2>1
    <2> HIDE DEF jobs
    <2>3. build' = [at |-> build.at, block |-> build.block,
                    jobs |-> build'.jobs, root |-> build'.root]
      BY <2>2
    <2>4. QED
      BY <1>2, <2>3 DEF UpdateStorageSlot, BuildMoves
  <1>3. CASE OpenSubtree(j)
    <2>1. PICK jobs : build' = [build EXCEPT !.jobs = jobs]
      BY <1>3 DEF OpenSubtree
    <2>2. build' = [at |-> build.at, block |-> build.block, jobs |-> jobs,
                    root |-> build.root]
      BY <1>1, <2>1
    <2>3. build' = [at |-> build.at, block |-> build.block,
                    jobs |-> build'.jobs, root |-> build'.root]
      BY <2>2
    <2>4. QED
      BY <1>3, <2>3 DEF OpenSubtree, BuildMoves
  <1>4. QED
    BY <1>2, <1>3

LEMMA JobStep ==
    ASSUME NodeInv, NEW j,
           OpenSubtree(j) \/ UpdateStorageSlot(j)
    PROVE  NodeInv'
  <1>1. BuildMoves(build.at) /\ UNCHANGED <<db, handed>>
    BY JobMoves DEF NodeInv, TypeOK
  <1>2. /\ build'.at = build.at /\ build'.block = build.block
        /\ UNCHANGED <<pending, faults>>
    BY <1>1 DEF BuildMoves
  <1>3. BlockShape'
    BY <1>1, <1>2 DEF NodeInv, BlockShape, Taking
  <1>4. /\ build.at \in {"none", "storage", "submitting", "count", "number"}
        /\ DatabaseType' /\ handed' \in [all : Seq(Blocks), queued : Seq(Blocks)]
    BY <1>1 DEF NodeInv, TypeOK, BuilderType, DatabaseType
  <1>5. QED
    BY <1>1, <1>3, <1>4, BuildMovesKeeps

LEMMA UpdateContractSlotsStep ==
    ASSUME NodeInv, UpdateContractSlots
    PROVE  NodeInv'
  <1>1. /\ build = [at |-> build.at, block |-> build.block,
                    jobs |-> build.jobs, root |-> build.root]
        /\ build.at = "storage"
    BY DEF NodeInv, TypeOK, BuilderType, UpdateContractSlots
  <1>2. BuildMoves("submitting") /\ UNCHANGED <<db, handed>>
    BY <1>1 DEF UpdateContractSlots, BuildMoves
  <1>3. /\ build'.at = "submitting" /\ build'.block = build.block
        /\ UNCHANGED <<pending, faults>>
    BY <1>2 DEF BuildMoves
  <1>4. BlockShape'
    BY <1>1, <1>2, <1>3 DEF NodeInv, BlockShape, Taking
  <1>5. DatabaseType' /\ handed' \in [all : Seq(Blocks), queued : Seq(Blocks)]
    BY <1>2 DEF NodeInv, TypeOK, BuilderType, DatabaseType
  <1>6. QED
    BY <1>1, <1>2, <1>4, <1>5, BuildMovesKeeps

LEMMA MisplaceMoves ==
    ASSUME BuilderType, Misplace
    PROVE  /\ build.at = "storage"
           /\ build' = [at |-> build'.at, block |-> build'.block,
                        jobs |-> build'.jobs, root |-> build'.root]
           /\ build'.at = "submitting" /\ build'.block = build.block
           /\ UNCHANGED <<status, remembers, machine, aggregator, pending, lock,
                          clock, db, handed, issued>>
  <1>1. /\ build = [at |-> build.at, block |-> build.block,
                    jobs |-> build.jobs, root |-> build.root]
        /\ build' = [build EXCEPT !.at = "submitting", !.jobs = {},
                                  !.root = BaseTree]
    BY DEF BuilderType, Misplace
  <1>2. build' = [at |-> "submitting", block |-> build.block, jobs |-> {},
                  root |-> BaseTree]
    BY <1>1
  <1>3. QED
    BY <1>2 DEF Misplace

LEMMA MisplaceStep ==
    ASSUME NodeInv, Misplace
    PROVE  NodeInv'
  <1>1. /\ build.at = "storage"
        /\ build' = [at |-> build'.at, block |-> build'.block,
                     jobs |-> build'.jobs, root |-> build'.root]
        /\ build'.at = "submitting" /\ build'.block = build.block
        /\ UNCHANGED <<status, remembers, machine, aggregator, pending, lock,
                       clock, db, handed, issued>>
    BY MisplaceMoves DEF NodeInv, TypeOK
  <1>2. /\ faults' \subseteq AllFaults
        /\ spent' \in [crashes : 0..MaxCrashes, failures : 0..MaxFailures]
        /\ faults' \cap Accidents = faults \cap Accidents
    BY FailsFacts DEF NodeInv, TypeOK, Misplace
  <1>3. "submit" \in faults' <=> "submit" \in faults
    BY <1>2 DEF Accidents
  <1>4. TypeOK'
    <2>1. NodeType'
      BY <1>1, <1>2 DEF NodeInv, TypeOK, NodeType, AllFaults
    <2>2. CallsType' /\ DatabaseType'
      BY <1>1 DEF NodeInv, TypeOK, CallsType, DatabaseType
    <2>3. BuilderType'
      BY <1>1 DEF NodeInv, TypeOK, BuilderType
    <2>4. QED
      BY <2>1, <2>2, <2>3 DEF TypeOK
  <1>5. NumberShape'
    BY <1>1 DEF NodeInv, NumberShape
  <1>6. CallShape'
    BY <1>1, <1>3 DEF NodeInv, CallShape
  <1>7. StoredShape'
    BY <1>1 DEF NodeInv, StoredShape
  <1>8. BlockShape'
    BY <1>1, <1>2, <1>3 DEF NodeInv, BlockShape, Taking
  <1>9. QED
    BY <1>4, <1>5, <1>6, <1>7, <1>8 DEF NodeInv

\* A block handed over.
LEMMA HandFacts ==
    ASSUME BuilderType, Hand(build.block)
    PROVE  /\ handed' \in [all : Seq(Blocks), queued : Seq(Blocks)]
           /\ handed'.all = Append(handed.all, build.block)
           /\ handed'.queued = IF build.block.blockNumber <= LastQueued
                               THEN handed.queued
                               ELSE Append(handed.queued, build.block)
  <1>1. /\ handed.all \in Seq(Blocks) /\ handed.queued \in Seq(Blocks)
        /\ build.block \in Blocks
    BY DEF BuilderType
  <1>2. Append(handed.all, build.block) \in Seq(Blocks)
        /\ Append(handed.queued, build.block) \in Seq(Blocks)
    BY <1>1, AppendFacts
  <1>3. QED
    BY <1>1, <1>2 DEF Hand

LEMMA SubmittedStep ==
    ASSUME NodeInv, Submitted
    PROVE  NodeInv'
  <1>1. /\ build = [at |-> build.at, block |-> build.block,
                    jobs |-> build.jobs, root |-> build.root]
        /\ build.at = "submitting" /\ build.block \in Blocks
        /\ build.block.blockNumber \in Nat
        /\ pending.blockNumber = build.block.blockNumber + 1
        /\ handed.all \in Seq(Blocks) /\ handed.queued \in Seq(Blocks)
        /\ Len(handed.all) \in Nat /\ Len(handed.queued) \in Nat
    BY BlockFacts DEF NodeInv, TypeOK, BuilderType, BlockShape, Submitted
  <1>2. BuildMoves("count") /\ db' = db
    BY <1>1 DEF Submitted, BuildMoves
  <1>3. /\ build'.at = "count" /\ build'.block = build.block
        /\ UNCHANGED <<pending, faults>>
    BY <1>2 DEF BuildMoves
  <1>4. /\ handed' \in [all : Seq(Blocks), queued : Seq(Blocks)]
        /\ handed'.all = Append(handed.all, build.block)
        /\ handed'.queued = IF build.block.blockNumber <= LastQueued
                            THEN handed.queued
                            ELSE Append(handed.queued, build.block)
    BY HandFacts DEF NodeInv, TypeOK, Submitted
  <1>5. ASSUME "submit" \notin faults
        PROVE  /\ \A i \in DOMAIN handed'.queued :
                     handed'.queued[i].blockNumber = i
               /\ pending.blockNumber <= Len(handed'.queued) + 1
               /\ db.number # Absent => db.number <= Len(handed'.queued) + 1
    <2>1. LastQueued = Len(handed.queued)
      BY <1>5, LastQueuedFacts DEF NodeInv, TypeOK
    <2>2. build.block.blockNumber <= Len(handed.queued) + 1
      BY <1>1, <1>5 DEF NodeInv, BlockShape, Taking
    <2>3. /\ \A i \in DOMAIN handed.queued : handed.queued[i].blockNumber = i
          /\ db.number # Absent => db.number <= Len(handed.queued) + 1
          /\ db.number = Absent \/ db.number \in Nat
      BY <1>5 DEF NodeInv, BlockShape, TypeOK, DatabaseType
    <2>4. CASE build.block.blockNumber <= Len(handed.queued)
      BY <1>1, <1>4, <2>1, <2>3, <2>4
    <2>5. CASE build.block.blockNumber = Len(handed.queued) + 1
      <3>1. handed'.queued = Append(handed.queued, build.block)
        BY <1>1, <1>4, <2>1, <2>5
      <3>2. /\ Len(handed'.queued) = Len(handed.queued) + 1
            /\ \A i \in 1..Len(handed.queued) :
                  handed'.queued[i] = handed.queued[i]
            /\ handed'.queued[Len(handed.queued) + 1] = build.block
        BY <1>1, <3>1, AppendFacts
      <3>3. DOMAIN handed'.queued = 1..(Len(handed.queued) + 1)
            /\ DOMAIN handed.queued = 1..Len(handed.queued)
        BY <1>1, <1>4, <3>2
      <3>4. ASSUME NEW i \in DOMAIN handed'.queued
            PROVE  handed'.queued[i].blockNumber = i
        <4>1. i \in 1..Len(handed.queued) \/ i = Len(handed.queued) + 1
          BY <1>1, <3>3
        <4>2. QED
          BY <2>3, <2>5, <3>2, <3>3, <4>1
      <3>5. QED
        BY <1>1, <2>3, <2>5, <3>2, <3>4
    <2>6. QED
      BY <1>1, <2>2, <2>4, <2>5
  <1>6. ASSUME faults \cap Accidents = {}
        PROVE  /\ handed'.queued = IF handed'.all = <<>> THEN <<>>
                                                         ELSE Tail(handed'.all)
               /\ pending.blockNumber = Len(handed'.all)
    <2>1. /\ handed.queued = IF handed.all = <<>> THEN <<>> ELSE Tail(handed.all)
          /\ pending.blockNumber = Len(handed.all) + 1
      BY <1>1, <1>6 DEF NodeInv, BlockShape, Taking
    <2>2. LastQueued = Len(handed.queued)
      BY <1>6, LastQueuedFacts DEF NodeInv, TypeOK, Accidents
    <2>3. handed'.all # <<>> /\ Len(handed'.all) = Len(handed.all) + 1
      <3>1. /\ Append(handed.all, build.block) # <<>>
            /\ Len(Append(handed.all, build.block)) = Len(handed.all) + 1
        BY <1>1, AppendFacts
      <3>2. QED
        BY <1>4, <3>1
    <2>4. build.block.blockNumber = Len(handed.all)
      BY <1>1, <2>1
    <2>5. CASE handed.all = <<>>
      <3>1. /\ handed.queued = <<>> /\ handed'.queued = handed.queued
            /\ handed'.all = <<build.block>>
        BY <1>1, <1>4, <2>1, <2>2, <2>4, <2>5
      <3>2. QED
        BY <2>1, <2>3, <3>1
    <2>6. CASE handed.all # <<>>
      <3>1. handed.queued = Tail(handed.all)
            /\ Len(handed.queued) = Len(handed.all) - 1
        BY <1>1, <2>1, <2>6, TailFacts
      <3>2. handed'.queued = Append(Tail(handed.all), build.block)
        BY <1>1, <1>4, <2>2, <2>4, <3>1
      <3>3. Tail(Append(handed.all, build.block)) =
               Append(Tail(handed.all), build.block)
        BY SMTT(30), <1>1, <2>6
      <3>4. QED
        BY <1>4, <2>1, <2>3, <3>2, <3>3
    <2>7. QED
      BY <2>5, <2>6
  <1>7. BlockShape'
    BY <1>1, <1>2, <1>3, <1>5, <1>6 DEF BlockShape, Taking
  <1>8. DatabaseType'
    BY <1>2 DEF NodeInv, TypeOK, DatabaseType
  <1>9. QED
    BY <1>1, <1>2, <1>4, <1>7, <1>8, BuildMovesKeeps

LEMMA ErrorStep ==
    ASSUME NodeInv, SubmitFails \/ BuildFails
    PROVE  NodeInv'
  <1>1. /\ build.at # "none" /\ lock # <<>> /\ lock \in Locks
        /\ lock' = Tail(lock) /\ build' = NoBuild /\ Throw
        /\ UNCHANGED <<remembers, machine, pending, clock, db, issued>>
        /\ aggregator \in Aggregators
        /\ aggregator.at # "idle" => aggregator.callers > 0
    BY DEF NodeInv, TypeOK, BuilderType, CallsType, Locks, Aggregators,
           CallShape, SubmitFails, BuildFails, Throw
  <1>2. /\ faults' \subseteq AllFaults
        /\ spent' \in [crashes : 0..MaxCrashes, failures : 0..MaxFailures]
        /\ "submit" \in faults' /\ faults' \cap Accidents # {}
    BY ErrorFacts DEF NodeInv, TypeOK
  <1>3. handed' \in [all : Seq(Blocks), queued : Seq(Blocks)]
    BY HandFacts DEF NodeInv, TypeOK, BuilderType, SubmitFails, BuildFails
  <1>4. /\ lock' \in Locks
        /\ \A i \in DOMAIN lock' :
              lock'[i] = "add" => /\ aggregator.at = "submitting"
                                  /\ ~Holds("add")
        /\ \A i, j \in DOMAIN lock' :
              lock'[i] = "add" /\ lock'[j] = "add" => i = j
        /\ Holds("add") => aggregator.at = "submitting"
    BY <1>1, TailOfLock DEF NodeInv
  <1>5. /\ aggregator' \in Aggregators
        /\ aggregator'.queue = aggregator.queue
        /\ aggregator'.next = aggregator.next
        /\ \/ aggregator' = aggregator /\ ~Holds("add")
           \/ aggregator'.at = "idle" /\ aggregator.at = "submitting"
              /\ Holds("add")
    <2>1. CASE Holds("add")
      <3>1. aggregator' = [aggregator EXCEPT !.at = "idle", !.res = None,
                                             !.index = 0, !.callers = @ - 1]
        BY <1>1, <2>1 DEF Throw
      <3>2. /\ aggregator.callers - 1 \in Nat /\ None \in Nat /\ 0 \in Nat
            /\ aggregator.at = "submitting"
        <4>1. aggregator.at = "submitting"
          BY <1>4, <2>1
        <4>2. aggregator.callers \in Nat /\ aggregator.callers > 0
          BY <1>1, <4>1 DEF Aggregators
        <4>3. QED
          BY <4>1, <4>2 DEF None
      <3>3. QED
        BY <1>1, <2>1, <3>1, <3>2 DEF Aggregators
    <2>2. CASE ~Holds("add")
      BY <1>1, <2>2 DEF Throw
    <2>3. QED
      BY <2>1, <2>2
  <1>6. TypeOK'
    <2>1. NodeType'
      BY <1>1, <1>2 DEF NodeInv, TypeOK, NodeType, Throw, AllFaults
    <2>2. CallsType'
      BY <1>1, <1>5 DEF NodeInv, TypeOK, CallsType, Aggregators
    <2>3. build'.block \in Blocks
      BY <1>1, NoBuildFacts
    <2>4. BuilderType'
      BY <1>1, <1>3, <1>4, <2>3 DEF NodeInv, TypeOK, BuilderType, NoBuild, Locks
    <2>5. DatabaseType'
      BY <1>1 DEF NodeInv, TypeOK, DatabaseType
    <2>6. QED
      BY <2>1, <2>2, <2>4, <2>5 DEF TypeOK
  <1>7. NumberShape'
    BY <1>1, <1>5 DEF NodeInv, NumberShape
  <1>8. CallShape'
    <2>1. /\ aggregator'.at # "idle" => aggregator'.callers > 0
          /\ \A i \in DOMAIN lock' : lock'[i] = "add" => aggregator'.at = "submitting"
      BY <1>1, <1>4, <1>5
    <2>2. build'.at = "none"
      BY <1>1 DEF NoBuild
    <2>3. QED
      BY <1>2, <1>4, <2>1, <2>2 DEF CallShape
  <1>9. StoredShape'
    <2>1. /\ aggregator'.at = "count" =>
                /\ aggregator.at = "count"
                /\ aggregator'.index = aggregator.index
          /\ aggregator'.at = "tx" <=> aggregator.at = "tx"
          /\ aggregator'.at = "tx" => aggregator'.index = aggregator.index
      BY <1>5
    <2>2. QED
      BY <1>1, <2>1 DEF NodeInv, StoredShape
  <1>10. BlockShape'
    BY <1>1, <1>2 DEF BlockShape, NoBuild
  <1>11. QED
    BY <1>6, <1>7, <1>8, <1>9, <1>10 DEF NodeInv

LEMMA CountResetStep ==
    ASSUME NodeInv, CountReset
    PROVE  NodeInv'
  <1>1. /\ build = [at |-> build.at, block |-> build.block,
                    jobs |-> build.jobs, root |-> build.root]
        /\ build.at = "count"
    BY DEF NodeInv, TypeOK, BuilderType, CountReset
  <1>2. BuildMoves("number") /\ handed' = handed
    BY <1>1 DEF CountReset, BuildMoves
  <1>3. /\ db' = [txs |-> db.txs, count |-> 0, number |-> db.number,
                  next |-> db.next]
        /\ db'.txs = db.txs /\ db'.count = 0 /\ db'.number = db.number
        /\ db'.next = db.next
    BY DEF NodeInv, TypeOK, DatabaseType, CountReset
  <1>4. build'.at = "number" /\ build'.block = build.block
        /\ UNCHANGED <<pending, faults>>
    BY <1>2 DEF BuildMoves
  <1>5. BlockShape'
    BY <1>1, <1>2, <1>3, <1>4 DEF NodeInv, BlockShape, Taking
  <1>6. DatabaseType' /\ handed' \in [all : Seq(Blocks), queued : Seq(Blocks)]
    BY <1>2, <1>3 DEF NodeInv, TypeOK, BuilderType, DatabaseType
  <1>7. QED
    BY <1>1, <1>2, <1>3, <1>5, <1>6, BuildMovesKeeps

LEMMA BlockNumberStoredStep ==
    ASSUME NodeInv, BlockNumberStored
    PROVE  NodeInv'
  <1>1. /\ build.at = "number" /\ build' = NoBuild /\ Return /\ lock # <<>>
        /\ clock' = Clock(1, clock.armed + clock.old)
        /\ UNCHANGED <<remembers, machine, pending, handed, issued, faults,
                       spent>>
        /\ pending.blockNumber \in Nat
    BY BlockFacts DEF NodeInv, TypeOK, BuilderType, CallShape, BlockNumberStored
  <1>2. /\ db' = [txs |-> db.txs, count |-> db.count,
                  number |-> pending.blockNumber, next |-> db.next]
        /\ db'.txs = db.txs /\ db'.count = db.count
        /\ db'.number = pending.blockNumber /\ db'.next = db.next
    BY DEF NodeInv, TypeOK, DatabaseType, BlockNumberStored
  <1>3. build'.at = "none" /\ build'.block \in Blocks
    BY <1>1, NoBuildFacts
  <1>4. /\ NodeType' /\ CallsType' /\ NumberShape' /\ CallShape'
        /\ lock' \in Locks
        /\ aggregator'.index = aggregator.index
        /\ (aggregator'.at = "count") <=> (aggregator.at = "count")
        /\ (aggregator'.at = "tx") <=> (aggregator.at = "tx")
    BY <1>1, <1>2, <1>3, ReturnKeeps
  <1>5. clock' \in [armed : Nat, old : Nat, elapsed : BOOLEAN]
    <2>1. clock.armed + clock.old \in Nat
      BY DEF NodeInv, TypeOK, BuilderType
    <2>2. QED
      BY <1>1, <2>1 DEF Clock
  <1>6. BuilderType'
    BY <1>1, <1>3, <1>4, <1>5 DEF NodeInv, TypeOK, BuilderType, NoBuild, Locks
  <1>7. DatabaseType'
    BY <1>1, <1>2 DEF NodeInv, TypeOK, DatabaseType, Absent
  <1>8. StoredShape'
    BY <1>1, <1>2, <1>4 DEF NodeInv, StoredShape
  <1>9. BlockShape'
    BY <1>1, <1>2, <1>3 DEF NodeInv, BlockShape, Taking
  <1>10. QED
    BY <1>4, <1>6, <1>7, <1>8, <1>9 DEF NodeInv, TypeOK

LEMMA TimeoutFiresStep ==
    ASSUME NodeInv, TimeoutFires
    PROVE  NodeInv'
  <1>1. /\ lock \in Locks /\ lock' = Append(lock, "timer")
        /\ UNCHANGED <<status, remembers, machine, aggregator, pending, build,
                       db, handed, issued, faults, spent>>
    BY DEF NodeInv, TypeOK, BuilderType, Locks, TimeoutFires
  <1>2. /\ lock' \in Locks /\ lock' # <<>>
        /\ \A i \in DOMAIN lock' :
              lock'[i] = "add" => aggregator.at = "submitting"
        /\ \A i, j \in DOMAIN lock' :
              lock'[i] = "add" /\ lock'[j] = "add" => i = j
    BY <1>1, AppendToLock DEF NodeInv
  <1>3. clock' \in [armed : Nat, old : Nat, elapsed : BOOLEAN]
    <2>1. clock \in [armed : Nat, old : Nat, elapsed : BOOLEAN]
      BY DEF NodeInv, TypeOK, BuilderType
    <2>2. CASE /\ clock.armed > 0
               /\ clock' = [clock EXCEPT !.armed = @ - 1, !.elapsed = TRUE]
      <3>1. clock.armed - 1 \in Nat
        BY <2>1, <2>2
      <3>2. QED
        BY <2>1, <2>2, <3>1
    <2>3. CASE clock.old > 0 /\ clock' = [clock EXCEPT !.old = @ - 1]
      <3>1. clock.old - 1 \in Nat
        BY <2>1, <2>3
      <3>2. QED
        BY <2>1, <2>3, <3>1
    <2>4. QED
      BY <2>2, <2>3 DEF TimeoutFires
  <1>4. TypeOK'
    BY <1>1, <1>2, <1>3 DEF NodeInv, TypeOK, NodeType, CallsType, BuilderType,
                            DatabaseType, Locks
  <1>5. CallShape'
    BY <1>1, <1>2 DEF NodeInv, CallShape
  <1>6. NumberShape' /\ StoredShape' /\ BlockShape'
    BY <1>1 DEF NodeInv, NumberShape, StoredShape, BlockShape, Taking
  <1>7. QED
    BY <1>4, <1>5, <1>6 DEF NodeInv

-----------------------------------------------------------------------------
(***************************************************************************)
(* A crash, and a start after an init that failed.                         *)
(***************************************************************************)
LEMMA RestartedStep ==
    ASSUME NodeInv, Restarted, NodeType',
           faults \subseteq faults', faults' \cap {"crash", "submit"} # {}
    PROVE  NodeInv'
  <1>1. /\ RecoveredBlock \in Blocks
        /\ Fresh => RecoveredBlock = Block(0, <<>>)
        /\ ~Fresh => /\ db.count \in Nat
                     /\ Len(RecoveredBlock.txs) = db.count
                     /\ RecoveredBlock.blockNumber =
                           IF db.number = Absent THEN 1 ELSE db.number
    BY RecoveredFacts DEF NodeInv
  <1>2. /\ pending' = RecoveredBlock /\ build' = NoBuild
        /\ UNCHANGED <<remembers, db, handed, issued>>
        /\ lock' = IF Fresh THEN <<>> ELSE <<"init">>
        /\ status' = IF Fresh THEN "processing" ELSE "building"
    BY DEF Restarted
  <1>3. machine' \in Machines /\ machine'.next = machine.stored
        /\ machine'.stored = machine.stored /\ machine'.applying = None
        /\ machine'.returned = {}
    BY DEF NodeInv, TypeOK, CallsType, Machines, Restarted, None
  <1>4. /\ aggregator' \in Aggregators /\ aggregator'.at = "idle"
        /\ aggregator'.queue = RecoveredResults
    <2>1. RecoveredResults \subseteq issued
      BY DEF RecoveredResults
    <2>2. /\ RecoveredResults \in SUBSET Transactions
          /\ NextToProcess \in Nat
          /\ None \in Nat
      BY <2>1 DEF NodeInv, TypeOK, NodeType, DatabaseType, NextToProcess, None
    <2>3. aggregator' = [queue |-> RecoveredResults, next |-> NextToProcess,
                         callers |-> IF Fresh THEN 1 ELSE 0, at |-> "idle",
                         res |-> None, index |-> 0]
      BY DEF Restarted, NoAggregator
    <2>4. QED
      BY <2>2, <2>3 DEF Aggregators
  <1>5. /\ lock' \in Locks
        /\ \A i \in DOMAIN lock' : lock'[i] = "init"
    <2>1. CASE lock' = <<>>
      BY <2>1 DEF Locks
    <2>2. CASE lock' = <<"init">>
      BY <2>2 DEF Locks
    <2>3. QED
      BY <1>2, <2>1, <2>2
  <1>6. build'.at = "none" /\ build'.block \in Blocks
        /\ build' = [at |-> build'.at, block |-> build'.block,
                     jobs |-> build'.jobs, root |-> build'.root]
    BY <1>2, NoBuildFacts
  <1>7. TypeOK'
    <2>1. clock' \in [armed : Nat, old : Nat, elapsed : BOOLEAN]
      BY DEF Restarted, Clock
    <2>2. BuilderType'
      BY <1>1, <1>2, <1>5, <1>6, <2>1
         DEF NodeInv, TypeOK, BuilderType, Locks
    <2>3. CallsType'
      BY <1>3, <1>4 DEF CallsType, Machines, Aggregators
    <2>4. DatabaseType'
      BY <1>2 DEF NodeInv, TypeOK, DatabaseType
    <2>5. QED
      BY <2>2, <2>3, <2>4 DEF TypeOK
  <1>8. NumberShape'
    <2>1. RecoveredResults \subseteq issued
      BY DEF RecoveredResults
    <2>2. machine.stored \in Nat
      BY DEF NodeInv, TypeOK, CallsType
    <2>3. QED
      BY <1>2, <1>3, <1>4, <2>1, <2>2 DEF NodeInv, NumberShape
  <1>9. CallShape'
    BY <1>2, <1>4, <1>5, <1>6 DEF CallShape
  <1>10. StoredShape'
    <2>1. db.count # Absent => 1..db.count \subseteq DOMAIN db.txs
      BY DEF NodeInv, StoredShape
    <2>2. CASE Fresh
      BY <1>1, <1>2, <1>4, <2>1, <2>2, BlockFacts DEF StoredShape, Block
    <2>3. CASE ~Fresh
      BY <1>1, <1>2, <1>4, <2>1, <2>3 DEF StoredShape, Fresh
    <2>4. QED
      BY <2>2, <2>3
  <1>11. BlockShape'
    <2>1. faults' \cap Accidents # {}
      BY DEF Accidents
    <2>2. ASSUME "submit" \notin faults'
          PROVE  /\ \A i \in DOMAIN handed.queued :
                       handed.queued[i].blockNumber = i
                 /\ RecoveredBlock.blockNumber <= Len(handed.queued) + 1
                 /\ db.number # Absent => db.number <= Len(handed.queued) + 1
      <3>1. /\ \A i \in DOMAIN handed.queued :
                  handed.queued[i].blockNumber = i
            /\ db.number # Absent => db.number <= Len(handed.queued) + 1
        BY <2>2 DEF NodeInv, BlockShape
      <3>2. Len(handed.queued) \in Nat
        BY DEF NodeInv, TypeOK, BuilderType
      <3>3. Fresh => RecoveredBlock.blockNumber = 0
        BY <1>1 DEF Block
      <3>4. QED
        BY <1>1, <3>1, <3>2, <3>3
    <2>3. QED
      BY <1>2, <1>6, <2>1, <2>2 DEF BlockShape, Taking
  <1>12. QED
    BY <1>7, <1>8, <1>9, <1>10, <1>11 DEF NodeInv

LEMMA CrashStep ==
    ASSUME NodeInv, Crash
    PROVE  NodeInv'
  <1>1. NodeType'
    <2>1. spent' \in [crashes : 0..MaxCrashes, failures : 0..MaxFailures]
      BY DEF NodeInv, TypeOK, NodeType, Crash
    <2>2. QED
      BY <2>1 DEF NodeInv, TypeOK, NodeType, Crash, Restarted
  <1>2. QED
    BY <1>1, RestartedStep DEF Crash

LEMMA StartStep ==
    ASSUME NodeInv, Start
    PROVE  NodeInv'
  <1>1. "submit" \in faults
    BY DEF NodeInv, CallShape, Start
  <1>2. NodeType'
    BY DEF NodeInv, TypeOK, NodeType, Start, Restarted
  <1>3. QED
    BY <1>1, <1>2, RestartedStep DEF Start

-----------------------------------------------------------------------------
(***************************************************************************)
(* The types and the numbers.                                              *)
(***************************************************************************)
LEMMA NodeStart ==
    ASSUME Init
    PROVE  NodeInv
  <1>1. <<>> \in Seq(Transactions) /\ <<>> \in Seq(Blocks)
    OBVIOUS
  <1>2. pending \in Blocks /\ NoBuild.block \in Blocks
    BY <1>1, BlockIsBlock DEF Init, NoBuild
  <1>3. TypeOK
    <2>1. NodeType /\ CallsType
      BY DEF Init, NodeType, CallsType, NoAggregator, None
    <2>2. BuilderType /\ DatabaseType
      BY <1>1, <1>2 DEF Init, BuilderType, DatabaseType, NoBuild, Clock
    <2>3. QED
      BY <2>1, <2>2 DEF TypeOK
  <1>4. NumberShape /\ CallShape
    BY DEF Init, NumberShape, CallShape, NoAggregator, NoBuild
  <1>5. StoredShape /\ BlockShape
    BY <1>1 DEF Init, StoredShape, BlockShape, Taking, NoAggregator, NoBuild,
                Block
  <1>6. QED
    BY <1>3, <1>4, <1>5 DEF NodeInv

LEMMA NodeNext ==
    ASSUME NodeInv, [Next]_vars
    PROVE  NodeInv'
  <1>1. CASE StateMachine
    BY <1>1, ApplyStep, NumberStoredStep, NumberFailsStep DEF StateMachine
  <1>2. CASE Aggregator
    BY <1>2, HandleResultStep, ProcessStep, AddTransactionResultStep,
       TransactionStoredStep, CountStoredStep, NextStoredStep DEF Aggregator
  <1>3. CASE Builder
    BY <1>3, DeferredStep, BuildBlockStep, JobStep, UpdateContractSlotsStep,
       MisplaceStep, SubmittedStep, ErrorStep, CountResetStep, BlockNumberStoredStep
       DEF Builder
  <1>4. CASE TimeoutFires \/ Crash \/ Start
    BY <1>4, TimeoutFiresStep, CrashStep, StartStep
  <1>5. CASE UNCHANGED vars
    <2>1. UNCHANGED <<status, remembers, machine, aggregator, pending, lock,
                      build, clock, handed, db, issued, faults, spent>>
      BY <1>5 DEF vars, builderVars
    <2>2. TypeOK'
      BY <2>1 DEF NodeInv, TypeOK, NodeType, CallsType, BuilderType,
                  DatabaseType
    <2>3. NumberShape' /\ CallShape' /\ StoredShape' /\ BlockShape'
      BY <2>1 DEF NodeInv, NumberShape, CallShape, StoredShape, BlockShape,
                  Taking
    <2>4. QED
      BY <2>2, <2>3 DEF NodeInv
  <1>6. QED
    BY <1>1, <1>2, <1>3, <1>4, <1>5 DEF Next

LEMMA NodeInvariant == Spec => []NodeInv
  BY NodeStart, NodeNext, PTL DEF Spec

\* The node's variables keep their types, through every crash and failure.
THEOREM TypeCorrect == Spec => []TypeOK
  <1>1. NodeInv => TypeOK
    BY DEF NodeInv
  <1>2. QED
    BY <1>1, NodeInvariant, PTL

LEMMA NumbersFollow ==
    ASSUME NodeInv
    PROVE  NumberingInv
  <1>1. NumbersAreUnique
    <2>1. /\ issued \subseteq 1..(machine.stored - 1)
          /\ machine.stored \in Nat /\ machine.applying \in Nat
          /\ machine.applying # None => machine.stored <= machine.applying
      BY DEF NodeInv, TypeOK, CallsType, NumberShape
    <2>2. QED
      BY <2>1 DEF NumbersAreUnique, None
  <1>2. QueuedNumbersAreContiguous
    BY DEF NodeInv, BlockShape, QueuedNumbersAreContiguous
  <1>3. OnlyBlockZeroIsIgnored
    BY DEF NodeInv, BlockShape, OnlyBlockZeroIsIgnored
  <1>4. QED
    BY <1>1, <1>2, <1>3 DEF NodeInv, NumberingInv

\* The state machine gives no number again whose result it has returned, and
\* the submitter queues the blocks 1, 2, ... without a gap: all those handed
\* over but block 0.  However often the node crashes, as long as no submission
\* fails (or, for the last part, nothing at all).
THEOREM NumbersAreKept == Spec => []NumberingInv
  BY NodeInvariant, NumbersFollow, PTL

-----------------------------------------------------------------------------
(***************************************************************************)
(* What a restart would recover.                                           *)
(***************************************************************************)
LEMMA RecoveredIs ==
    /\ RecoveredBlock.txs =
          IF Fresh THEN <<>> ELSE [i \in 1..db.count |-> db.txs[i]]
    /\ RecoveredBlock.blockNumber =
          IF Fresh THEN 0 ELSE IF db.number = Absent THEN 1 ELSE db.number
    /\ RecoveredTxs = RecoveredBlock.txs
  BY DEF RecoveredBlock, Block, RecoveredTxs

LEMMA RecoveredIsNext ==
    /\ RecoveredBlock'.txs =
          IF Fresh' THEN <<>> ELSE [i \in 1..db'.count |-> db'.txs[i]]
    /\ RecoveredBlock'.blockNumber =
          IF Fresh' THEN 0 ELSE IF db'.number = Absent THEN 1 ELSE db'.number
    /\ RecoveredTxs' = RecoveredBlock'.txs
  BY DEF RecoveredBlock, Block, RecoveredTxs

\* Between AddTransactionResult and the write of the count.
Adding == aggregator.at \in {"tx", "count"}

\* A build whose block the database still covers.
Covered == build.at \in {"storage", "submitting", "count"}

LEMMA DurableFrame ==
    ASSUME Durable, UNCHANGED <<pending, db>>,
           aggregator'.next = aggregator.next,
           \/ /\ aggregator'.at = aggregator.at
              /\ aggregator'.index = aggregator.index
              /\ aggregator'.res = aggregator.res
           \/ ~Adding /\ ~Adding',
           build'.block = build.block,
           build'.at = build.at \/ (Covered /\ Covered')
    PROVE  Durable'
  <1>1. /\ Fresh' = Fresh /\ RecoveredBlock' = RecoveredBlock
        /\ RecoveredTxs' = RecoveredTxs
        /\ \A n : SameUpTo(n)' = SameUpTo(n)
    BY DEF Fresh, RecoveredBlock, RecoveredTxs, SameUpTo
  <1>2. /\ (build'.at = "none") <=> (build.at = "none")
        /\ (build'.at = "number") <=> (build.at = "number")
        /\ Covered' <=> Covered
    BY DEF Covered
  <1>3. CASE /\ aggregator'.at = aggregator.at
             /\ aggregator'.index = aggregator.index
             /\ aggregator'.res = aggregator.res
    BY <1>1, <1>2, <1>3 DEF Durable, Covered
  <1>4. CASE ~Adding /\ ~Adding'
    BY <1>1, <1>2, <1>4 DEF Durable, Covered, Adding
  <1>5. QED
    BY <1>3, <1>4

LEMMA AddIsDurable ==
    ASSUME NodeInv, Durable, AddTransactionResult, Unhurt'
    PROVE  Durable'
  <1> DEFINE n == Min(aggregator.queue)
  <1>1. /\ build.at = "none" /\ aggregator.at = "idle"
        /\ UNCHANGED <<db, build>>
    BY DEF AddTransactionResult, Unhurt
  <1>2. /\ Fresh' = Fresh /\ RecoveredBlock' = RecoveredBlock
        /\ RecoveredTxs' = RecoveredTxs
    BY <1>1 DEF Fresh, RecoveredBlock, RecoveredTxs
  <1>3. /\ RecoveredTxs = pending.txs
        /\ Fresh => pending.blockNumber = 0
        /\ \/ RecoveredBlock.blockNumber = pending.blockNumber
           \/ pending.blockNumber = 0
        /\ db.next # Absent => aggregator.next <= db.next + 1
    BY <1>1 DEF Durable
  <1>4. /\ aggregator \in Aggregators /\ n \in Transactions
        /\ pending \in Blocks /\ pending.txs \in Seq(Transactions)
        /\ Len(pending.txs) \in Nat
    BY BlockFacts, MinQueued
       DEF NodeInv, TypeOK, CallsType, BuilderType, Aggregators,
           AddTransactionResult
  <1>5. CASE IsDuplicate(n)
    <2>1. pending' = pending /\ aggregator' =
             [aggregator EXCEPT !.queue = @ \ {n}, !.at = "next", !.res = n]
      BY <1>5 DEF AddTransactionResult
    <2>2. aggregator'.at = "next" /\ aggregator'.next = aggregator.next
      BY <1>4, <2>1 DEF Aggregators
    <2>3. QED
      BY <1>1, <2>1, <2>2, DurableFrame DEF Adding
  <1>6. CASE ~IsDuplicate(n)
    <2>1. /\ pending' = [pending EXCEPT !.txs = Append(pending.txs, n)]
          /\ aggregator' = [aggregator EXCEPT
                               !.queue = @ \ {n}, !.at = "tx",
                               !.res = n, !.index = Len(pending.txs) + 1]
      BY <1>6 DEF AddTransactionResult
    <2> HIDE DEF n
    <2>2. /\ aggregator'.at = "tx" /\ aggregator'.next = aggregator.next
          /\ aggregator'.res = n /\ aggregator'.index = Len(pending.txs) + 1
      BY <1>4, <2>1 DEF Aggregators
    <2>3. /\ pending'.txs = Append(pending.txs, n)
          /\ pending'.blockNumber = pending.blockNumber
      BY <1>4, <2>1 DEF Blocks
    <2>4. /\ pending'.txs \in Seq(Transactions) /\ pending'.txs # <<>>
          /\ Len(pending'.txs) = Len(pending.txs) + 1
          /\ \A i \in 1..Len(pending.txs) : pending'.txs[i] = pending.txs[i]
          /\ pending'.txs[Len(pending.txs) + 1] = n
      BY <1>4, <2>3, AppendFacts
    <2>5. aggregator'.res = Last(pending'.txs)
      BY <2>2, <2>4 DEF Last
    <2>6. /\ db.count = IF Fresh THEN Absent ELSE Len(pending.txs)
          /\ Fresh => Len(pending.txs) = 0
      <3>1. CASE Fresh
        BY <1>3, <3>1, RecoveredIs DEF Fresh
      <3>2. CASE ~Fresh
        BY <1>3, <3>2, RecoveredIs, RecoveredFacts DEF NodeInv
      <3>3. QED
        BY <3>1, <3>2
    <2>7. SameUpTo(aggregator.index - 1)'
      <3>1. ASSUME NEW i \in 1..Len(pending.txs)
            PROVE  db.txs[i] = pending'.txs[i]
        <4>1. ~Fresh /\ i \in 1..db.count
          BY <1>4, <2>6
        <4>2. RecoveredTxs[i] = db.txs[i]
          BY <4>1, RecoveredIs
        <4>3. QED
          BY <1>3, <2>4, <4>2
      <3>2. aggregator'.index - 1 = Len(pending.txs)
        BY <1>4, <2>2
      <3>3. QED
        BY <1>1, <3>1, <3>2 DEF SameUpTo
    <2>8. /\ aggregator'.index = Len(pending'.txs)
          /\ db'.count = IF Fresh' THEN Absent ELSE aggregator'.index - 1
          /\ Fresh' => aggregator'.index = 1
      BY <1>1, <1>2, <1>4, <2>2, <2>4, <2>6
    <2>9. QED
      BY <1>1, <1>2, <1>3, <2>2, <2>3, <2>4, <2>5, <2>7, <2>8 DEF Durable
  <1>7. QED
    BY <1>5, <1>6

LEMMA TransactionStoredIsDurable ==
    ASSUME NodeInv, Durable, TransactionStored
    PROVE  Durable'
  <1>1. /\ aggregator.at = "tx" /\ aggregator \in Aggregators
        /\ UNCHANGED <<pending, build>>
        /\ pending.txs \in Seq(Transactions) /\ Len(pending.txs) \in Nat
        /\ aggregator' = [aggregator EXCEPT !.at = "count",
                                            !.index = Len(pending.txs)]
    BY BlockFacts DEF NodeInv, TypeOK, CallsType, BuilderType, Aggregators,
                      TransactionStored, builderVars
  <1>2. /\ aggregator'.at = "count" /\ aggregator'.index = Len(pending.txs)
        /\ aggregator'.next = aggregator.next
        /\ aggregator'.res = aggregator.res
    BY <1>1 DEF Aggregators
  <1>3. /\ db'.count = db.count /\ db'.number = db.number
        /\ db'.next = db.next
        /\ db'.txs = [i \in DOMAIN db.txs \cup {aggregator.index} |->
                         IF i = aggregator.index THEN aggregator.res
                                                 ELSE db.txs[i]]
    BY DEF NodeInv, TypeOK, DatabaseType, TransactionStored
  <1>4. /\ build.at = "none"
        /\ aggregator.index = Len(pending.txs) /\ pending.txs # <<>>
        /\ aggregator.res = Last(pending.txs)
        /\ db.count = IF Fresh THEN Absent ELSE aggregator.index - 1
        /\ Fresh => aggregator.index = 1
        /\ SameUpTo(aggregator.index - 1)
        /\ Fresh => pending.blockNumber = 0
        /\ \/ RecoveredBlock.blockNumber = pending.blockNumber
           \/ pending.blockNumber = 0
        /\ db.next # Absent => aggregator.next <= db.next + 1
    BY <1>1 DEF Durable
  <1>5. Fresh' = Fresh
        /\ RecoveredBlock'.blockNumber = RecoveredBlock.blockNumber
    BY <1>3, RecoveredIs, RecoveredIsNext DEF Fresh
  <1>6. ASSUME NEW i \in 1..Len(pending.txs)
        PROVE  db'.txs[i] = pending.txs[i]
    <2>1. i \in DOMAIN db.txs \cup {aggregator.index}
      BY <1>1 DEF NodeInv, StoredShape
    <2>2. CASE i = Len(pending.txs)
      BY <1>3, <1>4, <2>1, <2>2 DEF Last
    <2>3. CASE i # Len(pending.txs)
      <3>1. i \in 1..(aggregator.index - 1)
        BY <1>1, <1>4, <2>3
      <3>2. QED
        BY <1>3, <1>4, <2>1, <2>3, <3>1 DEF SameUpTo
    <2>4. QED
      BY <2>2, <2>3
  <1>7. SameUpTo(aggregator.index)'
    BY <1>1, <1>2, <1>6 DEF SameUpTo
  <1>8. QED
    BY <1>1, <1>2, <1>3, <1>4, <1>5, <1>7 DEF Durable

LEMMA CountStoredIsDurable ==
    ASSUME NodeInv, Durable, CountStored
    PROVE  Durable'
  <1>1. /\ aggregator.at = "count" /\ aggregator \in Aggregators
        /\ UNCHANGED <<pending, build>>
        /\ pending.txs \in Seq(Transactions) /\ Len(pending.txs) \in Nat
    BY BlockFacts DEF NodeInv, TypeOK, CallsType, BuilderType, Aggregators,
                      CountStored
  <1>2. /\ aggregator'.at \notin {"tx", "count"}
        /\ aggregator'.next = aggregator.next
    BY <1>1 DEF Aggregators, CountStored
  <1>3. /\ db'.count = aggregator.index /\ db'.number = db.number
        /\ db'.next = db.next /\ db'.txs = db.txs
    BY DEF NodeInv, TypeOK, DatabaseType, CountStored
  <1>4. /\ build.at = "none" /\ aggregator.index = Len(pending.txs)
        /\ SameUpTo(aggregator.index)
        /\ Fresh => pending.blockNumber = 0
        /\ \/ RecoveredBlock.blockNumber = pending.blockNumber
           \/ pending.blockNumber = 0
        /\ db.next # Absent => aggregator.next <= db.next + 1
    BY <1>1 DEF Durable
  <1>5. ~Fresh'
    BY <1>1, <1>3, <1>4 DEF Fresh, Absent
  <1>6. RecoveredTxs' = pending'.txs
    <2>1. RecoveredTxs' = [i \in 1..Len(pending.txs) |-> db.txs[i]]
      BY <1>3, <1>4, <1>5, RecoveredIsNext
    <2>2. \A i \in 1..Len(pending.txs) : db.txs[i] = pending.txs[i]
      BY <1>4 DEF SameUpTo
    <2>3. pending.txs = [i \in 1..Len(pending.txs) |-> pending.txs[i]]
      BY SMTT(30), <1>1
    <2>4. QED
      BY <1>1, <2>1, <2>2, <2>3
  <1>7. \/ RecoveredBlock'.blockNumber = pending.blockNumber
        \/ pending.blockNumber = 0
    BY <1>3, <1>4, <1>5, RecoveredIs, RecoveredIsNext
  <1>8. QED
    BY <1>1, <1>2, <1>3, <1>4, <1>5, <1>6, <1>7 DEF Durable

LEMMA NextStoredIsDurable ==
    ASSUME NodeInv, Durable, NextStored
    PROVE  Durable'
  <1>1. /\ aggregator.at = "next" /\ aggregator \in Aggregators
        /\ UNCHANGED <<pending, build>> /\ aggregator.res \in Nat
    BY DEF NodeInv, TypeOK, CallsType, Aggregators, NextStored, builderVars
  <1>2. aggregator'.at = "idle" /\ aggregator'.next = aggregator.res + 1
    BY <1>1 DEF Aggregators, NextStored
  <1>3. /\ db'.count = db.count /\ db'.number = db.number
        /\ db'.next = aggregator.res /\ db'.txs = db.txs
    BY DEF NodeInv, TypeOK, DatabaseType, NextStored
  <1>4. /\ Fresh' = Fresh /\ RecoveredTxs' = RecoveredTxs
        /\ RecoveredBlock'.blockNumber = RecoveredBlock.blockNumber
    BY <1>3, RecoveredIs, RecoveredIsNext DEF Fresh
  <1>5. aggregator'.next <= db'.next + 1
    BY <1>1, <1>2, <1>3
  <1>6. QED
    BY <1>1, <1>2, <1>3, <1>4, <1>5 DEF Durable

LEMMA DeferredIsDurable ==
    ASSUME NodeInv, Durable, Deferred
    PROVE  Durable'
  <1>1. lock # <<>> /\ Return /\ UNCHANGED <<pending, db, build>>
    BY DEF Deferred
  <1>2. /\ aggregator'.next = aggregator.next
        /\ aggregator'.index = aggregator.index
        /\ aggregator'.res = aggregator.res
        /\ \/ aggregator'.at = aggregator.at
           \/ aggregator.at = "submitting" /\ aggregator'.at = "next"
    BY <1>1, ReturnFacts DEF NodeInv
  <1>3. QED
    BY <1>1, <1>2, DurableFrame DEF Adding

LEMMA BuildBlockIsDurable ==
    ASSUME NodeInv, Durable, BuildBlock, Unhurt'
    PROVE  Durable'
  <1>1. /\ build.at = "none" /\ UNCHANGED <<db, aggregator>>
        /\ pending' = Block(pending.blockNumber + 1, <<>>)
        /\ build'.at = "storage" /\ build'.block = pending
        /\ aggregator.at \notin {"tx", "count"}
    BY DEF BuildBlock, NoBuild, Unhurt
  <1>2. pending'.txs = <<>>
    BY <1>1 DEF Block
  <1>3. pending.txs # <<>>
    <2>1. Len(pending.txs) >= MaxPerBlock \/ pending.txs # <<>>
      BY BlockFacts DEF BuildBlock, NotYet, NodeInv, TypeOK, BuilderType
    <2>2. QED
      BY <2>1
  <1>4. /\ RecoveredTxs = pending.txs
        /\ Fresh => pending.blockNumber = 0
        /\ \/ RecoveredBlock.blockNumber = pending.blockNumber
           \/ pending.blockNumber = 0
        /\ db.next # Absent => aggregator.next <= db.next + 1
    BY <1>1 DEF Durable
  <1>5. ~Fresh
    BY <1>3, <1>4, RecoveredIs
  <1>6. /\ Fresh' = Fresh /\ RecoveredBlock' = RecoveredBlock
        /\ RecoveredTxs' = RecoveredTxs
    BY <1>1 DEF Fresh, RecoveredBlock, RecoveredTxs
  <1>7. QED
    BY <1>1, <1>2, <1>4, <1>5, <1>6 DEF Durable

LEMMA CountResetIsDurable ==
    ASSUME NodeInv, Durable, CountReset
    PROVE  Durable'
  <1>1. /\ build.at = "count" /\ build'.at = "number"
        /\ build'.block = build.block
        /\ UNCHANGED <<pending, aggregator>>
    BY DEF NodeInv, TypeOK, BuilderType, CountReset
  <1>2. /\ db'.count = 0 /\ db'.number = db.number
        /\ db'.next = db.next /\ db'.txs = db.txs
    BY DEF NodeInv, TypeOK, DatabaseType, CountReset
  <1>3. ~Fresh /\ ~Fresh'
    BY <1>1, <1>2 DEF Durable, Fresh, Absent
  <1>4. RecoveredBlock'.blockNumber = RecoveredBlock.blockNumber
    BY <1>2, <1>3, RecoveredIs, RecoveredIsNext
  <1>5. aggregator.at \notin {"tx", "count"} /\ pending.txs = <<>>
    BY <1>1 DEF Durable
  <1>6. QED
    BY <1>1, <1>2, <1>3, <1>4, <1>5 DEF Durable

LEMMA BlockNumberStoredIsDurable ==
    ASSUME NodeInv, Durable, BlockNumberStored
    PROVE  Durable'
  <1>1. /\ build.at = "number" /\ build'.at = "none" /\ pending' = pending
        /\ Return /\ lock # <<>> /\ pending.blockNumber \in Nat
    BY BlockFacts DEF NodeInv, TypeOK, BuilderType, CallShape, NoBuild,
                      BlockNumberStored
  <1>2. /\ db'.count = db.count /\ db'.number = pending.blockNumber
        /\ db'.next = db.next /\ db'.txs = db.txs
    BY DEF NodeInv, TypeOK, DatabaseType, BlockNumberStored
  <1>3. /\ db.count = 0 /\ pending.txs = <<>> /\ ~Fresh
        /\ aggregator.at \notin {"tx", "count"}
        /\ db.next # Absent => aggregator.next <= db.next + 1
    BY <1>1 DEF Durable
  <1>4. aggregator'.at \notin {"tx", "count"}
        /\ aggregator'.next = aggregator.next
    BY <1>1, <1>3, ReturnFacts DEF NodeInv
  <1>5. ~Fresh'
    BY <1>2, <1>3 DEF Fresh
  <1>6. RecoveredTxs' = <<>>
    BY <1>2, <1>3, <1>5, RecoveredIsNext
  <1>7. RecoveredBlock'.blockNumber = pending.blockNumber
    BY <1>1, <1>2, <1>5, RecoveredIsNext DEF Absent
  <1>8. QED
    BY <1>1, <1>2, <1>3, <1>4, <1>5, <1>6, <1>7 DEF Durable

LEMMA RestartIsDurable ==
    ASSUME NodeInv, Restarted
    PROVE  Durable'
  <1>1. /\ db' = db /\ pending' = RecoveredBlock /\ build'.at = "none"
        /\ aggregator'.at = "idle" /\ aggregator'.next = NextToProcess
    BY DEF Restarted, NoAggregator, NoBuild
  <1>2. /\ Fresh' = Fresh /\ RecoveredBlock' = RecoveredBlock
        /\ RecoveredTxs' = RecoveredTxs
    BY <1>1 DEF Fresh, RecoveredBlock, RecoveredTxs
  <1>3. db.next # Absent => aggregator'.next <= db.next + 1
    BY <1>1 DEF NextToProcess, NodeInv, TypeOK, DatabaseType
  <1>4. QED
    BY <1>1, <1>2, <1>3, RecoveredIs DEF Durable

LEMMA DurableStart ==
    ASSUME Init
    PROVE  DurableShape
  <1>1. /\ aggregator.at = "idle" /\ build.at = "none" /\ Fresh
        /\ pending.txs = <<>> /\ pending.blockNumber = 0 /\ db.next = Absent
    BY DEF Init, NoAggregator, NoBuild, Fresh, Block
  <1>2. QED
    BY <1>1, RecoveredIs DEF DurableShape, Durable

LEMMA DurableNext ==
    ASSUME NodeInv, DurableShape, [Next]_vars
    PROVE  DurableShape'
  <1> SUFFICES ASSUME Unhurt'
               PROVE  Durable'
    BY DEF DurableShape
  <1>1. CASE Crash \/ Start
    BY <1>1, RestartIsDurable DEF Crash, Start
  <1>2. CASE SubmitFails \/ BuildFails
    <2>1. "submit" \in faults'
      BY <1>2, ErrorFacts DEF NodeInv, TypeOK
    <2>2. QED
      BY <2>1 DEF Unhurt
  <1>3. CASE ~(Crash \/ Start \/ SubmitFails \/ BuildFails)
    <2>1. Durable
      BY <1>3
         DEF Unhurt, DurableShape, Next, StateMachine, Aggregator, Builder,
             Apply, NumberStored, NumberFails, Fails, HandleResult, Process,
             AddTransactionResult, TransactionStored, CountStored, NextStored,
             Deferred, BuildBlock, OpenSubtree, UpdateStorageSlot,
             UpdateContractSlots, Misplace, Submitted, CountReset,
             BlockNumberStored,
             TimeoutFires, vars
    <2>2. CASE StateMachine \/ TimeoutFires \/ UNCHANGED vars
      <3>1. UNCHANGED <<aggregator, pending, build, db>>
        BY <2>2 DEF StateMachine, Apply, NumberStored, NumberFails,
                    TimeoutFires, vars, builderVars
      <3>2. QED
        BY <2>1, <3>1, DurableFrame
    <2>3. CASE \/ \E n \in machine.returned : HandleResult(n)
               \/ Process
      <3>1. UNCHANGED <<pending, build, db>>
        BY <2>3 DEF HandleResult, Process, builderVars
      <3>2. /\ aggregator'.at = aggregator.at
            /\ aggregator'.index = aggregator.index
            /\ aggregator'.res = aggregator.res
            /\ aggregator'.next = aggregator.next
        BY <2>3 DEF HandleResult, Process, NodeInv, TypeOK, CallsType
      <3>3. QED
        BY <2>1, <3>1, <3>2, DurableFrame
    <2>4. CASE \E j \in build.jobs : OpenSubtree(j) \/ UpdateStorageSlot(j)
      <3>1. BuildMoves(build.at) /\ UNCHANGED <<db, handed>>
        BY <2>4, JobMoves DEF NodeInv, TypeOK
      <3>2. /\ build'.at = build.at /\ build'.block = build.block
            /\ UNCHANGED <<pending, aggregator>>
        BY <3>1 DEF BuildMoves
      <3>3. QED
        BY <2>1, <3>1, <3>2, DurableFrame
    <2>5. CASE UpdateContractSlots \/ Misplace \/ Submitted
      <3>1. /\ build.at \in {"storage", "submitting"}
            /\ build'.at \in {"submitting", "count"}
            /\ build'.block = build.block
            /\ UNCHANGED <<pending, aggregator, db>>
        BY <2>5, MisplaceMoves
           DEF UpdateContractSlots, Submitted, NodeInv, TypeOK, BuilderType
      <3>2. QED
        BY <2>1, <3>1, DurableFrame DEF Covered
    <2>6. QED
      BY <1>3, <2>1, <2>2, <2>3, <2>4, <2>5, AddIsDurable,
         TransactionStoredIsDurable, CountStoredIsDurable, NextStoredIsDurable,
         DeferredIsDurable, BuildBlockIsDurable, CountResetIsDurable,
         BlockNumberStoredIsDurable
         DEF Next, Aggregator, Builder
  <1>4. QED
    BY <1>1, <1>2, <1>3

LEMMA DurableFollows ==
    ASSUME NodeInv, DurableShape
    PROVE  QuietIsDurable
  <1> SUFFICES ASSUME Quiet, Unhurt
               PROVE  /\ RecoveredBlock.txs = pending.txs
                      /\ \/ RecoveredBlock.blockNumber = pending.blockNumber
                         \/ pending.blockNumber = 0
                      /\ db.next # Absent => db.next >= aggregator.next - 1
    BY DEF QuietIsDurable, Unhurt
  <1>1. /\ RecoveredTxs = pending.txs
        /\ \/ RecoveredBlock.blockNumber = pending.blockNumber
           \/ pending.blockNumber = 0
        /\ db.next # Absent => aggregator.next <= db.next + 1
    BY DEF Quiet, Durable, DurableShape
  <1>2. aggregator.next \in Nat /\ (db.next = Absent \/ db.next \in Nat)
    BY DEF NodeInv, TypeOK, CallsType, DatabaseType
  <1>3. QED
    BY <1>1, <1>2 DEF RecoveredTxs

\* Whenever the node is quiet, what it has in memory of its pending block is
\* what a restart would read: through every crash and every failed write of a
\* number, unless a result was added while a block was submitted, or building
\* or submitting a block failed.
THEOREM QuietNodesAreDurable == Spec => []QuietIsDurable
  <1>1. Init => NodeInv /\ DurableShape
    BY NodeStart, DurableStart
  <1>2. NodeInv /\ DurableShape /\ [Next]_vars => (NodeInv /\ DurableShape)'
    BY NodeNext, DurableNext
  <1>3. QED
    BY <1>1, <1>2, DurableFollows, PTL DEF Spec

-----------------------------------------------------------------------------
(***************************************************************************)
(* The sequence of all transactions in a sequence of blocks.               *)
(***************************************************************************)
LEMMA TxsAppend ==
    ASSUME NEW blocks \in Seq(Blocks), NEW b \in Blocks
    PROVE  /\ Txs(blocks) \in Seq(Transactions)
           /\ Txs(Append(blocks, b)) = Txs(blocks) \o b.txs
           /\ Txs(<<>>) = <<>>
  <1> DEFINE of(bs) == [i \in DOMAIN bs |-> bs[i].txs]
  <1>1. ASSUME NEW bs \in Seq(Blocks)
        PROVE  of(bs) \in Seq(Seq(Transactions)) /\ Len(of(bs)) = Len(bs)
    <2>1. \A i \in DOMAIN bs : bs[i] \in Blocks
      OBVIOUS
    <2>2. \A i \in DOMAIN bs : bs[i].txs \in Seq(Transactions)
      BY <2>1, BlockFacts
    <2>3. DOMAIN bs = 1..Len(bs) /\ Len(bs) \in Nat
      OBVIOUS
    <2>4. QED
      BY <2>2, <2>3
  <1>2. b.txs \in Seq(Transactions)
    BY BlockFacts
  <1>3. of(Append(blocks, b)) = Append(of(blocks), b.txs)
    <2> DEFINE new == Append(blocks, b)
    <2>1. /\ new \in Seq(Blocks) /\ Len(new) = Len(blocks) + 1
          /\ Len(blocks) \in Nat
          /\ \A i \in 1..Len(blocks) : new[i] = blocks[i]
          /\ new[Len(blocks) + 1] = b
      BY AppendFacts
    <2>2. /\ Append(of(blocks), b.txs) \in Seq(Seq(Transactions))
          /\ Len(Append(of(blocks), b.txs)) = Len(blocks) + 1
          /\ \A i \in 1..Len(blocks) :
                Append(of(blocks), b.txs)[i] = of(blocks)[i]
          /\ Append(of(blocks), b.txs)[Len(blocks) + 1] = b.txs
      <3> HIDE DEF of
      <3>1. QED
        BY <1>1, <1>2, AppendFacts
    <2>3. of(new) \in Seq(Seq(Transactions)) /\ Len(of(new)) = Len(blocks) + 1
      BY <1>1, <2>1
    <2>4. ASSUME NEW i \in 1..(Len(blocks) + 1)
          PROVE  of(new)[i] = Append(of(blocks), b.txs)[i]
      <3>1. i \in DOMAIN new /\ of(new)[i] = new[i].txs
        BY <2>1
      <3>2. CASE i = Len(blocks) + 1
        BY <2>1, <2>2, <3>1, <3>2
      <3>3. CASE i \in 1..Len(blocks)
        <4>1. of(blocks)[i] = blocks[i].txs
          BY <3>3
        <4> HIDE DEF of
        <4>2. QED
          BY <2>1, <2>2, <3>1, <3>3, <4>1
      <3>4. QED
        BY <2>1, <3>2, <3>3
    <2> HIDE DEF of, new
    <2>5. of(new) = Append(of(blocks), b.txs)
      BY <2>1, <2>2, <2>3, <2>4, SeqEqual
    <2>6. QED
      BY <2>5 DEF new
  <1>4. of(<<>>) = <<>>
    OBVIOUS
  <1> HIDE DEF of
  <1>5. of(blocks) \in Seq(Seq(Transactions)) /\ <<>> \in Seq(Seq(Transactions))
    BY <1>1
  <1>6. /\ Txs(blocks) = FlattenSeq(of(blocks))
        /\ Txs(Append(blocks, b)) = FlattenSeq(of(Append(blocks, b)))
        /\ Txs(<<>>) = FlattenSeq(of(<<>>))
    BY DEF Txs, of
  <1>7. QED
    BY <1>2, <1>3, <1>4, <1>5, <1>6, FlattenAppend

-----------------------------------------------------------------------------
(***************************************************************************)
(* The transactions taken, as long as nothing goes wrong.                  *)
(***************************************************************************)
LEMMA ConcatFacts ==
    ASSUME NEW S, NEW s \in Seq(S), NEW t \in Seq(S)
    PROVE  /\ s \o t \in Seq(S) /\ Len(s \o t) = Len(s) + Len(t)
           /\ Len(s) \in Nat /\ Len(t) \in Nat
           /\ \A i \in 1..Len(s) : (s \o t)[i] = s[i]
           /\ \A i \in 1..Len(t) : (s \o t)[Len(s) + i] = t[i]
           /\ s \o <<>> = s /\ <<>> \o s = s
           /\ DOMAIN s = 1..Len(s)
  <1>1. /\ s \o t \in Seq(S) /\ Len(s \o t) = Len(s) + Len(t)
        /\ Len(s) \in Nat /\ Len(t) \in Nat
    BY ConcatProperties, LenProperties
  <1>2. \A i \in 1..Len(s) : (s \o t)[i] = s[i]
    BY <1>1, ConcatProperties
  <1>3. \A i \in 1..Len(t) : (s \o t)[Len(s) + i] = t[i]
    OBVIOUS
  <1>4. s \o <<>> = s /\ <<>> \o s = s
    BY ConcatEmptySeq
  <1>5. QED
    BY <1>1, <1>2, <1>3, <1>4, LenProperties

LEMMA SeqIsFunction ==
    ASSUME NEW S, NEW s \in Seq(S)
    PROVE  s = [i \in 1..Len(s) |-> s[i]]
  OBVIOUS

\* The block being built, before it is handed over.
Being == IF Taking THEN build.block.txs ELSE <<>>

LEMMA TakenFacts ==
    ASSUME TypeOK
    PROVE  /\ Taken = Txs(handed.all) \o Being \o pending.txs
           /\ Txs(handed.all) \in Seq(Transactions)
           /\ Txs(handed.queued) \in Seq(Transactions)
           /\ Being \in Seq(Transactions) /\ pending.txs \in Seq(Transactions)
           /\ build.block.txs \in Seq(Transactions)
           /\ Taken \in Seq(Transactions) /\ Len(Taken) \in Nat
  <1>1. /\ handed.all \in Seq(Blocks) /\ handed.queued \in Seq(Blocks)
        /\ pending \in Blocks /\ build.block \in Blocks
    BY DEF TypeOK, BuilderType
  <1>2. /\ Txs(handed.all) \in Seq(Transactions)
        /\ Txs(handed.queued) \in Seq(Transactions)
    BY <1>1, TxsAppend
  <1>3. /\ pending.txs \in Seq(Transactions)
        /\ build.block.txs \in Seq(Transactions)
    BY <1>1, BlockFacts
  <1>4. <<>> \in Seq(Transactions)
    OBVIOUS
  <1>5. Being \in Seq(Transactions)
    BY <1>3, <1>4 DEF Being
  <1>6. Taken = Txs(handed.all) \o Being \o pending.txs
    BY DEF Taken, Being, Taking
  <1>7. Txs(handed.all) \o Being \in Seq(Transactions)
    BY <1>2, <1>5, ConcatFacts
  <1>8. Taken \in Seq(Transactions) /\ Len(Taken) \in Nat
    BY <1>3, <1>6, <1>7, ConcatFacts
  <1>9. QED
    BY <1>2, <1>3, <1>5, <1>6, <1>8

\* The last transaction taken is the last one pending, if there is any.
LEMMA LastTaken ==
    ASSUME TypeOK, pending.txs # <<>>
    PROVE  Len(Taken) >= 1 /\ Taken[Len(Taken)] = Last(pending.txs)
  <1> DEFINE first == Txs(handed.all) \o Being
  <1>1. /\ first \in Seq(Transactions) /\ pending.txs \in Seq(Transactions)
        /\ Taken = first \o pending.txs
    BY TakenFacts, ConcatFacts
  <1> HIDE DEF first
  <1>2. /\ Len(Taken) = Len(first) + Len(pending.txs)
        /\ Len(first) \in Nat /\ Len(pending.txs) \in Nat
        /\ \A i \in 1..Len(pending.txs) :
              Taken[Len(first) + i] = pending.txs[i]
    BY <1>1, ConcatFacts
  <1>3. Len(pending.txs) # 0
    BY <1>1
  <1>4. Len(pending.txs) \in 1..Len(pending.txs)
    BY <1>2, <1>3
  <1>5. QED
    BY <1>2, <1>3, <1>4 DEF Last

LEMMA OrderFrame ==
    ASSUME Ordered, Taken' = Taken, aggregator'.next = aggregator.next,
           (aggregator'.at = "idle") <=> (aggregator.at = "idle")
    PROVE  Ordered'
  BY DEF Ordered

LEMMA AddInOrder ==
    ASSUME NodeInv, NodeInv', Ordered, AddTransactionResult
    PROVE  Ordered'
  <1> DEFINE n == Min(aggregator.queue)
  <1>1. /\ n = aggregator.next /\ n \in Transactions /\ n \in Nat
        /\ aggregator \in Aggregators /\ aggregator.at = "idle"
        /\ UNCHANGED <<handed, build>>
    BY MinQueued, TransactionFacts
       DEF NodeInv, TypeOK, CallsType, AddTransactionResult, Aggregators
  <1>2. /\ Taken = [i \in 1..Len(Taken) |-> i] /\ Len(Taken) = n - 1
        /\ Len(Taken) \in Nat /\ Taken \in Seq(Transactions)
    BY <1>1, TakenFacts DEF Ordered, NodeInv
  <1>3. ~IsDuplicate(n)
    <2>1. SUFFICES ASSUME pending.txs # <<>>, Last(pending.txs) = n
                   PROVE  FALSE
      BY DEF IsDuplicate
    <2>2. Len(Taken) >= 1 /\ Taken[Len(Taken)] = n
      BY <2>1, LastTaken DEF NodeInv
    <2> DEFINE k == Len(Taken)
    <2>3. k \in 1..k
      BY <1>2, <2>2
    <2>4. Taken[k] = k
      BY <1>2, <2>3
    <2>5. QED
      BY <1>1, <1>2, <2>2, <2>4
  <1>4. /\ pending' = [pending EXCEPT !.txs = Append(pending.txs, n)]
        /\ aggregator' = [aggregator EXCEPT
                             !.queue = @ \ {n}, !.at = "tx",
                             !.res = n, !.index = Len(pending.txs) + 1]
    BY <1>3 DEF AddTransactionResult
  <1> HIDE DEF n
  <1>5. aggregator'.at = "tx" /\ aggregator'.next = aggregator.next
    BY <1>1, <1>4 DEF Aggregators
  <1>6. pending'.txs = Append(pending.txs, n)
    BY <1>4 DEF NodeInv, TypeOK, BuilderType, Blocks
  <1>7. Taken' = Append(Taken, n)
    <2> DEFINE first == Txs(handed.all) \o Being
    <2>1. /\ first \in Seq(Transactions) /\ pending.txs \in Seq(Transactions)
          /\ Taken = first \o pending.txs
      BY TakenFacts, ConcatFacts DEF NodeInv
    <2>2. Taken' = first \o pending'.txs
      BY <1>1 DEF Taken, Being, Taking, Txs
    <2> HIDE DEF first
    <2>3. first \o Append(pending.txs, n) = Append(first \o pending.txs, n)
      BY SMTT(30), <1>1, <2>1
    <2>4. QED
      BY <1>6, <2>1, <2>2, <2>3
  <1>8. /\ Append(Taken, n) \in Seq(Transactions)
        /\ Len(Append(Taken, n)) = Len(Taken) + 1
        /\ \A i \in 1..Len(Taken) : Append(Taken, n)[i] = Taken[i]
        /\ Append(Taken, n)[Len(Taken) + 1] = n
    BY <1>1, <1>2, AppendFacts
  <1>9. Len(Taken') = n
    BY <1>1, <1>2, <1>7, <1>8
  <1>10. ASSUME NEW i \in 1..n
         PROVE  Taken'[i] = i
    <2>1. CASE i = n
      BY <1>1, <1>2, <1>7, <1>8, <2>1
    <2>2. CASE i # n
      <3>1. i \in 1..Len(Taken)
        BY <1>1, <1>2, <2>2
      <3>2. Taken[i] = i
        BY <1>2, <3>1
      <3>3. QED
        BY <1>7, <1>8, <3>1, <3>2
    <2>3. QED
      BY <2>1, <2>2
  <1>11. Taken' = [i \in 1..Len(Taken') |-> i]
    <2>1. Taken' \in Seq(Transactions)
      BY <1>7, <1>8
    <2>2. Taken' = [i \in 1..Len(Taken') |-> Taken'[i]]
      BY <2>1, SeqIsFunction
    <2>3. QED
      BY <1>9, <1>10, <2>2
  <1>12. QED
    BY <1>1, <1>5, <1>9, <1>11 DEF Ordered

LEMMA BuildBlockInOrder ==
    ASSUME NodeInv, Ordered, BuildBlock
    PROVE  Ordered'
  <1>1. /\ build.at = "none" /\ UNCHANGED <<handed, aggregator>>
        /\ pending'.txs = <<>>
        /\ build'.at = "storage" /\ build'.block = pending
    BY DEF BuildBlock, NoBuild, Block
  <1>2. /\ Taken = Txs(handed.all) \o <<>> \o pending.txs
        /\ Taken' = Txs(handed.all) \o pending.txs \o <<>>
    BY <1>1 DEF Taken, Txs
  <1>3. /\ Txs(handed.all) \in Seq(Transactions)
        /\ pending.txs \in Seq(Transactions)
    BY TakenFacts DEF NodeInv
  <1>4. Txs(handed.all) \o pending.txs \in Seq(Transactions)
    BY <1>3, ConcatFacts
  <1>5. /\ Txs(handed.all) \o <<>> = Txs(handed.all)
        /\ Txs(handed.all) \o pending.txs \o <<>> =
              Txs(handed.all) \o pending.txs
    BY <1>3, <1>4, ConcatEmptySeq
  <1>6. QED
    BY <1>1, <1>2, <1>5, OrderFrame

LEMMA SubmittedInOrder ==
    ASSUME NodeInv, Ordered, Submitted
    PROVE  Ordered'
  <1>1. /\ build.at = "submitting" /\ UNCHANGED <<pending, aggregator>>
        /\ build'.at = "count"
        /\ handed'.all = Append(handed.all, build.block)
        /\ handed.all \in Seq(Blocks) /\ build.block \in Blocks
    BY HandFacts DEF NodeInv, TypeOK, BuilderType, Submitted
  <1>2. Txs(handed'.all) = Txs(handed.all) \o build.block.txs
    BY <1>1, TxsAppend
  <1>3. /\ Taken = Txs(handed.all) \o build.block.txs \o pending.txs
        /\ Taken' = Txs(handed'.all) \o <<>> \o pending.txs
    BY <1>1 DEF Taken, Txs
  <1>4. Txs(handed'.all) \o <<>> = Txs(handed'.all)
    <2>1. Txs(handed.all) \o build.block.txs \in Seq(Transactions)
      BY TakenFacts, ConcatFacts DEF NodeInv
    <2>2. QED
      BY <1>2, <2>1, ConcatEmptySeq
  <1>5. QED
    BY <1>1, <1>2, <1>3, <1>4, OrderFrame

LEMMA OrderStart ==
    ASSUME Init
    PROVE  OrderShape
  <1>1. /\ handed.all = <<>> /\ ~Taking /\ pending.txs = <<>>
        /\ aggregator.at = "idle" /\ aggregator.next = 1
    BY DEF Init, NoBuild, NoAggregator, Block, Taking
  <1>2. Txs(<<>>) = <<>>
    BY NodeStart, TxsAppend DEF NodeInv, TypeOK, BuilderType
  <1>3. Taken = <<>>
    BY <1>1, <1>2 DEF Taken, Taking
  <1>4. QED
    BY <1>1, <1>3 DEF OrderShape, Ordered

LEMMA OrderNext ==
    ASSUME NodeInv, OrderShape, NodeInv', [Next]_vars
    PROVE  OrderShape'
  <1> SUFFICES ASSUME faults' \cap Accidents = {}
               PROVE  Ordered'
    BY DEF OrderShape
  <1>1. ~(SubmitFails \/ BuildFails \/ Crash \/ Start)
    <2>1. NodeType
      BY DEF NodeInv, TypeOK
    <2>2. ~SubmitFails /\ ~BuildFails
      BY <2>1, ErrorFacts
    <2>3. ~Crash
      BY DEF Crash, Accidents
    <2>4. ~Start
      BY DEF Start, NodeInv, CallShape, Accidents
    <2>5. QED
      BY <2>2, <2>3, <2>4
  <1>2. Ordered
    <2>1. faults \subseteq faults'
      BY <1>1
         DEF Next, StateMachine, Aggregator, Builder,
             Apply, NumberStored, NumberFails, Fails, HandleResult, Process,
             AddTransactionResult, TransactionStored, CountStored, NextStored,
             Deferred, BuildBlock, OpenSubtree, UpdateStorageSlot,
             UpdateContractSlots, Misplace, Submitted, CountReset,
             BlockNumberStored,
             TimeoutFires, vars
    <2>2. QED
      BY <2>1 DEF OrderShape
  <1>3. CASE Apply \/ NumberStored \/ NumberFails \/ TimeoutFires
             \/ UNCHANGED vars
    <2>1. UNCHANGED <<aggregator, pending, build, handed>>
      BY <1>3 DEF Apply, NumberStored, NumberFails, TimeoutFires, vars,
                  builderVars
    <2>2. Taken' = Taken
      BY <2>1 DEF Taken, Txs
    <2>3. QED
      BY <1>2, <2>1, <2>2, OrderFrame
  <1>4. CASE \/ \E n \in machine.returned : HandleResult(n)
             \/ Process \/ TransactionStored \/ CountStored
    <2>1. UNCHANGED <<pending, build, handed>>
      BY <1>4 DEF HandleResult, Process, TransactionStored, CountStored,
                  builderVars
    <2>2. Taken' = Taken
      BY <2>1 DEF Taken, Txs
    <2>3. /\ aggregator'.next = aggregator.next
          /\ (aggregator'.at = "idle") <=> (aggregator.at = "idle")
      <3>1. aggregator \in Aggregators
        BY DEF NodeInv, TypeOK, CallsType, Aggregators
      <3>2. CASE (\E n \in machine.returned : HandleResult(n)) \/ Process
        BY <3>1, <3>2 DEF HandleResult, Process, Aggregators
      <3>3. CASE TransactionStored
        BY <3>1, <3>3 DEF TransactionStored, Aggregators
      <3>4. CASE CountStored
        BY <3>1, <3>4 DEF CountStored, Aggregators
      <3>5. QED
        BY <1>4, <3>2, <3>3, <3>4
    <2>4. QED
      BY <1>2, <2>2, <2>3, OrderFrame
  <1>5. CASE NextStored
    <2>1. /\ aggregator.at = "next" /\ aggregator.res = aggregator.next
          /\ aggregator'.at = "idle" /\ aggregator'.next = aggregator.res + 1
          /\ aggregator.next \in Nat
          /\ UNCHANGED <<pending, build, handed>>
      BY <1>5 DEF NextStored, NodeInv, NumberShape, TypeOK, CallsType,
                  builderVars
    <2>2. Taken' = Taken
      BY <2>1 DEF Taken, Txs
    <2>3. QED
      BY <1>2, <2>1, <2>2 DEF Ordered
  <1>6. CASE Deferred \/ BlockNumberStored
    <2>1. /\ lock # <<>> /\ Return /\ UNCHANGED <<pending, handed>>
          /\ ~Taking /\ ~Taking'
      BY <1>6 DEF Deferred, BlockNumberStored, NodeInv, CallShape, Taking,
                  NoBuild
    <2>2. /\ aggregator'.next = aggregator.next
          /\ (aggregator'.at = "idle") <=> (aggregator.at = "idle")
      BY <2>1, ReturnFacts DEF NodeInv
    <2>3. Taken' = Taken
      BY <2>1 DEF Taken, Txs, Taking
    <2>4. QED
      BY <1>2, <2>2, <2>3, OrderFrame
  <1>7. CASE \/ \E j \in build.jobs : OpenSubtree(j) \/ UpdateStorageSlot(j)
             \/ UpdateContractSlots \/ Misplace
    <2>1. /\ UNCHANGED <<aggregator, pending, handed>>
          /\ build'.block = build.block /\ Taking' = Taking
      <3>1. CASE UpdateContractSlots
        BY <3>1 DEF UpdateContractSlots, NodeInv, TypeOK, BuilderType, Taking
      <3>2. CASE \E j \in build.jobs : OpenSubtree(j) \/ UpdateStorageSlot(j)
        BY <3>2, JobMoves DEF NodeInv, TypeOK, BuildMoves, Taking
      <3>3. CASE Misplace
        BY <3>3, MisplaceMoves DEF NodeInv, TypeOK, Taking
      <3>4. QED
        BY <1>7, <3>1, <3>2, <3>3
    <2>2. Taken' = Taken
      BY <2>1 DEF Taken, Txs, Taking
    <2>3. QED
      BY <1>2, <2>1, <2>2, OrderFrame
  <1>8. CASE CountReset
    <2>1. UNCHANGED <<aggregator, pending, handed>> /\ ~Taking /\ ~Taking'
      BY <1>8 DEF CountReset, NodeInv, TypeOK, BuilderType, Taking
    <2>2. Taken' = Taken
      BY <2>1 DEF Taken, Txs, Taking
    <2>3. QED
      BY <1>2, <2>1, <2>2, OrderFrame
  <1>9. QED
    BY <1>1, <1>2, <1>3, <1>4, <1>5, <1>6, <1>7, <1>8, AddInOrder,
       BuildBlockInOrder, SubmittedInOrder
       DEF Next, StateMachine, Aggregator, Builder

LEMMA OrderFollows ==
    ASSUME NodeInv, OrderShape
    PROVE  TransactionsInOrder
  <1> SUFFICES ASSUME faults \cap Accidents = {}
               PROVE  Taken = [i \in 1..(IF aggregator.at = "idle"
                                         THEN aggregator.next - 1
                                         ELSE aggregator.res) |-> i]
    BY DEF TransactionsInOrder
  <1>1. aggregator.at # "idle" => aggregator.res = aggregator.next
    BY DEF NodeInv, NumberShape
  <1>2. QED
    BY <1>1 DEF OrderShape, Ordered

-----------------------------------------------------------------------------
(***************************************************************************)
(* The transactions queued, through crashes.                               *)
(***************************************************************************)
LEMMA ValueFacts ==
    ASSUME NEW txs \in Seq(Transactions), NEW i \in DOMAIN txs
    PROVE  txs[i] \in Nat /\ txs[i] \in Transactions
           /\ i \in Nat /\ i \in 1..Len(txs)
  <1>1. txs[i] \in Transactions /\ i \in Nat /\ i \in 1..Len(txs)
    OBVIOUS
  <1>2. QED
    BY <1>1, TransactionFacts

LEMMA IncreasingAppend ==
    ASSUME NEW txs \in Seq(Transactions), NEW n \in Transactions,
           Increasing(txs), \A i \in DOMAIN txs : txs[i] < n
    PROVE  Increasing(Append(txs, n))
  <1> DEFINE new == Append(txs, n)
  <1>1. /\ new \in Seq(Transactions) /\ Len(new) = Len(txs) + 1
        /\ Len(txs) \in Nat
        /\ \A i \in 1..Len(txs) : new[i] = txs[i]
        /\ new[Len(txs) + 1] = n
    BY AppendFacts
  <1>2. DOMAIN txs = 1..Len(txs) /\ DOMAIN new = 1..(Len(txs) + 1)
    BY <1>1
  <1> HIDE DEF new
  <1>3. ASSUME NEW i \in DOMAIN new, NEW j \in DOMAIN new, i < j
        PROVE  new[i] < new[j]
    <2>1. i \in DOMAIN txs /\ new[i] = txs[i]
      BY <1>1, <1>2, <1>3
    <2>2. CASE j = Len(txs) + 1
      BY <1>1, <2>1, <2>2
    <2>3. CASE j \in DOMAIN txs
      <3>1. new[j] = txs[j]
        BY <1>1, <1>2, <2>3
      <3>2. txs[i] < txs[j]
        BY <1>3, <2>1, <2>3 DEF Increasing
      <3>3. QED
        BY <2>1, <3>1, <3>2
    <2>4. QED
      BY <1>1, <1>2, <2>2, <2>3
  <1>4. Increasing(new)
    BY <1>3 DEF Increasing
  <1>5. QED
    BY <1>4 DEF new

LEMMA IncreasingConcat ==
    ASSUME NEW txs \in Seq(Transactions), NEW others \in Seq(Transactions),
           Increasing(txs), Increasing(others), Below(txs, others)
    PROVE  /\ Increasing(txs \o others)
           /\ \A i \in DOMAIN (txs \o others) :
                 \/ \E j \in DOMAIN txs : (txs \o others)[i] = txs[j]
                 \/ \E j \in DOMAIN others : (txs \o others)[i] = others[j]
  <1> DEFINE new == txs \o others
             k == Len(txs)
             m == Len(others)
  <1>1. /\ new \in Seq(Transactions) /\ Len(new) = k + m
        /\ k \in Nat /\ m \in Nat
        /\ \A i \in 1..k : new[i] = txs[i]
        /\ \A i \in 1..m : new[k + i] = others[i]
    BY ConcatFacts
  <1>2. /\ DOMAIN txs = 1..k /\ DOMAIN others = 1..m
        /\ DOMAIN new = 1..(k + m)
    BY <1>1
  <1> HIDE DEF new, k, m
  <1>3. \A i \in 1..(k + m) : i \in 1..k \/ (i - k \in 1..m /\ k + (i - k) = i)
    BY <1>1
  <1>4. \A i \in 1..(k + m) :
           \/ i \in 1..k /\ new[i] = txs[i]
           \/ ~(i \in 1..k) /\ i - k \in 1..m /\ new[i] = others[i - k]
    <2>1. ASSUME NEW i \in 1..(k + m), ~(i \in 1..k)
          PROVE  i - k \in 1..m /\ new[i] = others[i - k]
      <3>1. i - k \in 1..m /\ k + (i - k) = i
        BY <1>3, <2>1
      <3>2. new[k + (i - k)] = others[i - k]
        BY <1>1, <3>1
      <3>3. QED
        BY <3>1, <3>2
    <2>2. QED
      BY <1>1, <2>1
  <1>5. ASSUME NEW i \in DOMAIN new, NEW j \in DOMAIN new, i < j
        PROVE  new[i] < new[j]
    <2>1. CASE i \in 1..k /\ j \in 1..k
      <3>1. txs[i] < txs[j]
        BY <1>2, <1>5, <2>1 DEF Increasing
      <3>2. QED
        BY <1>1, <2>1, <3>1
    <2>2. CASE i \in 1..k /\ ~(j \in 1..k)
      <3>1. j - k \in 1..m /\ new[j] = others[j - k]
        BY <1>2, <1>4, <2>2
      <3>2. txs[i] < others[j - k]
        BY <1>2, <2>2, <3>1 DEF Below
      <3>3. QED
        BY <1>1, <2>2, <3>1, <3>2
    <2>3. CASE ~(i \in 1..k)
      <3>1. ~(j \in 1..k)
        BY <1>1, <1>2, <1>5, <2>3
      <3>2. /\ i - k \in 1..m /\ new[i] = others[i - k]
            /\ j - k \in 1..m /\ new[j] = others[j - k]
        BY <1>2, <1>4, <2>3, <3>1
      <3>3. i - k < j - k
        BY <1>1, <1>2, <1>5
      <3>4. others[i - k] < others[j - k]
        BY <1>2, <3>2, <3>3 DEF Increasing
      <3>5. QED
        BY <3>2, <3>4
    <2>4. QED
      BY <2>1, <2>2, <2>3
  <1>6. Increasing(new)
    BY <1>5 DEF Increasing
  <1>7. \A i \in DOMAIN new : \/ \E j \in DOMAIN txs : new[i] = txs[j]
                              \/ \E j \in DOMAIN others : new[i] = others[j]
    BY <1>2, <1>4
  <1>8. QED
    BY <1>6, <1>7 DEF new

LEMMA IncreasingIsInjective ==
    ASSUME NEW txs \in Seq(Transactions), Increasing(txs)
    PROVE  IsInjective(txs)
  <1> SUFFICES ASSUME NEW i \in DOMAIN txs, NEW j \in DOMAIN txs,
                      txs[i] = txs[j]
               PROVE  i = j
    BY DEF IsInjective
  <1>1. txs[i] \in Nat /\ i \in Nat /\ j \in Nat
    BY ValueFacts
  <1>2. ~(i < j) /\ ~(j < i)
    BY <1>1 DEF Increasing
  <1>3. QED
    BY <1>1, <1>2

LEMMA EmptyFacts ==
    ASSUME NEW txs, NEW others, others = <<>>
    PROVE  /\ Increasing(others) /\ Below(txs, others) /\ Below(others, txs)
           /\ PassedOn(others)
  BY DEF Increasing, Below, PassedOn

\* What has changed of what Once is about: the database before the first
\* result only.
LEMMA OnceFrame ==
    ASSUME Once, UNCHANGED <<handed, pending>>, build'.block = build.block,
           \/ build'.at = build.at
           \/ Taking /\ Taking'
           \/ build.at = "count" /\ build'.at = "number",
           aggregator'.next = aggregator.next,
           (aggregator'.at = "idle") <=> (aggregator.at = "idle"),
           Stuck => Stuck',
           1 \notin issued' => /\ 1 \notin issued
                               /\ Fresh' = Fresh /\ db'.next = db.next
    PROVE  Once'
  <1>1. /\ Taking' <=> Taking
        /\ (build'.at = "none") <=> (build.at = "none")
        /\ (build'.at \in {"count", "number"})
              <=> (build.at \in {"count", "number"})
    BY DEF Taking
  <1>2. Txs(handed'.queued) = Txs(handed.queued)
    BY DEF Txs
  <1>3. /\ Fits(pending)' <=> Fits(pending)
        /\ Fits(build.block)' <=> Fits(build.block)
    BY <1>2 DEF Fits
  <1>4. /\ PassedOn(Txs(handed.queued)) => PassedOn(Txs(handed.queued))'
        /\ PassedOn(pending.txs) => PassedOn(pending.txs)'
        /\ PassedOn(build.block.txs) => PassedOn(build.block.txs)'
    BY <1>2 DEF PassedOn
  <1>5. 1 \notin issued' => NothingYet'
    <2>1. 1 \notin issued => NothingYet
      BY DEF Once
    <2>2. QED
      BY <1>1, <1>2, <2>1 DEF NothingYet
  <1>6. (IF Taking THEN Fits(build.block) ELSE Fits(pending))'
    BY <1>1, <1>3 DEF Once
  <1>7. (Increasing(Txs(handed.queued)))'
    BY <1>2 DEF Once, Increasing
  <1>8. /\ (PassedOn(Txs(handed.queued)))' /\ (PassedOn(pending.txs))'
        /\ (PassedOn(build.block.txs))'
    BY <1>4 DEF Once
  <1>9. /\ (build.at # "none" => Increasing(build.block.txs))'
        /\ ((IF build.at = "none" THEN pending ELSE build.block).blockNumber = 0
               => handed.queued = <<>>)'
        /\ (build.at \in {"count", "number"} =>
               build.block.blockNumber <= Len(handed.queued))'
    BY <1>1 DEF Once, Increasing
  <1>10. QED
    BY <1>5, <1>6, <1>7, <1>8, <1>9 DEF Once

\* Once the first result is returned, something may have been passed on.
LEMMA AfterFirst ==
    ASSUME Once, aggregator.at # "idle" \/ build.at # "none"
                 \/ aggregator.next # 1
    PROVE  1 \in issued
  BY DEF Once, NothingYet

LEMMA AddOnce ==
    ASSUME NodeInv, Once, AddTransactionResult, Unhurt'
    PROVE  Once'
  <1> DEFINE n == Min(aggregator.queue)
  <1>1. /\ n = aggregator.next /\ n \in Transactions /\ n \in Nat
        /\ n \in aggregator.queue
        /\ aggregator \in Aggregators /\ aggregator.at = "idle"
        /\ build.at = "none" /\ UNCHANGED <<handed, build, db, issued>>
        /\ pending \in Blocks /\ pending.txs \in Seq(Transactions)
    BY MinQueued, TransactionFacts, BlockFacts
       DEF NodeInv, TypeOK, CallsType, BuilderType, AddTransactionResult,
           Aggregators, Unhurt
  <1>2. ~Stuck
    BY <1>1 DEF Stuck
  <1>3. /\ \A i \in DOMAIN pending.txs : pending.txs[i] < n
        /\ \A i \in DOMAIN Txs(handed.queued) : Txs(handed.queued)[i] < n
        /\ \A i \in DOMAIN build.block.txs : build.block.txs[i] < n
    BY <1>1, <1>2 DEF Once, PassedOn
  <1>4. ~IsDuplicate(n)
    <2>1. SUFFICES ASSUME pending.txs # <<>>, Last(pending.txs) = n
                   PROVE  FALSE
      BY DEF IsDuplicate
    <2>2. Len(pending.txs) \in DOMAIN pending.txs
      BY <1>1, <2>1
    <2>3. pending.txs[Len(pending.txs)] < n
      BY <1>3, <2>2
    <2>4. QED
      BY <1>1, <2>1, <2>3 DEF Last
  <1>5. /\ pending' = [pending EXCEPT !.txs = Append(pending.txs, n)]
        /\ aggregator' = [aggregator EXCEPT
                             !.queue = @ \ {n}, !.at = "tx",
                             !.res = n, !.index = Len(pending.txs) + 1]
    BY <1>4 DEF AddTransactionResult
  <1>6. 1 \in issued
    <2>1. n \in issued
      BY <1>1 DEF NodeInv, NumberShape
    <2>2. n # 1 => 1 \in issued
      BY <1>1, AfterFirst
    <2>3. QED
      BY <2>1, <2>2
  <1> HIDE DEF n
  <1>7. aggregator'.at = "tx" /\ aggregator'.next = n
    BY <1>1, <1>5 DEF Aggregators
  <1>8. /\ pending'.txs = Append(pending.txs, n)
        /\ pending'.blockNumber = pending.blockNumber
    BY <1>1, <1>5 DEF Blocks
  <1>9. /\ pending'.txs \in Seq(Transactions)
        /\ Len(pending'.txs) = Len(pending.txs) + 1 /\ Len(pending.txs) \in Nat
        /\ \A i \in 1..Len(pending.txs) : pending'.txs[i] = pending.txs[i]
        /\ pending'.txs[Len(pending.txs) + 1] = n
    BY <1>1, <1>8, AppendFacts
  <1>10. \A i \in DOMAIN pending'.txs :
            \/ i \in DOMAIN pending.txs /\ pending'.txs[i] = pending.txs[i]
            \/ i = Len(pending.txs) + 1 /\ pending'.txs[i] = n
    <2>1. DOMAIN pending'.txs = 1..(Len(pending.txs) + 1)
          /\ DOMAIN pending.txs = 1..Len(pending.txs)
      BY <1>1, <1>9
    <2>2. QED
      BY <1>9, <2>1
  <1>11. Txs(handed'.queued) = Txs(handed.queued)
    BY <1>1 DEF Txs
  <1>12. Fits(pending)'
    <2>1. Fits(pending)
      BY <1>1 DEF Once, Taking
    <2>2. Increasing(pending'.txs)
      BY <1>1, <1>3, <1>8, <2>1, IncreasingAppend DEF Fits
    <2>3. ASSUME pending.blockNumber > Len(handed.queued)
          PROVE  Below(Txs(handed.queued), pending'.txs)
      <3>1. Below(Txs(handed.queued), pending.txs)
        BY <2>1, <2>3 DEF Fits
      <3>2. QED
        BY <1>3, <1>10, <3>1 DEF Below
    <2>4. QED
      BY <1>1, <1>8, <1>11, <2>2, <2>3 DEF Fits
  <1>13. /\ PassedOn(Txs(handed.queued))'
         /\ PassedOn(build.block.txs)'
    BY <1>1, <1>3, <1>7, <1>11 DEF PassedOn
  <1>14. PassedOn(pending.txs)'
    BY <1>3, <1>7, <1>10 DEF PassedOn
  <1>15. ~Taking' /\ build'.at = "none" /\ 1 \in issued'
    BY <1>1, <1>6 DEF Taking
  <1>16. Increasing(Txs(handed.queued))'
    BY <1>11 DEF Once, Increasing
  <1>17. pending'.blockNumber = 0 => handed'.queued = <<>>
    BY <1>1, <1>8 DEF Once
  <1>18. QED
    BY <1>12, <1>13, <1>14, <1>15, <1>16, <1>17 DEF Once

LEMMA NextStoredOnce ==
    ASSUME NodeInv, Once, NextStored
    PROVE  Once'
  <1>1. /\ aggregator.at = "next" /\ aggregator.res = aggregator.next
        /\ aggregator'.at = "idle" /\ aggregator'.next = aggregator.next + 1
        /\ aggregator.next \in Nat
        /\ UNCHANGED <<pending, build, handed, issued>>
    BY DEF NextStored, NodeInv, NumberShape, TypeOK, CallsType, builderVars
  <1>2. ~Stuck /\ 1 \in issued
    BY <1>1, AfterFirst DEF Stuck
  <1>3. Txs(handed'.queued) = Txs(handed.queued)
    BY <1>1 DEF Txs
  <1>4. /\ Txs(handed.queued) \in Seq(Transactions)
        /\ pending.txs \in Seq(Transactions)
        /\ build.block.txs \in Seq(Transactions)
    BY TakenFacts DEF NodeInv
  <1>5. ASSUME NEW txs \in Seq(Transactions), PassedOn(txs)
        PROVE  \A i \in DOMAIN txs : txs[i] < aggregator.next + 1
    BY <1>1, <1>2, <1>5, ValueFacts DEF PassedOn
  <1>6. /\ PassedOn(Txs(handed.queued)) /\ PassedOn(pending.txs)
        /\ PassedOn(build.block.txs)
    BY DEF Once
  <1>7. /\ PassedOn(Txs(handed.queued))' /\ PassedOn(pending.txs)'
        /\ PassedOn(build.block.txs)'
    BY <1>1, <1>3, <1>4, <1>5, <1>6 DEF PassedOn
  <1>8. (Fits(pending)' <=> Fits(pending))
        /\ (Fits(build.block)' <=> Fits(build.block))
    BY <1>1, <1>3 DEF Fits
  <1>9. Increasing(Txs(handed.queued))' /\ Taking' = Taking
    BY <1>1, <1>3 DEF Once, Increasing, Taking
  <1>10. QED
    BY <1>1, <1>2, <1>7, <1>8, <1>9 DEF Once

LEMMA BuildBlockOnce ==
    ASSUME NodeInv, Once, BuildBlock
    PROVE  Once'
  <1>1. /\ build.at = "none" /\ UNCHANGED <<db, aggregator, handed, issued,
                                            machine>>
        /\ pending'.txs = <<>>
        /\ build'.at = "storage" /\ build'.block = pending
    BY DEF BuildBlock, NoBuild, Block
  <1>2. 1 \in issued
    <2>1. pending.txs # <<>>
      <3>1. Len(pending.txs) >= MaxPerBlock \/ pending.txs # <<>>
        BY BlockFacts DEF BuildBlock, NotYet, NodeInv, TypeOK, BuilderType
      <3>2. QED
        BY <3>1
    <2>2. QED
      BY <2>1 DEF Once, NothingYet
  <1>3. Txs(handed'.queued) = Txs(handed.queued)
    BY <1>1 DEF Txs
  <1>4. Fits(pending) /\ ~Taking /\ Taking'
    BY <1>1 DEF Once, Taking
  <1>5. Fits(build.block)'
    BY <1>1, <1>3, <1>4 DEF Fits
  <1>6. /\ PassedOn(Txs(handed.queued))' /\ PassedOn(pending.txs)'
        /\ PassedOn(build.block.txs)'
    BY <1>1, <1>3 DEF Once, PassedOn, Stuck
  <1>7. Increasing(Txs(handed.queued))' /\ Increasing(build'.block.txs)
    BY <1>1, <1>3, <1>4 DEF Once, Increasing, Fits
  <1>8. QED
    BY <1>1, <1>2, <1>4, <1>5, <1>6, <1>7 DEF Once

LEMMA SubmittedOnce ==
    ASSUME NodeInv, Once, Durable, "submit" \notin faults, Submitted
    PROVE  Once'
  <1>1. /\ build.at = "submitting" /\ build'.at = "count"
        /\ build'.block = build.block
        /\ UNCHANGED <<db, aggregator, pending, issued, machine>>
        /\ build.block \in Blocks /\ handed.queued \in Seq(Blocks)
        /\ build.block.blockNumber \in Nat /\ Len(handed.queued) \in Nat
        /\ build.block.txs \in Seq(Transactions)
    BY BlockFacts DEF Submitted, NodeInv, TypeOK, BuilderType
  <1>2. handed'.queued = IF build.block.blockNumber <= LastQueued
                         THEN handed.queued
                         ELSE Append(handed.queued, build.block)
    BY HandFacts DEF Submitted, NodeInv, TypeOK
  <1>3. LastQueued = Len(handed.queued)
    BY LastQueuedFacts DEF NodeInv, TypeOK
  <1>4. Taking /\ ~Taking' /\ 1 \in issued /\ pending.txs = <<>>
    BY <1>1, AfterFirst DEF Taking, Durable
  <1>5. /\ Increasing(build.block.txs) /\ PassedOn(build.block.txs)
        /\ Increasing(Txs(handed.queued)) /\ PassedOn(Txs(handed.queued))
        /\ build.block.blockNumber > Len(handed.queued) =>
              Below(Txs(handed.queued), build.block.txs)
        /\ build.block.blockNumber = 0 => handed.queued = <<>>
    BY <1>1, <1>4 DEF Once, Fits
  <1>6. Fits(pending)' /\ PassedOn(pending.txs)'
    BY <1>1, <1>4, EmptyFacts DEF Fits, Below, Increasing, PassedOn
  <1>7. PassedOn(build.block.txs)' /\ Increasing(build'.block.txs)
    BY <1>1, <1>5 DEF PassedOn, Stuck
  <1>8. CASE build.block.blockNumber <= Len(handed.queued)
    <2>1. handed'.queued = handed.queued
      BY <1>2, <1>3, <1>8
    <2>2. Increasing(Txs(handed.queued))' /\ PassedOn(Txs(handed.queued))'
      BY <1>1, <1>5, <2>1 DEF Increasing, PassedOn, Stuck, Txs
    <2>3. QED
      BY <1>1, <1>4, <1>5, <1>6, <1>7, <1>8, <2>1, <2>2 DEF Once
  <1>9. CASE build.block.blockNumber > Len(handed.queued)
    <2>1. handed'.queued = Append(handed.queued, build.block)
      BY <1>1, <1>2, <1>3, <1>9
    <2> DEFINE txs == Txs(handed.queued)
               others == build.block.txs
    <2>2. Txs(handed'.queued) = txs \o others
      BY <1>1, <2>1, TxsAppend
    <2>3. /\ txs \in Seq(Transactions) /\ others \in Seq(Transactions)
          /\ Increasing(txs) /\ Increasing(others) /\ Below(txs, others)
          /\ PassedOn(txs) /\ PassedOn(others)
      BY <1>1, <1>5, <1>9, TakenFacts DEF NodeInv
    <2> HIDE DEF txs, others
    <2>4. /\ Increasing(txs \o others)
          /\ \A i \in DOMAIN (txs \o others) :
                \/ \E j \in DOMAIN txs : (txs \o others)[i] = txs[j]
                \/ \E j \in DOMAIN others : (txs \o others)[i] = others[j]
      BY <2>3, IncreasingConcat
    <2>5. PassedOn(txs \o others)
      BY <2>3, <2>4 DEF PassedOn
    <2>6. Increasing(Txs(handed.queued))'
      BY <2>2, <2>4 DEF Increasing
    <2>7. PassedOn(Txs(handed.queued))'
      BY <1>1, <2>2, <2>5 DEF PassedOn, Stuck
    <2>8. /\ Len(handed'.queued) = Len(handed.queued) + 1
          /\ build'.block.blockNumber <= Len(handed'.queued)
          /\ build'.block.blockNumber # 0
      <3>1. Len(handed'.queued) = Len(handed.queued) + 1
        BY <1>1, <2>1, AppendFacts
      <3>2. build.block.blockNumber <= Len(handed.queued) + 1
        BY <1>4 DEF NodeInv, BlockShape
      <3>3. QED
        BY <1>1, <1>9, <3>1, <3>2
    <2>9. QED
      BY <1>1, <1>4, <1>6, <1>7, <2>6, <2>7, <2>8 DEF Once
  <1>10. QED
    BY <1>1, <1>8, <1>9

LEMMA BlockNumberStoredOnce ==
    ASSUME NodeInv, Once, BlockNumberStored
    PROVE  Once'
  <1>1. /\ build.at = "number" /\ build' = NoBuild /\ Return /\ lock # <<>>
        /\ UNCHANGED <<pending, handed, issued, machine>>
        /\ build.block.blockNumber \in Nat
        /\ pending.blockNumber = build.block.blockNumber + 1
    BY BlockFacts DEF NodeInv, TypeOK, BuilderType, CallShape, BlockShape,
                      BlockNumberStored
  <1>2. /\ aggregator'.next = aggregator.next
        /\ aggregator'.queue = aggregator.queue
        /\ (aggregator'.at = "idle") <=> (aggregator.at = "idle")
    BY <1>1, ReturnFacts DEF NodeInv
  <1>3. /\ build'.at = "none" /\ build'.block.txs = <<>> /\ 1 \in issued
        /\ ~Taking /\ ~Taking' /\ pending.blockNumber # 0
    BY <1>1, NoBuildFacts, AfterFirst DEF Taking
  <1>4. Txs(handed'.queued) = Txs(handed.queued)
    BY <1>1 DEF Txs
  <1>5. Fits(pending)'
    BY <1>1, <1>3, <1>4 DEF Once, Fits
  <1>6. /\ PassedOn(Txs(handed.queued))' /\ PassedOn(pending.txs)'
    BY <1>1, <1>2, <1>4 DEF Once, PassedOn, Stuck
  <1>7. PassedOn(build.block.txs)'
    BY <1>3 DEF PassedOn
  <1>8. Increasing(Txs(handed.queued))'
    BY <1>4 DEF Once, Increasing
  <1>9. QED
    BY <1>1, <1>3, <1>5, <1>6, <1>7, <1>8 DEF Once

\* The pending block that a restart recovers still fits.
LEMMA RecoveredFits ==
    ASSUME NodeInv, Once, Durable
    PROVE  /\ Fits(RecoveredBlock)
           /\ RecoveredBlock.blockNumber = 0 => handed.queued = <<>>
  <1> DEFINE number == IF build.at = "none" THEN pending.blockNumber
                                            ELSE build.block.blockNumber
  <1>1. /\ RecoveredBlock.blockNumber = number \/ number = 0
        /\ number = 0 => handed.queued = <<>>
    BY DEF Durable, Once
  <1>2. /\ Txs(handed.queued) \in Seq(Transactions)
        /\ pending.txs \in Seq(Transactions)
        /\ RecoveredBlock.blockNumber \in Nat
    BY TakenFacts, RecoveredFacts, BlockFacts DEF NodeInv
  <1>3. handed.queued = <<>> => Txs(handed.queued) = <<>>
    BY TxsAppend DEF NodeInv, TypeOK, BuilderType
  <1>4. ASSUME NEW block, Fits(block), block.blockNumber = number,
               RecoveredTxs = block.txs
        PROVE  Fits(RecoveredBlock)
    <2>1. Increasing(RecoveredBlock.txs)
      BY <1>4, RecoveredIs DEF Fits
    <2>2. CASE number = 0
      BY <1>1, <1>3, <2>1, <2>2, EmptyFacts DEF Fits
    <2>3. CASE RecoveredBlock.blockNumber = number
      BY <1>4, <2>1, <2>3, RecoveredIs DEF Fits
    <2>4. QED
      BY <1>1, <2>2, <2>3
  <1>5. CASE Taking
    <2>1. /\ Fits(build.block) /\ RecoveredTxs = build.block.txs
          /\ build.block.blockNumber = number
      BY <1>5 DEF Once, Durable, Taking
    <2>2. QED
      BY <1>1, <1>4, <2>1
  <1>6. CASE build.at = "count"
    <2>1. /\ Increasing(build.block.txs) /\ RecoveredTxs = build.block.txs
          /\ build.block.blockNumber = number
          /\ build.block.blockNumber <= Len(handed.queued)
      BY <1>6 DEF Once, Durable
    <2>2. build.block.blockNumber \in Nat /\ Len(handed.queued) \in Nat
      BY BlockFacts DEF NodeInv, TypeOK, BuilderType
    <2>3. CASE number = 0
      BY <1>1, <1>3, <2>1, <2>3, EmptyFacts, RecoveredIs DEF Fits
    <2>4. CASE RecoveredBlock.blockNumber = number
      <3>1. ~(RecoveredBlock.blockNumber > Len(handed.queued))
        BY <2>1, <2>2, <2>4
      <3>2. Increasing(RecoveredBlock.txs)
        BY <2>1, RecoveredIs
      <3>3. QED
        BY <1>1, <3>1, <3>2 DEF Fits
    <2>5. QED
      BY <1>1, <2>3, <2>4
  <1>7. CASE build.at = "number"
    <2>1. db.count = 0 /\ ~Fresh
      BY <1>7 DEF Durable
    <2>2. RecoveredBlock.txs = <<>>
      BY <2>1, RecoveredIs
    <2>3. QED
      BY <1>1, <2>2, EmptyFacts DEF Fits
  <1>8. CASE build.at = "none" /\ ~Adding
    <2>1. /\ Fits(pending) /\ RecoveredTxs = pending.txs
          /\ pending.blockNumber = number
      BY <1>8 DEF Once, Durable, Taking, Adding
    <2>2. QED
      BY <1>1, <1>4, <2>1
  <1>9. CASE build.at = "none" /\ Adding
    <2>1. Fits(pending) /\ pending.blockNumber = number
      BY <1>9 DEF Once, Taking
    <2>2. ASSUME NEW i \in DOMAIN RecoveredBlock.txs
          PROVE  /\ i \in DOMAIN pending.txs
                 /\ RecoveredBlock.txs[i] = pending.txs[i]
      <3>1. ~Fresh
        BY RecoveredIs, <2>2
      <3>2. /\ db.count = aggregator.index - 1
            /\ aggregator.index = Len(pending.txs)
            /\ SameUpTo(aggregator.index - 1) \/ SameUpTo(aggregator.index)
        BY <1>9, <3>1 DEF Durable, Adding
      <3>3. Len(pending.txs) \in Nat /\ DOMAIN pending.txs = 1..Len(pending.txs)
        BY <1>2
      <3>4. i \in 1..db.count /\ RecoveredBlock.txs[i] = db.txs[i]
        BY <2>2, <3>1, RecoveredIs
      <3>5. /\ i \in 1..(aggregator.index - 1) /\ i \in 1..aggregator.index
            /\ i \in 1..Len(pending.txs)
        BY <3>2, <3>3, <3>4
      <3>6. db.txs[i] = pending.txs[i]
        BY <3>2, <3>5 DEF SameUpTo
      <3>7. QED
        BY <3>3, <3>4, <3>5, <3>6
    <2>3. Increasing(RecoveredBlock.txs)
      BY <2>1, <2>2 DEF Fits, Increasing
    <2>4. CASE number = 0
      BY <1>1, <1>3, <2>3, <2>4, EmptyFacts DEF Fits
    <2>5. CASE RecoveredBlock.blockNumber = number
      <3>1. ASSUME RecoveredBlock.blockNumber > Len(handed.queued)
            PROVE  Below(Txs(handed.queued), RecoveredBlock.txs)
        <4>1. Below(Txs(handed.queued), pending.txs)
          BY <2>1, <2>5, <3>1 DEF Fits
        <4>2. QED
          BY <2>2, <4>1 DEF Below
      <3>2. QED
        BY <1>1, <2>3, <3>1 DEF Fits
    <2>6. QED
      BY <1>1, <2>4, <2>5
  <1>10. RecoveredBlock.blockNumber = 0 => handed.queued = <<>>
    BY <1>1
  <1>11. build.at \in {"none", "storage", "submitting", "count", "number"}
    BY DEF NodeInv, TypeOK, BuilderType
  <1>12. QED
    BY <1>5, <1>6, <1>7, <1>8, <1>9, <1>10, <1>11 DEF Taking

LEMMA RestartOnce ==
    ASSUME NodeInv, Once, Durable, Restarted, ~remembers
    PROVE  Once'
  <1>1. /\ UNCHANGED <<db, handed, issued>> /\ pending' = RecoveredBlock
        /\ build' = NoBuild /\ build'.at = "none" /\ build'.block.txs = <<>>
        /\ aggregator'.at = "idle" /\ aggregator'.next = NextToProcess
        /\ aggregator'.queue = {} /\ machine'.returned = {}
    BY NoBuildFacts
       DEF Restarted, NoAggregator, RecoveredResults, NodeInv, TypeOK, CallsType
  <1>2. Txs(handed'.queued) = Txs(handed.queued) /\ Fresh' = Fresh
    BY <1>1 DEF Txs, Fresh
  <1>3. Increasing(Txs(handed.queued))'
    BY <1>2 DEF Once, Increasing
  <1>4. /\ Fits(RecoveredBlock)
        /\ RecoveredBlock.blockNumber = 0 => handed.queued = <<>>
    BY RecoveredFits
  <1>5. Fits(pending)' /\ ~Taking'
    BY <1>1, <1>2, <1>4 DEF Fits, Taking
  <1>6. PassedOn(build.block.txs)'
    BY <1>1 DEF PassedOn
  <1>7. CASE 1 \in issued
    <2>1. NextToProcess \in issued
      BY <1>7 DEF NextToProcess, NodeInv, NumberShape
    <2>2. Stuck'
      BY <1>1, <2>1 DEF Stuck
    <2>3. QED
      BY <1>1, <1>3, <1>4, <1>5, <1>6, <1>7, <2>2 DEF Once, PassedOn
  <1>8. CASE 1 \notin issued
    <2>1. NothingYet
      BY <1>8 DEF Once
    <2>2. /\ pending'.txs = <<>> /\ aggregator'.next = 1
          /\ Txs(handed'.queued) = <<>>
      BY <1>1, <1>2, <2>1, RecoveredIs DEF NothingYet, NextToProcess
    <2>3. NothingYet'
      BY <1>1, <1>2, <2>1, <2>2 DEF NothingYet
    <2>4. PassedOn(Txs(handed.queued))' /\ PassedOn(pending.txs)'
      BY <2>2 DEF PassedOn
    <2>5. QED
      BY <1>1, <1>3, <1>4, <1>5, <1>6, <2>3, <2>4 DEF Once
  <1>9. QED
    BY <1>7, <1>8

LEMMA OnceStart ==
    ASSUME Init
    PROVE  Once
  <1>1. /\ handed.queued = <<>> /\ ~Taking /\ pending.txs = <<>>
        /\ aggregator.at = "idle" /\ aggregator.next = 1
        /\ build.at = "none" /\ build.block.txs = <<>> /\ Fresh
        /\ db.next = Absent
    BY DEF Init, NoBuild, NoAggregator, Block, Taking, Fresh
  <1>2. Txs(<<>>) = <<>>
    BY NodeStart, TxsAppend DEF NodeInv, TypeOK, BuilderType
  <1>3. Txs(handed.queued) = <<>>
    BY <1>1, <1>2
  <1>4. QED
    BY <1>1, <1>3, EmptyFacts DEF Once, Fits, NothingYet

LEMMA OnceNext ==
    ASSUME NodeInv, DurableShape, TwiceShape, NodeInv', [Next]_vars
    PROVE  TwiceShape'
  <1> SUFFICES ASSUME Unhurt', remembers' => "crash" \notin faults'
               PROVE  Once'
    BY DEF TwiceShape
  <1>1. faults \subseteq faults' /\ remembers' = remembers
    <2>1. CASE NumberFails \/ SubmitFails \/ BuildFails \/ Misplace
      BY <2>1 DEF NumberFails, SubmitFails, BuildFails, Misplace, Fails
    <2>2. CASE ~(NumberFails \/ SubmitFails \/ BuildFails \/ Misplace)
      BY <2>2
         DEF Next, StateMachine, Aggregator, Builder,
             Apply, NumberStored, NumberFails, Fails, HandleResult, Process,
             AddTransactionResult, TransactionStored, CountStored, NextStored,
             Deferred, BuildBlock, OpenSubtree, UpdateStorageSlot,
             UpdateContractSlots, Misplace, Submitted, CountReset,
             BlockNumberStored,
             TimeoutFires, Crash, Start, Restarted, vars
    <2>3. QED
      BY <2>1, <2>2
  <1>2. Once /\ Durable /\ "submit" \notin faults
    BY <1>1 DEF Unhurt, TwiceShape, DurableShape
  <1>3. ~SubmitFails /\ ~BuildFails /\ ~Start
    <2>1. "submit" \notin faults'
      BY DEF Unhurt
    <2>2. ~SubmitFails /\ ~BuildFails
      BY <2>1, ErrorFacts DEF NodeInv, TypeOK
    <2>3. ~Start
      BY <1>1, <1>2 DEF Start, NodeInv, CallShape
    <2>4. QED
      BY <2>2, <2>3
  <1>4. CASE Crash
    BY <1>1, <1>2, <1>4, RestartOnce DEF Crash
  <1>5. CASE StateMachine \/ TimeoutFires \/ UNCHANGED vars
    <2>1. UNCHANGED <<aggregator, pending, build, handed, db>>
      BY <1>5 DEF StateMachine, Apply, NumberStored, NumberFails,
                  TimeoutFires, vars, builderVars
    <2>2. issued \subseteq issued' /\ (Stuck => Stuck')
      <3>1. CASE NumberStored
        <4>1. /\ machine.applying \notin issued
              /\ issued' = issued \cup {machine.applying}
              /\ machine'.returned = machine.returned \cup {machine.applying}
          BY <3>1, NumbersFollow
             DEF NumberStored, NumberingInv, NumbersAreUnique, NodeInv, TypeOK,
                 CallsType
        <4>2. QED
          BY <2>1, <4>1 DEF Stuck
      <3>2. CASE ~NumberStored
        <4>1. UNCHANGED issued /\ machine'.returned = machine.returned
          BY <1>5, <3>2
             DEF StateMachine, Apply, NumberFails, TimeoutFires, vars, NodeInv,
                 TypeOK, CallsType
        <4>2. QED
          BY <2>1, <4>1 DEF Stuck
      <3>3. QED
        BY <3>1, <3>2
    <2>3. Fresh' = Fresh
      BY <2>1 DEF Fresh
    <2>4. QED
      BY <1>2, <2>1, <2>2, <2>3, OnceFrame
  <1>6. CASE (\E n \in machine.returned : HandleResult(n)) \/ Process
    <2>1. UNCHANGED <<pending, build, handed, db, issued>>
      BY <1>6 DEF HandleResult, Process, builderVars
    <2>2. aggregator \in Aggregators /\ machine \in Machines
      BY DEF NodeInv, TypeOK, CallsType, Aggregators, Machines
    <2>3. /\ aggregator'.next = aggregator.next
          /\ aggregator'.at = aggregator.at
          /\ aggregator'.queue \cup machine'.returned =
                aggregator.queue \cup machine.returned
      <3>1. CASE Process
        BY <2>2, <3>1 DEF Process, Aggregators
      <3>2. ASSUME NEW n \in machine.returned, HandleResult(n)
            PROVE  /\ aggregator'.next = aggregator.next
                   /\ aggregator'.at = aggregator.at
                   /\ aggregator'.queue \cup machine'.returned =
                         aggregator.queue \cup machine.returned
        <4>1. /\ aggregator'.next = aggregator.next
              /\ aggregator'.at = aggregator.at
              /\ aggregator'.queue = aggregator.queue \cup {n}
          BY <2>2, <3>2 DEF HandleResult, Aggregators
        <4>2. machine'.returned = machine.returned \ {n}
          BY <2>2, <3>2 DEF HandleResult, Machines
        <4>3. QED
          BY <4>1, <4>2
      <3>3. QED
        BY <1>6, <3>1, <3>2
    <2>4. Stuck => Stuck'
      BY <2>1, <2>3 DEF Stuck
    <2>5. Fresh' = Fresh
      BY <2>1 DEF Fresh
    <2>6. QED
      BY <1>2, <2>1, <2>3, <2>4, <2>5, OnceFrame
  <1>7. CASE TransactionStored \/ CountStored
    <2>1. /\ UNCHANGED <<pending, build, handed, issued>>
          /\ aggregator.at \in {"tx", "count"}
      BY <1>7 DEF TransactionStored, CountStored, builderVars
    <2>2. aggregator \in Aggregators
      BY DEF NodeInv, TypeOK, CallsType, Aggregators
    <2>3. aggregator'.next = aggregator.next /\ aggregator'.at # "idle"
      <3>1. CASE TransactionStored
        BY <2>2, <3>1 DEF TransactionStored, Aggregators
      <3>2. CASE CountStored
        BY <2>2, <3>2 DEF CountStored, Aggregators
      <3>3. QED
        BY <1>7, <3>1, <3>2
    <2>4. 1 \in issued /\ ~Stuck
      BY <1>2, <2>1, AfterFirst DEF Stuck
    <2>5. QED
      BY <1>2, <2>1, <2>3, <2>4, OnceFrame
  <1>8. CASE Deferred
    <2>1. /\ lock # <<>> /\ Return
          /\ UNCHANGED <<pending, build, handed, db, issued, machine>>
      BY <1>8 DEF Deferred
    <2>2. /\ aggregator'.next = aggregator.next
          /\ aggregator'.queue = aggregator.queue
          /\ (aggregator'.at = "idle") <=> (aggregator.at = "idle")
      BY <2>1, ReturnFacts DEF NodeInv
    <2>3. (Stuck => Stuck') /\ Fresh' = Fresh
      BY <2>1, <2>2 DEF Stuck, Fresh
    <2>4. QED
      BY <1>2, <2>1, <2>2, <2>3, OnceFrame
  <1>9. CASE \/ \E j \in build.jobs : OpenSubtree(j) \/ UpdateStorageSlot(j)
             \/ UpdateContractSlots \/ Misplace
    <2>1. /\ UNCHANGED <<aggregator, pending, handed, db, issued, machine>>
          /\ build'.block = build.block
          /\ build'.at = build.at \/ (Taking /\ Taking')
      <3>1. CASE UpdateContractSlots
        BY <3>1 DEF UpdateContractSlots, NodeInv, TypeOK, BuilderType, Taking
      <3>2. CASE \E j \in build.jobs : OpenSubtree(j) \/ UpdateStorageSlot(j)
        BY <3>2, JobMoves DEF NodeInv, TypeOK, BuildMoves
      <3>3. CASE Misplace
        BY <3>3, MisplaceMoves DEF NodeInv, TypeOK, Taking
      <3>4. QED
        BY <1>9, <3>1, <3>2, <3>3
    <2>2. (Stuck => Stuck') /\ Fresh' = Fresh
      BY <2>1 DEF Stuck, Fresh
    <2>3. QED
      BY <1>2, <2>1, <2>2, OnceFrame
  <1>10. CASE CountReset
    <2>1. /\ UNCHANGED <<aggregator, pending, handed, issued, machine>>
          /\ build.at = "count" /\ build'.at = "number"
          /\ build'.block = build.block
      BY <1>10 DEF CountReset, NodeInv, TypeOK, BuilderType
    <2>2. 1 \in issued /\ (Stuck => Stuck')
      BY <1>2, <2>1, AfterFirst DEF Stuck
    <2>3. QED
      BY <1>2, <2>1, <2>2, OnceFrame
  <1>11. QED
    BY <1>2, <1>3, <1>4, <1>5, <1>6, <1>7, <1>8, <1>9, <1>10, AddOnce,
       NextStoredOnce, BuildBlockOnce, SubmittedOnce, BlockNumberStoredOnce
       DEF Next, Aggregator, Builder

LEMMA OnceFollows ==
    ASSUME NodeInv, TwiceShape
    PROVE  NoTransactionTwice
  <1> SUFFICES ASSUME Unhurt, remembers => "crash" \notin faults
               PROVE  IsInjective(Txs(handed.queued))
    BY DEF NoTransactionTwice, Unhurt
  <1>1. Increasing(Txs(handed.queued))
    BY DEF TwiceShape, Once
  <1>2. Txs(handed.queued) \in Seq(Transactions)
    BY TakenFacts DEF NodeInv
  <1>3. QED
    BY <1>1, <1>2, IncreasingIsInjective

\* As long as nothing throws and the node does not crash, what the submitter
\* was given, the block being built and the pending one are the transactions
\* passed on, in their order, each once; and through crashes, and through
\* numbers that could not be stored, no transaction is in two of the blocks it
\* queued, unless a result was added while a block was submitted, building
\* or submitting one failed, or a restarted machine returned old results again.
THEOREM TransactionsAreSubmittedOnce == Spec => []EachOnceInOrder
  <1> DEFINE IInv == NodeInv /\ DurableShape /\ OrderShape /\ TwiceShape
  <1>1. Init => IInv
    BY NodeStart, DurableStart, OrderStart, OnceStart DEF TwiceShape
  <1>2. IInv /\ [Next]_vars => IInv'
    BY NodeNext, DurableNext, OrderNext, OnceNext
  <1>3. IInv => EachOnceInOrder
    BY OrderFollows, OnceFollows DEF EachOnceInOrder
  <1> HIDE DEF IInv
  <1>4. QED
    BY <1>1, <1>2, <1>3, PTL DEF Spec

-----------------------------------------------------------------------------
(***************************************************************************)
(* The trees, as long as no subtree is opened twice.                       *)
(***************************************************************************)
LEMMA BoundedMax ==
    ASSUME NEW N \in Nat, NEW S \in SUBSET (0..N), S # {}
    PROVE  Max(S) \in S /\ \A n \in S : n <= Max(S)
  <1> DEFINE below == {N - n : n \in S}
  <1>1. below \in SUBSET Nat /\ below # {}
    <2>1. \A n \in S : n \in 0..N
      OBVIOUS
    <2>2. \A n \in S : N - n \in Nat
      BY <2>1
    <2>3. QED
      BY <2>2
  <1>2. Min(below) \in below /\ \A n \in below : Min(below) <= n
    BY <1>1, NatMin
  <1>3. PICK m \in S : Min(below) = N - m
    BY <1>2
  <1>4. ASSUME NEW n \in S
        PROVE  m >= n
    <2>1. N - n \in below
      OBVIOUS
    <2>2. N - m <= N - n
      BY <1>2, <1>3, <2>1
    <2>3. n \in Nat /\ m \in Nat
      OBVIOUS
    <2>4. QED
      BY <2>2, <2>3
  <1>5. Max(S) \in S /\ \A n \in S : Max(S) >= n
    BY <1>4 DEF Max
  <1>6. QED
    BY <1>5

LEMMA MaxIs ==
    ASSUME NEW N \in Nat, NEW S \in SUBSET (0..N),
           NEW m \in S, \A n \in S : n <= m
    PROVE  Max(S) = m
  <1> DEFINE x == Max(S)
  <1>1. x \in S /\ m <= x /\ x <= m
    BY BoundedMax
  <1> HIDE DEF x
  <1>2. x \in 0..N /\ m \in 0..N
    BY <1>1
  <1>3. x = m
    BY <1>1, <1>2
  <1>4. QED
    BY <1>3 DEF x

\* The transactions that write a slot, or none.
Writers(c, s, txs) ==
    {None} \cup {n \in Range(txs) : <<c, s>> \in Modified[n]}

LEMMA WrittenFacts ==
    ASSUME NEW txs \in Seq(Transactions), NEW c, NEW s
    PROVE  /\ Written(c, s, txs) = Max(Writers(c, s, txs))
           /\ Writers(c, s, txs) \in SUBSET (0..Len(Modified))
           /\ Written(c, s, txs) \in Writers(c, s, txs)
           /\ \A n \in Writers(c, s, txs) : n <= Written(c, s, txs)
           /\ Range(txs) = {txs[i] : i \in 1..Len(txs)}
  <1>1. Range(txs) = {txs[i] : i \in 1..Len(txs)}
    BY DEF Range
  <1>2. \A i \in 1..Len(txs) : txs[i] \in Transactions
    OBVIOUS
  <1>3. Writers(c, s, txs) \in SUBSET (0..Len(Modified))
    BY <1>1, <1>2, TransactionFacts DEF Writers, None
  <1>4. Writers(c, s, txs) # {} /\ Len(Modified) \in Nat
    BY TransactionFacts DEF Writers
  <1>5. Written(c, s, txs) = Max(Writers(c, s, txs))
    BY DEF Written, Writers
  <1>6. QED
    BY <1>1, <1>3, <1>4, <1>5, BoundedMax

\* A slot of a contract, as the trees and as the results name it.
LEMMA KeyFacts ==
    /\ \A n \in Transactions : \A k \in Modified[n] :
          k = <<k[1], k[2]>> /\ k[1] \in Contracts /\ k[2] \in Slots
    /\ EmptyTree # NoLeaf \/ Slots = {}
    /\ \A f : DOMAIN f = Slots => f # NoLeaf \/ Slots = {}
  <1>1. ASSUME NEW n \in Transactions, NEW k \in Modified[n]
        PROVE  k = <<k[1], k[2]>> /\ k[1] \in Contracts /\ k[2] \in Slots
    <2>1. Modified[n] \in SUBSET (Nat \X Nat) /\ n \in DOMAIN Modified
      BY DEF Transactions
    <2>2. k \in UNION Range(Modified)
      BY <2>1 DEF Range
    <2>3. QED
      BY <2>1, <2>2 DEF Contracts, Slots
  <1>2. \A f : DOMAIN f = Slots => f # NoLeaf \/ Slots = {}
    <2>1. DOMAIN NoLeaf = {}
      BY DEF NoLeaf
    <2>2. QED
      BY <2>1
  <1>3. DOMAIN EmptyTree = Slots
    BY DEF EmptyTree
  <1>4. QED
    BY <1>1, <1>2, <1>3

\* Each slot a block modifies gets the last transaction that modifies it.
LEMMA StorageFacts ==
    ASSUME NEW b \in Blocks
    PROVE  /\ DOMAIN ModifiedStorage(b) =
                 UNION {Modified[n] : n \in Range(b.txs)}
           /\ \A k \in DOMAIN ModifiedStorage(b) :
                 /\ k = <<k[1], k[2]>> /\ k[1] \in Contracts /\ k[2] \in Slots
                 /\ \E i \in 1..Len(b.txs) :
                       /\ ModifiedStorage(b)[k] = b.txs[i]
                       /\ k \in Modified[b.txs[i]]
                       /\ \A j \in 1..Len(b.txs) :
                             k \in Modified[b.txs[j]] => j <= i
  <1>1. DOMAIN ModifiedStorage(b) = UNION {Modified[n] : n \in Range(b.txs)}
    BY DEF ModifiedStorage
  <1>2. /\ b.txs \in Seq(Transactions) /\ Len(b.txs) \in Nat
        /\ DOMAIN b.txs = 1..Len(b.txs)
    BY BlockFacts
  <1>3. ASSUME NEW k \in DOMAIN ModifiedStorage(b)
        PROVE  /\ k = <<k[1], k[2]>> /\ k[1] \in Contracts /\ k[2] \in Slots
               /\ \E i \in 1..Len(b.txs) :
                     /\ ModifiedStorage(b)[k] = b.txs[i]
                     /\ k \in Modified[b.txs[i]]
                     /\ \A j \in 1..Len(b.txs) :
                           k \in Modified[b.txs[j]] => j <= i
    <2>1. PICK n \in Range(b.txs) : k \in Modified[n]
      BY <1>1, <1>3
    <2>2. PICK l \in 1..Len(b.txs) : b.txs[l] = n
      BY <1>2, <2>1 DEF Range
    <2>3. n \in Transactions
      BY <1>2, <2>2
    <2>4. Modifying(b, k) \in SUBSET (0..Len(b.txs)) /\ l \in Modifying(b, k)
      BY <1>2, <2>1, <2>2 DEF Modifying
    <2> DEFINE i == Max(Modifying(b, k))
    <2>5. i \in Modifying(b, k) /\ \A j \in Modifying(b, k) : j <= i
      BY <1>2, <2>4, BoundedMax
    <2>6. ModifiedStorage(b)[k] = b.txs[i]
      BY <1>1, <1>3 DEF ModifiedStorage
    <2> HIDE DEF i
    <2>7. /\ i \in 1..Len(b.txs) /\ k \in Modified[b.txs[i]]
          /\ \A j \in 1..Len(b.txs) : k \in Modified[b.txs[j]] => j <= i
      BY <1>2, <2>5 DEF Modifying
    <2>8. k = <<k[1], k[2]>> /\ k[1] \in Contracts /\ k[2] \in Slots
      BY <2>1, <2>3, KeyFacts
    <2>9. QED
      BY <2>6, <2>7, <2>8
  <1>4. QED
    BY <1>1, <1>3

\* When transactions are passed on in order, the last in the block that
\* modifies a slot is the last of all that do.
LEMMA BlockWrites ==
    ASSUME NodeInv, Ordered, build.at = "storage", NEW c, NEW s
    PROVE  Written(c, s, Txs(handed.all) \o build.block.txs) =
              IF <<c, s>> \in DOMAIN Storage
              THEN Storage[<<c, s>>]
              ELSE Written(c, s, Txs(handed.all))
  <1> DEFINE a == Txs(handed.all)
             b == build.block.txs
             all == a \o b
             rest == pending.txs
  <1>1. /\ a \in Seq(Transactions) /\ b \in Seq(Transactions)
        /\ rest \in Seq(Transactions) /\ build.block \in Blocks
        /\ Taken = all \o rest
    BY TakenFacts DEF NodeInv, TypeOK, BuilderType, Being, Taking
  <1> HIDE DEF a, b, rest
  <1>2. /\ all \in Seq(Transactions) /\ Len(all) = Len(a) + Len(b)
        /\ Len(a) \in Nat /\ Len(b) \in Nat /\ Len(all) \in Nat
        /\ \A i \in 1..Len(a) : all[i] = a[i]
        /\ \A i \in 1..Len(b) : all[Len(a) + i] = b[i]
    BY <1>1, ConcatFacts
  <1> HIDE DEF all
  <1>3. ASSUME NEW i \in 1..Len(all)
        PROVE  all[i] = i
    <2>1. /\ Len(Taken) = Len(all) + Len(rest) /\ Len(rest) \in Nat
          /\ Taken[i] = all[i]
      <3>1. all \in Seq(Transactions) /\ rest \in Seq(Transactions)
        BY <1>1, <1>2
      <3>2. /\ Len(all \o rest) = Len(all) + Len(rest) /\ Len(rest) \in Nat
            /\ \A n \in 1..Len(all) : (all \o rest)[n] = all[n]
        BY ONLY <3>1, ConcatFacts
      <3>3. QED
        BY <1>1, <3>2
    <2>2. i \in 1..Len(Taken)
      BY <1>2, <2>1
    <2>3. QED
      BY <2>1, <2>2 DEF Ordered
  <1>4. /\ \A i \in 1..Len(a) : a[i] = i
        /\ \A i \in 1..Len(b) : b[i] = Len(a) + i
    <2>1. ASSUME NEW i \in 1..Len(a)
          PROVE  a[i] = i
      <3>1. i \in 1..Len(all)
        BY <1>2
      <3>2. QED
        BY <1>2, <1>3, <3>1
    <2>2. ASSUME NEW i \in 1..Len(b)
          PROVE  b[i] = Len(a) + i
      <3>1. Len(a) + i \in 1..Len(all)
        BY <1>2
      <3>2. QED
        BY <1>2, <1>3, <3>1
    <2>3. QED
      BY <2>1, <2>2
  <1>5. /\ Range(a) = 1..Len(a) /\ Range(all) = 1..(Len(a) + Len(b))
        /\ \A n \in Range(all) : n \notin Range(a) => n - Len(a) \in 1..Len(b)
        /\ Range(b) = {b[i] : i \in 1..Len(b)}
    <2>1. /\ Range(a) = {a[i] : i \in 1..Len(a)}
          /\ Range(all) = {all[i] : i \in 1..Len(all)}
          /\ Range(b) = {b[i] : i \in 1..Len(b)}
      BY <1>1, <1>2, WrittenFacts
    <2>2. Range(a) = 1..Len(a)
      BY <1>4, <2>1
    <2>3. Range(all) = 1..(Len(a) + Len(b))
      BY <1>2, <1>3, <2>1
    <2>4. ASSUME NEW n \in Range(all), n \notin Range(a)
          PROVE  n - Len(a) \in 1..Len(b)
      <3>1. n \in 1..(Len(a) + Len(b)) /\ n \notin 1..Len(a)
        BY <2>2, <2>3, <2>4
      <3>2. QED
        BY <1>2, <3>1
    <2>5. QED
      BY <2>1, <2>2, <2>3, <2>4
  <1>6. DOMAIN Storage = UNION {Modified[n] : n \in Range(b)}
    BY <1>1, StorageFacts DEF Storage, b
  <1>7. /\ Written(c, s, all) = Max(Writers(c, s, all))
        /\ Writers(c, s, all) \in SUBSET (0..Len(Modified))
        /\ Written(c, s, a) = Max(Writers(c, s, a))
        /\ Len(Modified) \in Nat
    BY <1>1, <1>2, WrittenFacts, TransactionFacts
  <1>8. CASE <<c, s>> \in DOMAIN Storage
    <2>1. PICK i \in 1..Len(b) :
             /\ Storage[<<c, s>>] = b[i]
             /\ <<c, s>> \in Modified[b[i]]
             /\ \A j \in 1..Len(b) : <<c, s>> \in Modified[b[j]] => j <= i
      BY <1>1, <1>8, StorageFacts DEF Storage, b
    <2>2. b[i] = Len(a) + i /\ b[i] \in Range(all)
      BY <1>2, <1>4, <1>5
    <2>3. b[i] \in Writers(c, s, all)
      BY <2>1, <2>2 DEF Writers
    <2>4. ASSUME NEW n \in Writers(c, s, all)
          PROVE  n <= b[i]
      <3>1. CASE n = None \/ n \in Range(a)
        BY <1>2, <1>5, <2>2, <3>1 DEF None
      <3>2. CASE n # None /\ n \notin Range(a)
        <4>1. n \in Range(all) /\ <<c, s>> \in Modified[n]
          BY <3>2 DEF Writers
        <4>2. n - Len(a) \in 1..Len(b) /\ n \in Nat
          BY <1>2, <1>5, <3>2, <4>1
        <4>3. b[n - Len(a)] = n
          BY <1>2, <1>4, <4>2
        <4>4. n - Len(a) <= i
          BY <2>1, <4>1, <4>2, <4>3
        <4>5. QED
          BY <1>2, <2>2, <4>2, <4>4
      <3>3. QED
        BY <3>1, <3>2
    <2>5. Max(Writers(c, s, all)) = b[i]
      BY <1>7, <2>3, <2>4, MaxIs
    <2>6. QED
      BY <1>7, <1>8, <2>1, <2>5 DEF all, a, b
  <1>9. CASE <<c, s>> \notin DOMAIN Storage
    <2>1. Writers(c, s, all) = Writers(c, s, a)
      <3>1. ASSUME NEW n \in Range(all), <<c, s>> \in Modified[n]
            PROVE  n \in Range(a)
        <4>1. SUFFICES ASSUME n \notin Range(a)
                       PROVE  FALSE
          OBVIOUS
        <4>2. n - Len(a) \in 1..Len(b) /\ n \in Nat
          BY <1>2, <1>5, <4>1
        <4>3. b[n - Len(a)] = n
          BY <1>2, <1>4, <4>2
        <4>4. n \in Range(b)
          BY <1>5, <4>2, <4>3
        <4>5. QED
          BY <1>6, <1>9, <3>1, <4>4
      <3>2. Range(a) \subseteq Range(all)
        BY <1>2, <1>5
      <3>3. QED
        BY <3>1, <3>2 DEF Writers
    <2>2. QED
      BY <1>7, <1>9, <2>1 DEF all, a, b
  <1>10. QED
    BY <1>8, <1>9

\* What the blocks handed over have written stays when nothing is handed over
\* or committed.
LEMMA ValuesKept ==
    ASSUME Committed' = Committed
    PROVE  /\ \A c, s : ValueOf(c, s)' = ValueOf(c, s)
           /\ \A c : StorageOf(c)' = StorageOf(c)
           /\ \A c : LeafOf(StorageOf(c))' = LeafOf(StorageOf(c))
  <1>1. \A c, s : ValueOf(c, s)' = ValueOf(c, s)
    BY DEF ValueOf, Written
  <1>2. \A c : StorageOf(c)' = StorageOf(c)
    BY <1>1 DEF StorageOf
  <1>3. QED
    BY <1>1, <1>2 DEF LeafOf

\* Outside of the building of a block, the subtrees hold what is committed.
LEMMA SubtreeFacts ==
    ASSUME build.at # "storage", NEW c
    PROVE  SubtreeOf(c) = StorageOf(c)
  BY DEF SubtreeOf, StorageOf, Updated

LEMMA TreeFacts ==
    ASSUME TreesFollow
    PROVE  /\ DOMAIN trees = Contracts
           /\ \A c \in Contracts :
                 /\ trees[c] = [opened |-> trees[c].opened,
                                content |-> SubtreeOf(c),
                                leaf |-> LeafOf(StorageOf(c))]
                 /\ trees[c].content = SubtreeOf(c)
                 /\ trees[c].leaf = LeafOf(StorageOf(c))
  <1> DEFINE record(c) == [opened |-> trees[c].opened, content |-> SubtreeOf(c),
                           leaf |-> LeafOf(StorageOf(c))]
  <1>1. trees = [c \in Contracts |-> record(c)]
    BY DEF TreesFollow
  <1>2. \A c : record(c).content = SubtreeOf(c)
               /\ record(c).leaf = LeafOf(StorageOf(c))
    OBVIOUS
  <1> HIDE DEF record
  <1>3. DOMAIN trees = Contracts /\ \A c \in Contracts : trees[c] = record(c)
    BY <1>1
  <1>4. QED
    BY <1>2, <1>3 DEF record

\* Most steps touch neither the trees nor the block being built.
LEMMA TreesFrame ==
    ASSUME TreesFollow, UNCHANGED <<trees, build, handed>>
    PROVE  TreesFollow'
  <1>1. Committed' = Committed
    BY DEF Committed, Txs
  <1>2. Storage' = Storage /\ DOMAIN Storage' = DOMAIN Storage
    BY DEF Storage, ModifiedStorage, Modifying
  <1>3. \A c, s : ValueOf(c, s)' = ValueOf(c, s)
    BY <1>1, ValuesKept
  <1>4. \A k : Updated(k)' <=> Updated(k)
    BY <1>2 DEF Updated, IsJob
  <1>5. \A c : SubtreeOf(c)' = SubtreeOf(c)
    BY <1>2, <1>3, <1>4 DEF SubtreeOf
  <1>6. \A c : LeafOf(StorageOf(c))' = LeafOf(StorageOf(c))
    BY <1>1, ValuesKept
  <1>7. JobShape' <=> JobShape
    BY <1>2 DEF JobShape
  <1>8. OpensTwice(DOMAIN Storage)' <=> OpensTwice(DOMAIN Storage)
    BY <1>2 DEF OpensTwice
  <1>9. BaseTree' = BaseTree
    BY DEF BaseTree
  <1>10. QED
    BY <1>5, <1>6, <1>7, <1>8, <1>9 DEF TreesFollow

LEMMA BuildBlockTrees ==
    ASSUME NodeInv, TreesFollow, BuildBlock, "reopened" \notin faults'
    PROVE  TreesFollow'
  <1> DEFINE storage == ModifiedStorage(pending)
             keys == DOMAIN storage
             jobs == {Job(k, storage[k]) : k \in keys}
  <1>1. /\ build.at = "none" /\ UNCHANGED <<handed, trees>>
        /\ build'.at = "storage" /\ build'.block = pending
        /\ build'.jobs = jobs /\ ~OpensTwice(keys)
        /\ pending \in Blocks
    BY DEF BuildBlock, NoBuild, NodeInv, TypeOK, BuilderType
  <1>2. Committed' = Committed
    BY <1>1 DEF Committed, Txs
  <1>3. Storage' = storage
    BY <1>1 DEF Storage, ModifiedStorage, Modifying
  <1>4. \A k \in keys : k = <<k[1], k[2]>>
    BY <1>1, StorageFacts
  <1>5. ~OpensTwice(DOMAIN Storage)'
    <2>1. ~\E k, l \in keys :
              k[1] = l[1] /\ k[2] # l[2] /\ trees'[k[1]].leaf = NoLeaf
      BY <1>1 DEF OpensTwice
    <2> HIDE DEF keys, storage
    <2>2. (DOMAIN Storage)' = keys
      BY <1>3 DEF keys
    <2>3. QED
      BY <2>1, <2>2 DEF OpensTwice
  <1> HIDE DEF storage
  <1>6. \A k \in keys : /\ Job(k, storage[k]) \in jobs
                        /\ Job(k, storage[k]).contract = k[1]
                        /\ Job(k, storage[k]).slot = k[2]
    BY DEF Job
  <1>7. ASSUME NEW j \in jobs
        PROVE  /\ j = [contract |-> j.contract, slot |-> j.slot,
                       value |-> j.value, opened |-> j.opened]
               /\ <<j.contract, j.slot>> \in keys
               /\ j.value = storage[<<j.contract, j.slot>>]
               /\ j.opened = 0
               /\ j = Job(<<j.contract, j.slot>>,
                          storage[<<j.contract, j.slot>>])
    <2>1. PICK k \in keys : j = Job(k, storage[k])
      OBVIOUS
    <2>2. <<j.contract, j.slot>> = k
      BY <1>4, <2>1 DEF Job
    <2>3. QED
      BY <2>1, <2>2 DEF Job
  <1> HIDE DEF jobs
  <1>8. \A k : ~Updated(k)'
    <2>1. ASSUME NEW k, k \in keys
          PROVE  \E j \in jobs : j.contract = k[1] /\ j.slot = k[2]
      BY <1>6, <2>1
    <2>2. QED
      BY <1>1, <1>3, <2>1 DEF Updated, IsJob
  <1>9. JobShape'
    BY <1>1, <1>3, <1>7 DEF JobShape
  <1>10. \A c : SubtreeOf(c)' = SubtreeOf(c)
    <2>1. \A c : SubtreeOf(c)' = StorageOf(c)'
      BY <1>8 DEF SubtreeOf, StorageOf
    <2>2. QED
      BY <1>1, <1>2, <2>1, ValuesKept, SubtreeFacts
  <1>11. \A c : LeafOf(StorageOf(c))' = LeafOf(StorageOf(c))
    BY <1>2, ValuesKept
  <1>12. trees = [c \in Contracts |->
                    [opened |-> trees[c].opened, content |-> SubtreeOf(c),
                     leaf |-> LeafOf(StorageOf(c))]]
    BY DEF TreesFollow
  <1>13. trees' = [c \in Contracts |->
                     [opened |-> trees'[c].opened, content |-> SubtreeOf(c)',
                      leaf |-> LeafOf(StorageOf(c))']]
    BY <1>1, <1>10, <1>11, <1>12
  <1>14. QED
    BY <1>1, <1>5, <1>9, <1>13 DEF TreesFollow

\* What a step on one tree must keep for the trees to follow.
LEMMA JobKeeps ==
    ASSUME TypeOK, TreesFollow, build.at = "storage",
           UNCHANGED <<handed, build.at, build.block>>,
           trees' = [c \in Contracts |-> trees'[c]],
           \A c \in Contracts :
               trees'[c] = [opened |-> trees'[c].opened,
                            content |-> SubtreeOf(c)',
                            leaf |-> trees[c].leaf],
           JobShape'
    PROVE  TreesFollow'
  <1>1. Committed' = Committed
    BY DEF Committed, Txs
  <1>2. (DOMAIN Storage)' = DOMAIN Storage
    BY DEF Storage, ModifiedStorage, Modifying
  <1>3. \A c : LeafOf(StorageOf(c))' = LeafOf(StorageOf(c))
    BY <1>1, ValuesKept
  <1>4. \A c \in Contracts : trees'[c].leaf = trees[c].leaf
    OBVIOUS
  <1>5. \A k \in DOMAIN Storage : k[1] \in Contracts
    BY StorageFacts DEF Storage, TypeOK, BuilderType
  <1>6. ~OpensTwice(DOMAIN Storage)'
    <2>1. ~\E k, l \in DOMAIN Storage :
              k[1] = l[1] /\ k[2] # l[2] /\ trees[k[1]].leaf = NoLeaf
      BY DEF TreesFollow, OpensTwice
    <2>2. QED
      BY <1>2, <1>4, <1>5, <2>1 DEF OpensTwice
  <1>7. \A c \in Contracts :
            trees'[c] = [opened |-> trees'[c].opened, content |-> SubtreeOf(c)',
                         leaf |-> LeafOf(StorageOf(c))']
    BY <1>3, TreeFacts
  <1>8. QED
    BY <1>6, <1>7 DEF TreesFollow

\* A contract without a leaf has one slot to update: its subtree is not lost.
LEMMA OpenSubtreeTrees ==
    ASSUME NodeInv, TreesFollow, NEW j \in build.jobs, OpenSubtree(j)
    PROVE  TreesFollow'
  <1> DEFINE c == j.contract
             tree == trees[c]
             opened == IF tree.leaf = NoLeaf
                       THEN [tree EXCEPT !.opened = @ + 1,
                                         !.content = EmptyTree]
                       ELSE tree
             new == [j EXCEPT !.opened = opened.opened]
  <1>1. build.at = "storage" /\ JobShape /\ ~OpensTwice(DOMAIN Storage)
    BY DEF TreesFollow
  <1>2. /\ trees' = [trees EXCEPT ![c] = opened]
        /\ build' = [build EXCEPT !.jobs = (@ \ {j}) \cup {new}]
        /\ UNCHANGED handed
    BY DEF OpenSubtree
  <1>3. /\ build'.at = "storage" /\ build'.block = build.block
        /\ build'.jobs = (build.jobs \ {j}) \cup {new}
        /\ TypeOK
    BY <1>1, <1>2 DEF NodeInv, TypeOK, BuilderType
  <1>4. /\ new.contract = c /\ new.slot = j.slot /\ new.value = j.value
        /\ new.opened = opened.opened
        /\ new = [contract |-> new.contract, slot |-> new.slot,
                  value |-> new.value, opened |-> new.opened]
    <2>1. j = [contract |-> j.contract, slot |-> j.slot,
               value |-> j.value, opened |-> j.opened]
      BY <1>1 DEF JobShape
    <2> HIDE DEF opened
    <2>2. new = [contract |-> c, slot |-> j.slot, value |-> j.value,
                 opened |-> opened.opened]
      BY <2>1
    <2> HIDE DEF c, new
    <2>3. QED
      BY <2>2
  <1>5. /\ <<c, j.slot>> \in DOMAIN Storage
        /\ c \in Contracts /\ j.slot \in Slots
    <2>1. <<c, j.slot>> \in DOMAIN Storage
      BY <1>1 DEF JobShape
    <2>2. build.block \in Blocks
      BY <1>3 DEF TypeOK, BuilderType
    <2>3. QED
      BY <2>1, <2>2, StorageFacts DEF Storage
  <1>6. Committed' = Committed /\ Storage' = Storage
        /\ (DOMAIN Storage)' = DOMAIN Storage
    <2>1. Committed' = Committed
      BY <1>1, <1>2, <1>3 DEF Committed, Txs
    <2>2. Storage' = Storage
      BY <1>3 DEF Storage, ModifiedStorage, Modifying
    <2>3. QED
      BY <2>1, <2>2
  <1>7. tree = [opened |-> tree.opened, content |-> SubtreeOf(c),
                leaf |-> LeafOf(StorageOf(c))]
    BY <1>5, TreeFacts
  <1>8. tree.leaf = NoLeaf => SubtreeOf(c) = EmptyTree
    <2>1. SUFFICES ASSUME tree.leaf = NoLeaf
                   PROVE  SubtreeOf(c) = EmptyTree
      OBVIOUS
    <2>2. StorageOf(c) = EmptyTree
      <3>1. DOMAIN StorageOf(c) = Slots /\ Slots # {}
        BY <1>5 DEF StorageOf
      <3>2. StorageOf(c) # NoLeaf
        BY <3>1, KeyFacts
      <3>3. LeafOf(StorageOf(c)) = NoLeaf
        BY <1>7, <2>1
      <3>4. QED
        BY <3>2, <3>3 DEF LeafOf
    <2>3. ASSUME NEW s \in Slots
          PROVE  ~Updated(<<c, s>>) /\ ValueOf(c, s) = None
      <3>1. ValueOf(c, s) = None
        <4>1. StorageOf(c)[s] = ValueOf(c, s) /\ EmptyTree[s] = None
          BY DEF StorageOf, EmptyTree
        <4>2. QED
          BY <2>2, <4>1
      <3>2. <<c, s>> \in DOMAIN Storage => s = j.slot
        BY <1>1, <1>5, <2>1 DEF OpensTwice
      <3>3. QED
        BY <3>1, <3>2 DEF Updated, IsJob
    <2>4. QED
      BY <2>3 DEF SubtreeOf, EmptyTree
  <1>9. /\ opened = [opened |-> opened.opened, content |-> SubtreeOf(c),
                     leaf |-> tree.leaf]
        /\ tree.leaf # NoLeaf => opened.opened = tree.opened
    <2>1. CASE tree.leaf = NoLeaf
      BY <1>7, <1>8, <2>1
    <2>2. CASE tree.leaf # NoLeaf
      BY <1>7, <2>2
    <2>3. QED
      BY <2>1, <2>2
  <1> HIDE DEF opened, new
  <1>10. \A k : Updated(k)' <=> Updated(k)
    <2>1. \A k : (\A i \in build.jobs : ~IsJob(i, k))
                  <=> (\A i \in build'.jobs : ~IsJob(i, k))
      BY <1>3, <1>4 DEF IsJob
    <2>2. QED
      BY <1>1, <1>3, <1>6, <2>1 DEF Updated, IsJob
  <1>11. \A d : SubtreeOf(d)' = SubtreeOf(d)
    BY <1>6, <1>10, ValuesKept DEF SubtreeOf
  <1>12. /\ trees' = [d \in Contracts |-> trees'[d]]
         /\ trees'[c] = opened
         /\ \A d \in Contracts : d # c => trees'[d] = trees[d]
    BY <1>2, <1>5, TreeFacts
  <1>13. \A d \in Contracts :
             trees'[d] = [opened |-> trees'[d].opened,
                          content |-> SubtreeOf(d)',
                          leaf |-> trees[d].leaf]
    <2>1. ASSUME NEW d \in Contracts
          PROVE  trees'[d] = [opened |-> trees'[d].opened,
                              content |-> SubtreeOf(d)',
                              leaf |-> trees[d].leaf]
      <3>1. CASE d = c
        BY <1>9, <1>11, <1>12, <3>1
      <3>2. CASE d # c
        <4>1. trees[d] = [opened |-> trees[d].opened, content |-> SubtreeOf(d),
                          leaf |-> trees[d].leaf]
          BY TreeFacts
        <4>2. QED
          BY <1>11, <1>12, <3>2, <4>1
      <3>3. QED
        BY <3>1, <3>2
    <2>2. QED
      BY <2>1
  <1>14. JobShape'
    <2>1. ASSUME NEW i \in build.jobs, i # j
          PROVE  i.opened # 0 => i.opened = trees'[i.contract].opened
      <3>1. /\ i.opened # 0 => i.opened = trees[i.contract].opened
            /\ <<i.contract, i.slot>> \in DOMAIN Storage
            /\ ~(i.contract = c /\ i.slot = j.slot)
        BY <1>1, <2>1 DEF JobShape
      <3>2. i.contract \in Contracts
        <4>1. build.block \in Blocks
          BY <1>3 DEF TypeOK, BuilderType
        <4>2. QED
          BY <3>1, <4>1, StorageFacts DEF Storage
      <3>3. CASE i.contract = c
        <4>1. tree.leaf # NoLeaf
          BY <1>1, <1>5, <3>1, <3>3 DEF OpensTwice
        <4>2. QED
          BY <1>9, <1>12, <3>1, <3>3, <4>1
      <3>4. CASE i.contract # c
        BY <1>12, <3>1, <3>2, <3>4
      <3>5. QED
        BY <3>3, <3>4
    <2>2. new.opened = trees'[new.contract].opened
      BY <1>4, <1>12
    <2>3. \A i \in build'.jobs : i = new \/ (i \in build.jobs /\ i # j)
      BY <1>3
    <2>4. /\ <<new.contract, new.slot>> \in DOMAIN Storage
          /\ new.value = Storage[<<new.contract, new.slot>>]
      BY <1>1, <1>4 DEF JobShape
    <2>5. \A i \in build'.jobs :
             /\ i = [contract |-> i.contract, slot |-> i.slot,
                     value |-> i.value, opened |-> i.opened]
             /\ <<i.contract, i.slot>> \in DOMAIN Storage
             /\ i.value = Storage[<<i.contract, i.slot>>]
             /\ i.opened # 0 => i.opened = trees'[i.contract].opened
      BY <1>1, <1>4, <2>1, <2>2, <2>3, <2>4 DEF JobShape
    <2>6. \A i, k \in build'.jobs :
             i.contract = k.contract /\ i.slot = k.slot => i = k
      BY <1>1, <1>4, <2>3 DEF JobShape
    <2>7. QED
      BY <1>6, <2>5, <2>6 DEF JobShape
  <1>15. QED
    BY <1>1, <1>2, <1>3, <1>12, <1>13, <1>14, JobKeeps

LEMMA UpdateStorageSlotTrees ==
    ASSUME NodeInv, TreesFollow, NEW j \in build.jobs, UpdateStorageSlot(j)
    PROVE  TreesFollow'
  <1> DEFINE c == j.contract
             key == <<j.contract, j.slot>>
  <1>1. /\ build.at = "storage" /\ JobShape /\ TypeOK
        /\ build' = [build EXCEPT !.jobs = @ \ {j}]
        /\ UNCHANGED handed
    BY DEF TreesFollow, NodeInv, UpdateStorageSlot
  <1>2. /\ build'.at = "storage" /\ build'.block = build.block
        /\ build'.jobs = build.jobs \ {j}
    BY <1>1 DEF TypeOK, BuilderType
  <1>3. /\ key \in DOMAIN Storage /\ j.value = Storage[key]
        /\ c \in Contracts /\ j.slot \in Slots
    <2>1. key \in DOMAIN Storage /\ j.value = Storage[key]
      BY <1>1 DEF JobShape
    <2>2. build.block \in Blocks
      BY <1>1 DEF TypeOK, BuilderType
    <2>3. QED
      BY <2>1, <2>2, StorageFacts DEF Storage
  <1>4. trees' = [trees EXCEPT ![c].content[j.slot] = j.value]
    BY <1>1 DEF UpdateStorageSlot, JobShape
  <1>5. Committed' = Committed /\ Storage' = Storage
        /\ (DOMAIN Storage)' = DOMAIN Storage
    <2>1. Committed' = Committed
      BY <1>1, <1>2 DEF Committed, Txs
    <2>2. Storage' = Storage
      BY <1>2 DEF Storage, ModifiedStorage, Modifying
    <2>3. QED
      BY <2>1, <2>2
  <1>6. \A d, s : Updated(<<d, s>>)'
                     <=> Updated(<<d, s>>) \/ (d = c /\ s = j.slot)
    <2>1. ASSUME NEW d, NEW s
          PROVE  Updated(<<d, s>>)'
                     <=> Updated(<<d, s>>) \/ (d = c /\ s = j.slot)
      <3>1. \A i : IsJob(i, <<d, s>>) <=> i.contract = d /\ i.slot = s
        BY DEF IsJob
      <3>2. CASE d = c /\ s = j.slot
        <4>1. \A i \in build'.jobs : ~IsJob(i, <<d, s>>)
          BY <1>1, <1>2, <3>1, <3>2 DEF JobShape
        <4>2. <<d, s>> \in DOMAIN Storage
          BY <1>3, <3>2
        <4>3. QED
          BY <1>2, <1>5, <3>2, <4>1, <4>2 DEF Updated, IsJob
      <3>3. CASE ~(d = c /\ s = j.slot)
        <4>1. (\A i \in build'.jobs : ~IsJob(i, <<d, s>>))
                 <=> (\A i \in build.jobs : ~IsJob(i, <<d, s>>))
          BY <1>2, <3>1, <3>3
        <4>2. QED
          BY <1>1, <1>2, <1>5, <3>3, <4>1 DEF Updated, IsJob
      <3>4. QED
        BY <3>2, <3>3
    <2>2. QED
      BY <2>1
  <1>7. \A d, s : ValueOf(d, s)' = ValueOf(d, s)
    BY <1>5, ValuesKept
  <1>8. \A d : SubtreeOf(d)' =
            [s \in Slots |-> IF d = c /\ s = j.slot THEN j.value
                                                  ELSE SubtreeOf(d)[s]]
    BY <1>3, <1>5, <1>6, <1>7 DEF SubtreeOf
  <1>9. \A d : SubtreeOf(d) = [s \in Slots |-> SubtreeOf(d)[s]]
    BY DEF SubtreeOf
  <1>10. \A d : d # c => SubtreeOf(d)' = SubtreeOf(d)
    BY <1>8, <1>9
  <1>11. SubtreeOf(c)' = [SubtreeOf(c) EXCEPT ![j.slot] = j.value]
    BY <1>8, <1>9
  <1>12. \A d \in Contracts :
            trees[d] = [opened |-> trees[d].opened, content |-> SubtreeOf(d),
                        leaf |-> trees[d].leaf]
    BY TreeFacts
  <1>13. /\ trees' = [d \in Contracts |-> trees'[d]]
         /\ \A d \in Contracts : d # c => trees'[d] = trees[d]
         /\ trees'[c] = [trees[c] EXCEPT !.content[j.slot] = j.value]
    BY <1>3, <1>4, TreeFacts
  <1>14. trees'[c] = [opened |-> trees[c].opened, content |-> SubtreeOf(c)',
                      leaf |-> trees[c].leaf]
    <2> DEFINE content == SubtreeOf(c)
    <2>1. trees[c] = [opened |-> trees[c].opened, content |-> content,
                      leaf |-> trees[c].leaf]
      BY <1>3, <1>12
    <2>2. SubtreeOf(c)' = [content EXCEPT ![j.slot] = j.value]
      BY <1>11
    <2> HIDE DEF content
    <2>3. trees'[c] = [opened |-> trees[c].opened,
                       content |-> [content EXCEPT ![j.slot] = j.value],
                       leaf |-> trees[c].leaf]
      BY <1>13, <2>1
    <2>4. QED
      BY <2>2, <2>3
  <1>15. \A d \in Contracts :
             /\ trees'[d] = [opened |-> trees'[d].opened,
                             content |-> SubtreeOf(d)',
                             leaf |-> trees[d].leaf]
             /\ trees'[d].opened = trees[d].opened
    <2>1. ASSUME NEW d \in Contracts
          PROVE  /\ trees'[d] = [opened |-> trees'[d].opened,
                                 content |-> SubtreeOf(d)',
                                 leaf |-> trees[d].leaf]
                 /\ trees'[d].opened = trees[d].opened
      <3>1. CASE d = c
        BY <1>14, <3>1
      <3>2. CASE d # c
        BY <1>10, <1>12, <1>13, <3>2
      <3>3. QED
        BY <3>1, <3>2
    <2>2. QED
      BY <2>1
  <1>16. JobShape'
    <2>1. \A i \in build.jobs : i.contract \in Contracts
      <3>1. build.block \in Blocks
        BY <1>1 DEF TypeOK, BuilderType
      <3>2. QED
        BY <1>1, <3>1, StorageFacts DEF JobShape, Storage
    <2>2. QED
      BY <1>1, <1>2, <1>5, <1>15, <2>1 DEF JobShape
  <1>17. QED
    BY <1>1, <1>2, <1>13, <1>15, <1>16, JobKeeps

\* The block is committed: every slot it modifies has its last value.
LEMMA UpdateContractSlotsTrees ==
    ASSUME NodeInv, Ordered, TreesFollow, UpdateContractSlots
    PROVE  TreesFollow'
  <1> DEFINE contracts == {k[1] : k \in DOMAIN Storage}
  <1>1. /\ build.at = "storage" /\ build.jobs = {}
        /\ trees' = [c \in Contracts |->
                        IF c \in contracts
                        THEN [trees[c] EXCEPT !.leaf = trees[c].content]
                        ELSE trees[c]]
        /\ build' = [build EXCEPT !.at = "submitting", !.root = BaseTree']
        /\ UNCHANGED handed
    BY DEF UpdateContractSlots, Storage
  <1>2. /\ build'.at = "submitting" /\ build'.block = build.block
        /\ build'.jobs = {} /\ build'.root = BaseTree'
        /\ build.block \in Blocks
    BY <1>1 DEF NodeInv, TypeOK, BuilderType
  <1>3. \A c, s : ValueOf(c, s)' = IF <<c, s>> \in DOMAIN Storage
                                   THEN Storage[<<c, s>>]
                                   ELSE ValueOf(c, s)
    <2>1. Committed' = Txs(handed.all) \o build.block.txs
      BY <1>1, <1>2 DEF Committed, Txs
    <2>2. Committed = Txs(handed.all)
      <3>1. Committed = Txs(handed.all) \o <<>>
        BY <1>1 DEF Committed
      <3>2. Txs(handed.all) \in Seq(Transactions)
        BY TakenFacts DEF NodeInv
      <3>3. QED
        BY <3>1, <3>2, ConcatFacts
    <2>3. \A c, s : ValueOf(c, s)' =
                       Written(c, s, Txs(handed.all) \o build.block.txs)
      BY <2>1 DEF ValueOf, Written
    <2>4. \A c, s : ValueOf(c, s) = Written(c, s, Txs(handed.all))
      BY <2>2 DEF ValueOf
    <2>5. QED
      BY <1>1, <2>3, <2>4, BlockWrites
  <1>4. \A k : Updated(k) <=> k \in DOMAIN Storage
    BY <1>1 DEF Updated
  <1>5. \A c : StorageOf(c)' = SubtreeOf(c)
    BY <1>3, <1>4 DEF StorageOf, SubtreeOf
  <1>6. \A c : SubtreeOf(c)' = StorageOf(c)'
    BY <1>2 DEF SubtreeOf, StorageOf, Updated
  <1>7. ASSUME NEW c \in Contracts
        PROVE  trees'[c] = [opened |-> trees[c].opened,
                            content |-> SubtreeOf(c)',
                            leaf |-> LeafOf(StorageOf(c)')]
    <2> DEFINE content == SubtreeOf(c)
               leaf == LeafOf(StorageOf(c))
    <2>1. trees[c] = [opened |-> trees[c].opened, content |-> content,
                      leaf |-> leaf]
      BY TreeFacts
    <2>2. SubtreeOf(c)' = content /\ StorageOf(c)' = content
      BY <1>5, <1>6
    <2>3. trees'[c] = IF c \in contracts
                      THEN [trees[c] EXCEPT !.leaf = trees[c].content]
                      ELSE trees[c]
      BY <1>1
    <2> HIDE DEF content, leaf
    <2>4. CASE c \in contracts
      <3>1. trees'[c] = [opened |-> trees[c].opened, content |-> content,
                         leaf |-> content]
        BY <2>1, <2>3, <2>4
      <3>2. content # EmptyTree
        <4>1. PICK k \in DOMAIN Storage : k[1] = c
          BY <2>4
        <4>2. /\ k = <<k[1], k[2]>> /\ k[2] \in Slots
              /\ \E i \in 1..Len(build.block.txs) :
                    Storage[k] = build.block.txs[i]
          BY <1>2, StorageFacts DEF Storage
        <4>3. Storage[k] \in Transactions
          BY <1>2, <4>2, BlockFacts
        <4>4. content[k[2]] = Storage[k]
          BY <1>4, <4>1, <4>2 DEF content, SubtreeOf
        <4>5. EmptyTree[k[2]] = None
          BY <4>2 DEF EmptyTree
        <4>6. QED
          BY <4>3, <4>4, <4>5, TransactionFacts
      <3>3. QED
        BY <2>2, <3>1, <3>2 DEF LeafOf
    <2>5. CASE c \notin contracts
      <3>1. \A s : <<c, s>> \notin DOMAIN Storage
        BY <2>5
      <3>2. content = StorageOf(c)
        BY <1>4, <3>1 DEF content, SubtreeOf, StorageOf
      <3>3. QED
        BY <2>1, <2>2, <2>3, <2>5, <3>2 DEF leaf
    <2>6. QED
      BY <2>4, <2>5
  <1>8. \A c : LeafOf(StorageOf(c))' = LeafOf(StorageOf(c)')
    BY DEF LeafOf
  <1>9. trees' = [c \in Contracts |->
                     [opened |-> trees'[c].opened, content |-> SubtreeOf(c)',
                      leaf |-> LeafOf(StorageOf(c))']]
    <2>1. trees' = [c \in Contracts |-> trees'[c]]
      BY <1>1
    <2>2. QED
      BY <1>7, <1>8, <2>1
  <1>10. QED
    BY <1>2, <1>9 DEF TreesFollow

\* A block in the trees is handed over, or its number stored.
LEMMA HandedTrees ==
    ASSUME NodeInv, TreesFollow, Submitted \/ CountReset \/ BlockNumberStored
    PROVE  TreesFollow'
  <1>1. /\ build.at \notin {"storage"} /\ build'.at \notin {"storage", "submitting"}
        /\ UNCHANGED trees
    BY DEF Submitted, CountReset, BlockNumberStored, NodeInv, TypeOK,
           BuilderType, NoBuild
  <1>2. build'.jobs = {}
    BY <1>1 DEF Submitted, CountReset, BlockNumberStored, NodeInv, TypeOK,
                BuilderType, NoBuild, TreesFollow
  <1>3. Committed' = Committed
    <2>1. CASE Submitted
      <3>1. /\ handed'.all = Append(handed.all, build.block)
            /\ handed.all \in Seq(Blocks) /\ build.block \in Blocks
            /\ build.at = "submitting"
        BY <2>1, HandFacts DEF NodeInv, TypeOK, BuilderType, Submitted
      <3>2. Txs(handed'.all) = Committed
        BY <3>1, TxsAppend DEF Committed
      <3>3. Txs(handed'.all) \in Seq(Transactions)
        BY <3>1, <3>2, TakenFacts, ConcatFacts DEF NodeInv, Committed
      <3>4. Committed' = Txs(handed'.all) \o <<>>
        BY <1>1 DEF Committed, Txs
      <3>5. QED
        BY <3>2, <3>3, <3>4, ConcatEmptySeq
    <2>2. CASE CountReset \/ BlockNumberStored
      <3>1. UNCHANGED handed /\ build.at # "submitting"
        BY <2>2 DEF CountReset, BlockNumberStored
      <3>2. QED
        BY <1>1, <3>1 DEF Committed, Txs
    <2>3. QED
      BY <2>1, <2>2
  <1>4. \A c : /\ SubtreeOf(c)' = SubtreeOf(c)
               /\ LeafOf(StorageOf(c))' = LeafOf(StorageOf(c))
    <2>1. \A c : SubtreeOf(c)' = StorageOf(c)'
      BY <1>1 DEF SubtreeOf, StorageOf, Updated
    <2>2. QED
      BY <1>1, <1>3, <2>1, ValuesKept, SubtreeFacts
  <1>5. trees = [c \in Contracts |->
                    [opened |-> trees[c].opened, content |-> SubtreeOf(c),
                     leaf |-> LeafOf(StorageOf(c))]]
    BY DEF TreesFollow
  <1>6. trees' = [c \in Contracts |->
                     [opened |-> trees'[c].opened, content |-> SubtreeOf(c)',
                      leaf |-> LeafOf(StorageOf(c))']]
    BY <1>1, <1>4, <1>5
  <1>7. QED
    BY <1>1, <1>2, <1>6 DEF TreesFollow

LEMMA TreesStart ==
    ASSUME Init
    PROVE  TreeShape
  <1>1. /\ handed.all = <<>> /\ build.at = "none" /\ build.jobs = {}
        /\ trees = NoTrees
    BY DEF Init, NoBuild
  <1>2. <<>> \in Seq(Blocks) /\ \A t \in Seq(Transactions) : t \o <<>> = t
    BY NodeStart, ConcatFacts DEF Init, NodeInv, TypeOK, BuilderType
  <1>3. Txs(<<>>) = <<>> /\ <<>> \in Seq(Transactions)
    BY NodeStart, TxsAppend DEF NodeInv, TypeOK, BuilderType
  <1>4. Committed = <<>>
    BY <1>1, <1>2, <1>3 DEF Committed
  <1>5. \A c, s : ValueOf(c, s) = None
    <2>1. ASSUME NEW c, NEW s
          PROVE  Written(c, s, <<>>) = None
      <3>1. Written(c, s, <<>>) \in Writers(c, s, <<>>)
            /\ Range(<<>>) = {<<>>[i] : i \in 1..Len(<<>>)}
        BY <1>3, WrittenFacts
      <3>2. Range(<<>>) = {}
        BY <3>1
      <3>3. QED
        BY <3>1, <3>2 DEF Writers
    <2>2. QED
      BY <1>4, <2>1 DEF ValueOf
  <1>6. \A c : StorageOf(c) = EmptyTree
    BY <1>5 DEF StorageOf, EmptyTree
  <1>7. \A c : SubtreeOf(c) = EmptyTree /\ LeafOf(StorageOf(c)) = NoLeaf
    BY <1>1, <1>6, SubtreeFacts DEF LeafOf
  <1>8. trees = [c \in Contracts |->
                    [opened |-> trees[c].opened, content |-> SubtreeOf(c),
                     leaf |-> LeafOf(StorageOf(c))]]
    BY <1>1, <1>7 DEF NoTrees
  <1>9. QED
    BY <1>1, <1>8 DEF TreeShape, TreesFollow

LEMMA TreesNext ==
    ASSUME NodeInv, OrderShape, TreeShape, NodeInv', [Next]_vars
    PROVE  TreeShape'
  <1> SUFFICES ASSUME faults' \cap ({"reopened", "misplaced"} \cup Accidents)
                         = {}
               PROVE  TreesFollow'
    BY DEF TreeShape
  <1>1. ~(SubmitFails \/ BuildFails \/ Crash \/ Start)
    <2>1. NodeType
      BY DEF NodeInv, TypeOK
    <2>2. ~SubmitFails /\ ~BuildFails
      BY <2>1, ErrorFacts
    <2>3. ~Crash
      BY DEF Crash, Accidents
    <2>4. ~Start
      BY DEF Start, NodeInv, CallShape, Accidents
    <2>5. QED
      BY <2>2, <2>3, <2>4
  <1>2. TreesFollow /\ Ordered
    <2>1. faults \subseteq faults'
      BY <1>1
         DEF Next, StateMachine, Aggregator, Builder,
             Apply, NumberStored, NumberFails, Fails, HandleResult, Process,
             AddTransactionResult, TransactionStored, CountStored, NextStored,
             Deferred, BuildBlock, OpenSubtree, UpdateStorageSlot,
             UpdateContractSlots, Misplace, Submitted, CountReset,
             BlockNumberStored,
             TimeoutFires, vars
    <2>2. QED
      BY <2>1 DEF OrderShape, TreeShape
  <1>3. CASE \/ StateMachine \/ Aggregator \/ Deferred \/ TimeoutFires
             \/ UNCHANGED vars
    <2>1. UNCHANGED <<trees, build, handed>>
      BY <1>3
         DEF StateMachine, Aggregator, Apply, NumberStored, NumberFails,
             HandleResult, Process, AddTransactionResult, TransactionStored,
             CountStored, NextStored, Deferred, TimeoutFires, vars, builderVars
    <2>2. QED
      BY <1>2, <2>1, TreesFrame
  <1>4. "reopened" \notin faults' /\ ~Misplace
    <2>1. "reopened" \notin faults' /\ "misplaced" \notin faults'
      OBVIOUS
    <2>2. QED
      BY <2>1, FailsFacts DEF Misplace, NodeInv, TypeOK
  <1>5. QED
    BY <1>1, <1>2, <1>3, <1>4, BuildBlockTrees, OpenSubtreeTrees,
       UpdateStorageSlotTrees, UpdateContractSlotsTrees, HandedTrees
       DEF Next, Builder

LEMMA TreesGive ==
    ASSUME TreeShape
    PROVE  RootCommitsToStorage
  <1> DEFINE txs == Txs(handed.all) \o build.block.txs
             content(c) == [s \in Slots |-> Written(c, s, txs)]
  <1> SUFFICES ASSUME build.at = "submitting",
                      faults \cap {"crash", "submit", "reopened", "misplaced"}
                         = {},
                      NEW c \in Contracts
               PROVE  build.root[c] = IF content(c) = EmptyTree
                                      THEN NoLeaf ELSE content(c)
    BY DEF RootCommitsToStorage
  <1>1. TreesFollow
    BY DEF TreeShape, Accidents
  <1>2. build.root[c] = LeafOf(StorageOf(c))
    BY <1>1, TreeFacts DEF TreesFollow, BaseTree
  <1>3. StorageOf(c) = content(c)
    BY DEF StorageOf, ValueOf, Committed
  <1>4. QED
    BY <1>2, <1>3 DEF LeafOf

\* The root that is submitted with a block commits, for every contract, to the
\* last value written to each of its slots, by this block or by an earlier one,
\* however the updates of its slots are interleaved, and whatever is added or
\* times out meanwhile: as long as no build and no submission fails, the node does not
\* crash, no contract without a tree gets two slots in one block, and no node
\* of a tree is lost to another tree or taken for its own.
THEOREM RootsCommit == Spec => []RootCommitsToStorage
  <1> DEFINE IInv == NodeInv /\ OrderShape /\ TreeShape
  <1>1. Init => IInv
    BY NodeStart, OrderStart, TreesStart
  <1>2. IInv /\ [Next]_vars => IInv'
    BY NodeNext, OrderNext, TreesNext
  <1>3. IInv => RootCommitsToStorage
    BY TreesGive
  <1> HIDE DEF IInv
  <1>4. QED
    BY <1>1, <1>2, <1>3, PTL DEF Spec

=============================================================================
