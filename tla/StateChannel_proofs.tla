------------------------- MODULE StateChannel_proofs -------------------------
(***************************************************************************)
(* Proofs about StateChannel, for any number of clients, any messages and  *)
(* balances, and any number of overlapping calls and of exits.             *)
(***************************************************************************)
EXTENDS StateChannel, FiniteSetTheorems, TLAPS

USE ChannelAssumption

-----------------------------------------------------------------------------
(***************************************************************************)
(* The calls of a client.                                                  *)
(***************************************************************************)
\* The calls of c that a step takes away are among old, and it adds new.
CallsStep(c, old, new) ==
    /\ TasksType'
    /\ \A d \in Clients : d # c => Calls(d)' = Calls(d)
    /\ Calls(c)' \subseteq Calls(c) \cup new
    /\ new \subseteq Calls(c)'
    /\ Calls(c) \subseteq Calls(c)' \cup old

LEMMA BagPlus ==
    ASSUME NEW B, IsABag(B), NEW t
    PROVE  /\ IsABag(B (+) SetToBag({t}))
           /\ BagToSet(B (+) SetToBag({t})) = BagToSet(B) \cup {t}
  BY DEF IsABag, SetToBag, BagToSet, (+)

LEMMA BagMinus ==
    ASSUME NEW B, IsABag(B), NEW t
    PROVE  /\ IsABag(B (-) SetToBag({t}))
           /\ BagToSet(B (-) SetToBag({t})) \subseteq BagToSet(B)
           /\ BagToSet(B) \subseteq BagToSet(B (-) SetToBag({t})) \cup {t}
           /\ B = SetToBag({t}) => BagToSet(B (-) SetToBag({t})) = {}
  BY DEF IsABag, SetToBag, BagToSet, (-)

LEMMA BeginCalls ==
    ASSUME TasksType, sent' \subseteq [by : Clients, to : Clients, msg : Messages],
           NEW c \in Clients, NEW t, Begin(c, t)
    PROVE  CallsStep(c, {}, {t})
  <1>1. /\ IsABag(tasks[c] (+) SetToBag({t}))
        /\ BagToSet(tasks[c] (+) SetToBag({t})) = BagToSet(tasks[c]) \cup {t}
    BY BagPlus DEF TasksType
  <1>2. tasks' = [tasks EXCEPT ![c] = tasks[c] (+) SetToBag({t})]
    BY DEF Begin
  <1> DEFINE bag == tasks[c] (+) SetToBag({t})
  <1> HIDE DEF bag
  <1>3. tasks' = [d \in Clients |-> IF d = c THEN bag ELSE tasks[d]]
    BY <1>2 DEF bag, TasksType
  <1>4. QED
    BY <1>1, <1>3 DEF bag, TasksType, CallsStep, Calls

LEMMA EndCalls ==
    ASSUME TasksType, sent' \subseteq [by : Clients, to : Clients, msg : Messages],
           NEW c \in Clients, NEW t, End(c, t)
    PROVE  /\ CallsStep(c, {t}, {})
           /\ tasks[c] = SetToBag({t}) => Calls(c)' = {}
  <1> DEFINE bag == tasks[c] (-) SetToBag({t})
  <1>1. /\ IsABag(bag)
        /\ BagToSet(bag) \subseteq BagToSet(tasks[c])
        /\ BagToSet(tasks[c]) \subseteq BagToSet(bag) \cup {t}
        /\ tasks[c] = SetToBag({t}) => BagToSet(bag) = {}
    BY BagMinus DEF TasksType
  <1>2. tasks' = [tasks EXCEPT ![c] = bag]
    BY DEF End
  <1> HIDE DEF bag
  <1>3. tasks' = [d \in Clients |-> IF d = c THEN bag ELSE tasks[d]]
    BY <1>2 DEF TasksType
  <1>4. QED
    BY <1>1, <1>3 DEF TasksType, CallsStep, Calls

LEMMA GoOnCalls ==
    ASSUME TasksType, sent' \subseteq [by : Clients, to : Clients, msg : Messages],
           NEW c \in Clients, NEW t, NEW u, GoOn(c, t, u)
    PROVE  CallsStep(c, {t}, {u})
  <1> DEFINE rest == tasks[c] (-) SetToBag({t})
             bag  == rest (+) SetToBag({u})
  <1>1. /\ IsABag(rest)
        /\ BagToSet(rest) \subseteq BagToSet(tasks[c])
        /\ BagToSet(tasks[c]) \subseteq BagToSet(rest) \cup {t}
    BY BagMinus DEF TasksType
  <1>2. tasks' = [tasks EXCEPT ![c] = bag]
    BY DEF GoOn
  <1> HIDE DEF rest
  <1>3. IsABag(bag) /\ BagToSet(bag) = BagToSet(rest) \cup {u}
    BY <1>1, BagPlus
  <1> HIDE DEF bag
  <1>4. tasks' = [d \in Clients |-> IF d = c THEN bag ELSE tasks[d]]
    BY <1>2 DEF TasksType
  <1>5. QED
    BY <1>1, <1>3, <1>4 DEF TasksType, CallsStep, Calls

LEMMA SameCalls ==
    ASSUME TasksType, sent' \subseteq [by : Clients, to : Clients, msg : Messages],
           UNCHANGED tasks, NEW c \in Clients
    PROVE  CallsStep(c, {}, {})
  BY DEF TasksType, CallsStep, Calls

-----------------------------------------------------------------------------
(***************************************************************************)
(* What a client has is never lost.                                        *)
(***************************************************************************)
Grows ==
    /\ made \subseteq made' /\ sent \subseteq sent'
    /\ \A c \in Clients :
          /\ signed[c] \subseteq signed'[c] /\ exited[c] \subseteq exited'[c]
          /\ conflicts[c] \subseteq conflicts'[c] /\ Kept(c) \subseteq Kept(c)'

LEMMA MineGrow ==
    ASSUME Grows, NEW c \in Clients
    PROVE  CreatedBy(c) \subseteq CreatedBy(c)' /\ OwnSigned(c) \subseteq OwnSigned(c)'
  BY DEF Grows, CreatedBy, OwnSigned

LEMMA StoredGrows ==
    ASSUME Grows, NEW c \in Clients, NEW m, StoredShape(c, m)
    PROVE  StoredShape(c, m)'
  <1>1. /\ Origin(m) \in made'
        /\ m.msg \in CreatedBy(c) => m.msg \in CreatedBy(c)'
        /\ \A p \in m.signers : SignedMessage(p, m.msg) \in signed'[c]
    BY MineGrow DEF StoredShape, Grows
  <1>2. Envelope(Counterparty(c, m), c, m.msg) \in sent =>
           Envelope(Counterparty(c, m), c, m.msg) \in sent'
    BY DEF Grows
  <1>3. QED
    BY <1>1, <1>2 DEF StoredShape

LEMMA SentGrows ==
    ASSUME Grows, NEW n, n.by \in Clients, SentShape(n)
    PROVE  SentShape(n)'
  BY DEF Grows, SentShape

LEMMA SignedGrows ==
    ASSUME Grows, NEW c \in Clients, NEW s, s.by \in Clients, SignedShape(c, s)
    PROVE  SignedShape(c, s)'
  BY MineGrow DEF Grows, SignedShape

LEMMA ClaimGrows ==
    ASSUME Grows, NEW claim, ClaimShape(claim)
    PROVE  ClaimShape(claim)'
  BY MineGrow DEF Grows, ClaimShape

LEMMA CallGrows ==
    ASSUME Grows, NEW c \in Clients, NEW t, CallShape(c, t)
    PROVE  CallShape(c, t)'
  <1>1. IsExit(c, t) => IsExit(c, t)'
    BY ClaimGrows DEF IsExit
  <1>2. IsCreation(c, t) => IsCreation(c, t)'
    BY DEF IsCreation, Grows
  <1>3. IsReception(c, t) => IsReception(c, t)'
    BY DEF IsReception, Grows
  <1>4. Origin(t.parsed) \in made => Origin(t.parsed) \in made'
    BY DEF Grows
  <1>5. QED
    BY <1>1, <1>2, <1>3, <1>4 DEF CallShape

-----------------------------------------------------------------------------
(***************************************************************************)
(* Storing a message.                                                      *)
(***************************************************************************)
LEMMA OriginOf ==
    ASSUME NEW m \in ParsedMessages
    PROVE  /\ Origin(m) = Parsed(m.sender, m.recipient, m.msg, {})
           /\ Origin(m).sender = m.sender /\ Origin(m).recipient = m.recipient
           /\ Origin(m).msg = m.msg /\ Origin(m).signers = {}
           /\ m.sender \in Clients /\ m.recipient \in Clients
           /\ m.msg \in Messages /\ m.signers \subseteq Clients
           /\ m.msg.channel \in Nat /\ m.msg.nonce \in Nat
  <1>1. /\ m.sender \in Clients /\ m.recipient \in Clients
        /\ m.msg \in Messages /\ m.signers \in SUBSET Clients
        /\ m.msg.channel \in Nat /\ m.msg.nonce \in Nat
    BY DEF ParsedMessages, Messages
  <1>2. QED
    BY <1>1 DEF Origin, Parsed

LEMMA WithSignatureOf ==
    ASSUME NEW m \in ParsedMessages, NEW c \in Clients
    PROVE  /\ WithSignature(m, c) \in ParsedMessages
           /\ Origin(WithSignature(m, c)) = Origin(m)
           /\ WithSignature(m, c).sender = m.sender
           /\ WithSignature(m, c).recipient = m.recipient
           /\ WithSignature(m, c).msg = m.msg
           /\ WithSignature(m, c).signers = m.signers \cup {c}
  BY DEF ParsedMessages, WithSignature, Origin, Parsed

\* Two messages are the same if their channel, nonce and data are.
LEMMA SameMessage ==
    ASSUME NEW m \in Messages, NEW n \in Messages,
           SameSlot(m, n), m.data = n.data
    PROVE  m = n
  BY DEF Messages, SameSlot

\* The messages of a channel are between the same two clients.
LEMMA SameParties ==
    ASSUME MadeShape, NEW m \in ParsedMessages, NEW n \in ParsedMessages,
           Origin(m) \in made, Origin(n) \in made,
           m.msg.channel = n.msg.channel
    PROVE  /\ {m.sender, m.recipient} = {n.sender, n.recipient}
           /\ m.sender # m.recipient /\ n.sender # n.recipient
           /\ \A c \in {m.sender, m.recipient} :
                 /\ Counterparty(c, m) = Counterparty(c, n)
                 /\ Counterparty(c, m) # c
                 /\ {c, Counterparty(c, m)} = {m.sender, m.recipient}
  <1>1. PICK a \in made : /\ a.sender = m.sender /\ a.recipient = m.recipient
                          /\ a.msg = m.msg
    BY OriginOf
  <1>2. PICK b \in made : /\ b.sender = n.sender /\ b.recipient = n.recipient
                          /\ b.msg = n.msg
    BY OriginOf
  <1>3. /\ {a.sender, a.recipient} = {b.sender, b.recipient}
        /\ a.sender # a.recipient /\ b.sender # b.recipient
    BY ZenonT(40), <1>1, <1>2 DEF MadeShape
  <1>4. /\ {m.sender, m.recipient} = {n.sender, n.recipient}
        /\ m.sender # m.recipient /\ n.sender # n.recipient
    BY <1>1, <1>2, <1>3
  <1>5. QED
    BY <1>4 DEF Counterparty

\* What may be stored: a message of the client's own, of which it knows the
\* signatures or gives its own, for a message it has made or keeps.
Storable(c, m) ==
    /\ m \in ParsedMessages /\ Origin(m) \in made
    /\ c \in {m.sender, m.recipient}
    /\ m.signers \subseteq {m.sender, m.recipient}
    /\ \A p \in m.signers : p # c => SignedMessage(p, m.msg) \in signed[p]
    /\ m.msg \in CreatedBy(c) \/ Envelope(Counterparty(c, m), c, m.msg) \in sent
    /\ c \in m.signers => m.msg \in CreatedBy(c) \/ (m.msg \in Kept(c) /\ Valid(m))
    /\ c \in m.signers => \/ m.msg.nonce = 1
                          \/ \E k \in Kept(c) : k.channel = m.msg.channel

\* The invariant, as far as the databases are concerned.
DbInv == DbType /\ TasksType /\ MadeShape /\ Shapes /\ KeptAgree

LEMMA KeptIsMade ==
    ASSUME DbInv, NEW c \in Clients, NEW m \in store[c]
    PROVE  /\ m \in ParsedMessages /\ Origin(m) \in made
           /\ c \in {m.sender, m.recipient} /\ StoredShape(c, m)
           /\ m.msg.channel \in Nat /\ m.msg.nonce \in Nat /\ m.msg.nonce >= 1
           /\ m.msg.channel \in 1..created
  <1>1. m \in ParsedMessages /\ Origin(m) \in made /\ StoredShape(c, m)
    BY DEF DbInv, DbType, Shapes, StoredShape
  <1>2. QED
    BY <1>1, OriginOf DEF StoredShape, DbInv, MadeShape

LEMMA ChannelIsNotRejected ==
    ASSUME DbInv, NEW c \in Clients, NEW m \in ParsedMessages,
           Origin(m) \in made, c \in {m.sender, m.recipient},
           NEW k \in Kept(c), k.channel = m.msg.channel
    PROVE  ~Rejected(c, m)
  <1> DEFINE d == Counterparty(c, m)
  <1>1. PICK p \in store[c] : p.msg = k
    BY DEF Kept
  <1>2. /\ Counterparty(c, p) = d /\ d # c /\ {c, d} = {p.sender, p.recipient}
        /\ Counterparty(c, m) = d
    <2>1. /\ p \in ParsedMessages /\ Origin(p) \in made
          /\ c \in {p.sender, p.recipient} /\ MadeShape
      BY KeptIsMade DEF DbInv
    <2>2. QED
      BY <1>1, <2>1, SameParties
  <1> HIDE DEF d
  <1>3. m.msg.channel \in Channels(c, d)
    BY <1>1, <1>2 DEF Channels
  <1>4. ASSUME NEW q \in store[c], d \in {q.sender, q.recipient}
        PROVE  q.msg.channel = m.msg.channel
    <2>1. c \in {q.sender, q.recipient}
      BY KeptIsMade
    <2>2. Counterparty(c, q) = d
      BY <2>1, <1>2, <1>4 DEF Counterparty
    <2>3. QED
      BY <1>1, <1>2, <2>2 DEF DbInv, Shapes, StoreShape
  <1>5. Channels(c, d) = {m.msg.channel}
    BY <1>3, <1>4 DEF Channels
  <1>6. QED
    BY <1>2, <1>5 DEF Rejected

\* What storing a message does to the databases.
StoreStep(c, m) ==
    /\ \A d \in Clients : d # c => /\ store'[d] = store[d]
                                   /\ signed'[d] = signed[d]
                                   /\ conflicts'[d] = conflicts[d]
    /\ signed'[c] = signed[c] \cup {SignedMessage(s, m.msg) : s \in m.signers}
    /\ \/ /\ Conflicts(c, m.msg) /\ store'[c] = store[c]
          /\ conflicts'[c] = conflicts[c] \cup {<<m.msg.channel, m.msg.nonce>>}
       \/ /\ ~Conflicts(c, m.msg) /\ Rejected(c, m)
          /\ store'[c] = store[c] /\ conflicts'[c] = conflicts[c]
       \/ /\ ~Conflicts(c, m.msg) /\ ~Rejected(c, m)
          /\ store'[c] = (store[c] \ SameNonce(c, m.msg)) \cup {m}
          /\ conflicts'[c] = conflicts[c]
          /\ \A n \in SameNonce(c, m.msg) : n.msg = m.msg

LEMMA StoreMessageStep ==
    ASSUME DbInv, NEW c \in Clients, NEW m \in ParsedMessages,
           StoreMessage(c, m), UNCHANGED exited
    PROVE  DbType' /\ StoreStep(c, m)
  <1> DEFINE new == {SignedMessage(s, m.msg) : s \in m.signers}
  <1>1. new \subseteq [by : Clients, msg : Messages]
    BY OriginOf DEF SignedMessage
  <1> HIDE DEF new
  <1>2. signed' = [d \in Clients |-> IF d = c THEN signed[c] \cup new ELSE signed[d]]
    BY DEF StoreMessage, DbInv, DbType, new
  <1>3. signed' \in [Clients -> SUBSET [by : Clients, msg : Messages]]
    BY <1>1, <1>2 DEF DbInv, DbType
  <1>4. <<m.msg.channel, m.msg.nonce>> \in Nat \X Nat
    BY OriginOf
  <1>5. CASE Conflicts(c, m.msg)
    <2>1. /\ store' = store
          /\ conflicts' = [conflicts EXCEPT
                ![c] = conflicts[c] \cup {<<m.msg.channel, m.msg.nonce>>}]
      BY <1>5 DEF StoreMessage
    <2>2. conflicts' \in [Clients -> SUBSET (Nat \X Nat)]
      BY <1>4, <2>1 DEF DbInv, DbType
    <2>3. QED
      BY <1>2, <1>3, <1>5, <2>1, <2>2 DEF DbInv, DbType, StoreStep, new
  <1>6. CASE ~Conflicts(c, m.msg) /\ Rejected(c, m)
    <2>1. store' = store /\ conflicts' = conflicts
      BY <1>6 DEF StoreMessage
    <2>2. QED
      BY <1>2, <1>3, <1>6, <2>1 DEF DbInv, DbType, StoreStep, new
  <1>7. CASE ~Conflicts(c, m.msg) /\ ~Rejected(c, m)
    <2> DEFINE all == (store[c] \ SameNonce(c, m.msg)) \cup {m}
    <2>1. store' = [store EXCEPT ![c] = all] /\ conflicts' = conflicts
      BY <1>7 DEF StoreMessage
    <2>2. all \subseteq ParsedMessages
      BY DEF DbInv, DbType
    <2>3. \A n \in SameNonce(c, m.msg) : n.msg = m.msg
      <3> SUFFICES ASSUME NEW n \in SameNonce(c, m.msg) PROVE n.msg = m.msg
        OBVIOUS
      <3>1. n \in store[c] /\ n.msg.data = m.msg.data /\ SameSlot(n.msg, m.msg)
        BY <1>7 DEF Conflicts, SameNonce, SameSlot
      <3>2. n.msg \in Messages /\ m.msg \in Messages
        BY <3>1, KeptIsMade, OriginOf
      <3>3. QED
        BY <3>1, <3>2, SameMessage
    <2> HIDE DEF all
    <2>4. /\ store'[c] = all /\ \A d \in Clients : d # c => store'[d] = store[d]
          /\ store' \in [Clients -> SUBSET ParsedMessages]
      BY <2>1, <2>2 DEF DbInv, DbType
    <2>5. QED
      BY <1>2, <1>3, <1>7, <2>1, <2>3, <2>4
         DEF DbInv, DbType, StoreStep, new, all
  <1>8. QED
    BY <1>5, <1>6, <1>7

\* A step that stores a message, of which sent may gain others.
Storing(c, m) ==
    /\ DbInv /\ Storable(c, m) /\ StoreStep(c, m) /\ DbType'
    /\ sent \subseteq sent' /\ UNCHANGED <<made, created, exited>>

LEMMA StoreStepGrows ==
    ASSUME NEW c \in Clients, NEW m, StoreStep(c, m), sent \subseteq sent',
           UNCHANGED <<made, exited>>
    PROVE  Grows
  <1>1. \A d \in Clients : /\ signed[d] \subseteq signed'[d]
                           /\ conflicts[d] \subseteq conflicts'[d]
    BY DEF StoreStep
  <1>2. ASSUME NEW d \in Clients, NEW k \in Kept(d) PROVE k \in Kept(d)'
    <2>1. PICK n \in store[d] : n.msg = k
      BY DEF Kept
    <2>2. n \in store'[d] \/ (m \in store'[d] /\ m.msg = k)
      <3>1. CASE store'[d] = store[d]
        BY <2>1, <3>1
      <3>2. CASE /\ d = c
                 /\ store'[c] = (store[c] \ SameNonce(c, m.msg)) \cup {m}
                 /\ \A r \in SameNonce(c, m.msg) : r.msg = m.msg
        BY <2>1, <3>2
      <3>3. QED
        BY <3>1, <3>2 DEF StoreStep
    <2>3. QED
      BY <2>1, <2>2 DEF Kept
  <1>3. QED
    BY <1>1, <1>2 DEF Grows

LEMMA StoringGrows == ASSUME NEW c \in Clients, NEW m, Storing(c, m) PROVE Grows
  BY StoreStepGrows DEF Storing

\* What the message's slot has afterwards.
LEMMA SlotAfter ==
    ASSUME NEW c \in Clients, NEW m, Storing(c, m)
    PROVE  /\ \/ m.msg \in Kept(c)' \/ Rejected(c, m)
              \/ <<m.msg.channel, m.msg.nonce>> \in conflicts'[c]
           /\ Rejected(c, m) \/ \E k \in Kept(c)' : SameSlot(k, m.msg)
           /\ c \in m.signers => m.msg.nonce = 1 \/ ~Rejected(c, m)
  <1>1. CASE Conflicts(c, m.msg)
    <2>1. PICK n \in store[c] : SameSlot(n.msg, m.msg)
      BY <1>1 DEF Conflicts, SameNonce, SameSlot
    <2>2. n.msg \in Kept(c)'
      BY <2>1, StoringGrows DEF Grows, Kept
    <2>3. <<m.msg.channel, m.msg.nonce>> \in conflicts'[c] /\ ~Rejected(c, m)
      BY <1>1 DEF Storing, StoreStep, Rejected
    <2>4. QED
      BY <2>1, <2>2, <2>3
  <1>2. CASE ~Conflicts(c, m.msg) /\ ~Rejected(c, m)
    <2>1. m.msg \in Kept(c)' /\ SameSlot(m.msg, m.msg)
      BY <1>2 DEF Storing, StoreStep, Kept, SameSlot
    <2>2. QED
      BY <1>2, <2>1
  <1>3. CASE Rejected(c, m)
    <2>1. ASSUME c \in m.signers, m.msg.nonce # 1 PROVE FALSE
      <3>1. PICK k \in Kept(c) : k.channel = m.msg.channel
        BY <2>1 DEF Storing, Storable
      <3>2. ~Rejected(c, m)
        BY <3>1, ChannelIsNotRejected DEF Storing, Storable
      <3>3. QED
        BY <1>3, <3>2
    <2>2. QED
      BY <1>3, <2>1
  <1>4. QED
    BY <1>1, <1>2, <1>3

LEMMA StoringStored ==
    ASSUME NEW c \in Clients, NEW m, Storing(c, m), NEW d \in Clients
    PROVE  /\ \A n \in store'[d] : StoredShape(d, n)'
           /\ StoreShape(d)'
  <1>1. \A n \in store[d] : StoredShape(d, n)'
    BY StoringGrows, StoredGrows, KeptIsMade DEF Storing
  <1>2. StoredShape(c, m)'
    <2>1. \A p \in m.signers : SignedMessage(p, m.msg) \in signed'[c]
      BY DEF Storing, StoreStep
    <2>2. /\ Origin(m) \in made' /\ c \in {m.sender, m.recipient}
          /\ m.signers \subseteq {m.sender, m.recipient}
      BY DEF Storing, Storable
    <2>3. m.msg \in CreatedBy(c)' \/ Envelope(Counterparty(c, m), c, m.msg) \in sent'
      BY StoringGrows, MineGrow DEF Storing, Storable
    <2>4. QED
      BY <2>1, <2>2, <2>3 DEF StoredShape
  <1>3. CASE store'[d] = store[d]
    BY <1>1, <1>3 DEF StoreShape, Storing, DbInv, Shapes
  <1>4. CASE d = c /\ ~Conflicts(c, m.msg) /\ ~Rejected(c, m)
    <2>1. /\ store'[c] = (store[c] \ SameNonce(c, m.msg)) \cup {m}
          /\ \A n \in SameNonce(c, m.msg) : n.msg = m.msg
      BY <1>4 DEF Storing, StoreStep
    <2>2. \A n \in store'[c] : StoredShape(c, n)'
      BY <1>1, <1>2, <1>4, <2>1
    <2>3. ASSUME NEW n \in store[c], Counterparty(c, n) = Counterparty(c, m)
          PROVE  n.msg.channel = m.msg.channel
      <3>1. Channels(c, Counterparty(c, m)) \in {{}, {m.msg.channel}}
        BY <1>4 DEF Rejected
      <3>2. n.msg.channel \in Channels(c, Counterparty(c, m))
        BY <2>3 DEF Channels, Counterparty
      <3>3. QED
        BY <3>1, <3>2
    <2>4. ASSUME NEW n \in store[c] \ SameNonce(c, m.msg)
          PROVE  ~SameSlot(n.msg, m.msg) /\ ~SameSlot(m.msg, n.msg)
      BY <2>4 DEF SameNonce, SameSlot
    <2>5. StoreShape(c)
      BY DEF Storing, DbInv, Shapes
    <2>6. ASSUME NEW a \in store'[c], NEW b \in store'[c]
          PROVE  /\ SameSlot(a.msg, b.msg) => a = b
                 /\ Counterparty(c, a) = Counterparty(c, b) =>
                       a.msg.channel = b.msg.channel
      BY <2>1, <2>3, <2>4, <2>5 DEF StoreShape
    <2>7. StoreShape(c)'
      BY <2>6 DEF StoreShape
    <2>8. QED
      BY <1>4, <2>2, <2>7
  <1>5. QED
    BY <1>3, <1>4 DEF Storing, StoreStep

LEMMA StoringSigned ==
    ASSUME NEW c \in Clients, NEW m, Storing(c, m), NEW d \in Clients,
           NEW s \in signed'[d]
    PROVE  SignedShape(d, s)'
  <1>1. CASE s \in signed[d]
    <2>1. s.by \in Clients /\ SignedShape(d, s)
      BY <1>1 DEF Storing, DbInv, Shapes, DbType
    <2>2. QED
      BY <2>1, StoringGrows, SignedGrows
  <1>2. CASE s \notin signed[d]
    <2>1. /\ d = c
          /\ \E p \in m.signers : s = SignedMessage(p, m.msg)
      BY <1>2 DEF Storing, StoreStep
    <2>2. PICK p \in m.signers : s = SignedMessage(p, m.msg)
      BY <2>1
    <2>3. s.by = p /\ s.msg = m.msg
      BY <2>2 DEF SignedMessage
    <2>4. s \in signed'[s.by]
      <3>1. CASE p = c
        BY <2>1, <2>3, <3>1
      <3>2. CASE p # c
        <4>1. p \in Clients /\ s \in signed[p]
          BY <2>2, <3>2, OriginOf DEF Storing, Storable
        <4>2. QED
          BY <2>3, <4>1, StoringGrows DEF Grows
      <3>3. QED
        BY <3>1, <3>2
    <2>5. ASSUME p = c
          PROVE  /\ \/ s.msg \in CreatedBy(c)'
                    \/ /\ s.msg \in Kept(c)' /\ s.msg.data \notin Bad
                       /\ \E e \in Clients : Parsed(e, c, s.msg, {}) \in made'
                 /\ s.msg.nonce = 1 \/ \E k \in Kept(c)' : SameSlot(k, s.msg)
      <3>1. s.msg.nonce = 1 \/ \E k \in Kept(c)' : SameSlot(k, s.msg)
        BY <2>2, <2>3, <2>5, SlotAfter
      <3>2. CASE m.msg \in CreatedBy(c)
        BY <2>3, <3>1, <3>2, StoringGrows, MineGrow
      <3>3. CASE m.msg \notin CreatedBy(c) /\ m.msg \in Kept(c) /\ Valid(m)
        <4>1. PICK n \in store[c] : n.msg = m.msg
          BY <3>3 DEF Kept
        <4>2. /\ n \in ParsedMessages /\ Origin(n) \in made
              /\ c \in {n.sender, n.recipient}
          BY KeptIsMade DEF Storing
        <4>3. Origin(n) = Parsed(n.sender, n.recipient, m.msg, {})
              /\ Origin(n).sender = n.sender /\ Origin(n).msg = m.msg
              /\ n.sender \in Clients
          BY <4>1, <4>2, OriginOf
        <4>4. n.sender # c
          BY <3>3, <4>2, <4>3 DEF CreatedBy
        <4>5. Parsed(n.sender, c, s.msg, {}) \in made'
          BY <2>3, <4>2, <4>3, <4>4 DEF Storing
        <4>6. s.msg \in Kept(c)'
          BY <2>3, <3>3, StoringGrows DEF Grows
        <4>7. s.msg.data \notin Bad
          BY <2>3, <3>3 DEF Valid
        <4>8. QED
          BY <3>1, <4>3, <4>5, <4>6, <4>7
      <3>4. QED
        BY <2>2, <2>5, <3>2, <3>3 DEF Storing, Storable
    <2>6. QED
      BY <2>1, <2>3, <2>4, <2>5 DEF SignedShape
  <1>3. QED
    BY <1>1, <1>2

\* What the two parties of a channel have received from each other.
LEMMA ReceivedFrom ==
    ASSUME DbInv, NEW d \in Clients, NEW p \in store[d],
           p.msg \notin CreatedBy(d)
    PROVE  /\ Counterparty(d, p) \in Clients
           /\ \E k \in Kept(Counterparty(d, p)) : SameSlot(k, p.msg)
  <1> DEFINE n == Envelope(Counterparty(d, p), d, p.msg)
  <1>1. n \in sent
    BY KeptIsMade DEF StoredShape
  <1>2. SentShape(n) /\ n.by = Counterparty(d, p) /\ n.msg = p.msg
    BY <1>1 DEF DbInv, Shapes, Envelope
  <1>3. n.by \in Clients
    BY <1>1 DEF DbInv, TasksType
  <1> HIDE DEF n
  <1>4. QED
    BY <1>2, <1>3 DEF SentShape

LEMMA StoringAgrees ==
    ASSUME NEW c \in Clients, NEW m, Storing(c, m)
    PROVE  KeptAgree'
  <1>1. \A d \in Clients : CreatedBy(d)' = CreatedBy(d)
    BY DEF Storing, CreatedBy
  <1>2. \A d \in Clients : Kept(d)' \subseteq Kept(d) \cup
                              (IF d = c THEN {m.msg} ELSE {})
    BY DEF Storing, StoreStep, Kept
  <1>3. CASE \A d \in Clients : Kept(d)' \subseteq Kept(d)
    BY <1>1, <1>3 DEF KeptAgree, Storing, DbInv
  <1>4. CASE m.msg \notin Kept(c) /\ m.msg \in Kept(c)'
    <2>1. /\ \A n \in SameNonce(c, m.msg) : n.msg = m.msg
          /\ store'[c] = (store[c] \ SameNonce(c, m.msg)) \cup {m}
      BY <1>4 DEF Storing, StoreStep, Kept
    <2>2. SameNonce(c, m.msg) = {}
      BY <1>4, <2>1 DEF Kept, SameNonce
    <2>3. ~\E k \in Kept(c) : SameSlot(k, m.msg)
      BY <2>2 DEF Kept, SameNonce, SameSlot
    <2>4. ASSUME NEW d \in Clients, NEW n \in Kept(d) \ CreatedBy(d),
                 SameSlot(m.msg, n)
          PROVE  FALSE
      <3>1. PICK p \in store[d] : p.msg = n
        BY DEF Kept
      <3>2. Counterparty(d, p) \in Clients
            /\ \E k \in Kept(Counterparty(d, p)) : SameSlot(k, n)
        BY <3>1, ReceivedFrom DEF Storing
      <3>3. d # c
        BY <2>3, <2>4 DEF SameSlot
      <3>4. Counterparty(d, p) = c
        <4>1. /\ p \in ParsedMessages /\ Origin(p) \in made
              /\ d \in {p.sender, p.recipient}
          BY KeptIsMade DEF Storing
        <4>2. /\ m \in ParsedMessages /\ Origin(m) \in made
              /\ c \in {m.sender, m.recipient} /\ MadeShape
          BY DEF Storing, Storable, DbInv
        <4>3. {p.sender, p.recipient} = {m.sender, m.recipient}
          BY <2>4, <3>1, <4>1, <4>2, SameParties DEF SameSlot
        <4>4. QED
          BY <3>3, <4>1, <4>2, <4>3 DEF Counterparty
      <3>5. QED
        BY <2>3, <2>4, <3>2, <3>4 DEF SameSlot
    <2>5. ASSUME NEW d \in Clients, NEW e \in Clients,
                 NEW a \in Kept(d)' \ CreatedBy(d)',
                 NEW b \in Kept(e)' \ CreatedBy(e)', SameSlot(a, b)
          PROVE  a = b
      <3>1. CASE a \in Kept(d) /\ b \in Kept(e)
        BY <1>1, <2>5, <3>1 DEF KeptAgree, Storing, DbInv
      <3>2. CASE a \notin Kept(d) /\ b \in Kept(e)
        <4>1. a = m.msg
          BY <1>2, <3>2
        <4>2. QED
          BY <1>1, <2>4, <2>5, <3>2, <4>1
      <3>3. CASE a \in Kept(d) /\ b \notin Kept(e)
        <4>1. b = m.msg
          BY <1>2, <3>3
        <4>2. SameSlot(m.msg, a)
          BY <2>5, <4>1 DEF SameSlot
        <4>3. QED
          BY <1>1, <2>4, <3>3, <4>2
      <3>4. CASE a \notin Kept(d) /\ b \notin Kept(e)
        BY <1>2, <3>4
      <3>5. QED
        BY <3>1, <3>2, <3>3, <3>4
    <2>6. QED
      BY <2>5 DEF KeptAgree
  <1>5. QED
    BY <1>2, <1>3, <1>4

\* While messages do not cross, nothing conflicts.
LEMMA StoringInOrder ==
    ASSUME NEW c \in Clients, NEW m, Storing(c, m), MadeOnce, NoConflicts
    PROVE  NoConflicts' /\ ~Conflicts(c, m.msg)
  <1>1. ASSUME NEW n \in SameNonce(c, m.msg) PROVE n.msg = m.msg
    <2>1. n \in store[c] /\ SameSlot(n.msg, m.msg)
      BY DEF SameNonce, SameSlot
    <2>2. PICK a \in made : a.msg = n.msg
      BY <2>1, KeptIsMade, OriginOf DEF Storing
    <2>3. PICK b \in made : b.msg = m.msg
      BY OriginOf DEF Storing, Storable
    <2>4. QED
      BY <2>1, <2>2, <2>3 DEF MadeOnce
  <1>2. ~Conflicts(c, m.msg)
    BY <1>1 DEF Conflicts
  <1>3. conflicts'[c] = conflicts[c]
        /\ \A d \in Clients : d # c => conflicts'[d] = conflicts[d]
    BY <1>2 DEF Storing, StoreStep
  <1>4. QED
    BY <1>2, <1>3 DEF NoConflicts

-----------------------------------------------------------------------------
(***************************************************************************)
(* What a step leaves as it is.                                            *)
(***************************************************************************)
LEMMA InvGivesDbInv == Inv => DbInv /\ OrderlyShape
  BY DEF Inv, DbInv

\* The databases and the network do not change.
StillDb == UNCHANGED <<store, conflicts, signed, sent>>

LEMMA StillShapes ==
    ASSUME DbInv, StillDb, Grows
    PROVE  /\ \A c \in Clients : /\ StoreShape(c)'
                                 /\ \A m \in store'[c] : StoredShape(c, m)'
                                 /\ \A s \in signed'[c] : SignedShape(c, s)'
           /\ \A n \in sent' : SentShape(n)'
           /\ KeptAgree'
  <1>1. ASSUME NEW c \in Clients
        PROVE  /\ StoreShape(c)'
               /\ \A m \in store'[c] : StoredShape(c, m)'
               /\ \A s \in signed'[c] : SignedShape(c, s)'
    <2>1. StoreShape(c)'
      BY DEF DbInv, Shapes, StoreShape, StillDb
    <2>2. \A m \in store'[c] : StoredShape(c, m)'
      BY StoredGrows DEF DbInv, Shapes, StillDb
    <2>3. \A s \in signed'[c] : s.by \in Clients /\ SignedShape(c, s)
      BY DEF DbInv, Shapes, StillDb, DbType
    <2>4. QED
      BY <2>1, <2>2, <2>3, SignedGrows
  <1>2. \A n \in sent' : n.by \in Clients /\ SentShape(n)
    BY DEF DbInv, Shapes, StillDb, TasksType
  <1>3. \A c \in Clients : /\ Kept(c)' = Kept(c)
                           /\ CreatedBy(c) \subseteq CreatedBy(c)'
    BY MineGrow DEF StillDb, Kept
  <1>4. KeptAgree'
    BY <1>3 DEF KeptAgree, DbInv
  <1>5. QED
    BY <1>1, <1>2, <1>4, SentGrows

LEMMA CallsAfter ==
    ASSUME DbInv, Grows, NEW c \in Clients, NEW old, NEW new,
           CallsStep(c, old, new), \A t \in new : CallShape(c, t)'
    PROVE  \A d \in Clients : \A t \in Calls(d)' : CallShape(d, t)'
  <1>1. ASSUME NEW d \in Clients, NEW t \in Calls(d)' PROVE CallShape(d, t)'
    <2>1. t \in Calls(d) \/ (d = c /\ t \in new)
      BY DEF CallsStep
    <2>2. t \in Calls(d) => CallShape(d, t)
      BY DEF DbInv, Shapes
    <2>3. QED
      BY <2>1, <2>2, CallGrows
  <1>2. QED
    BY <1>1

LEMMA ClaimsAfter ==
    ASSUME DbInv, Grows, UNCHANGED claims
    PROVE  \A claim \in claims' : ClaimShape(claim)'
  BY ClaimGrows DEF DbInv, Shapes

LEMMA MadeAfter ==
    ASSUME Grows, NEW c \in Clients, NEW old, NEW new, CallsStep(c, old, new),
           NEW m, m.sender \in Clients, MadeIsSigned(m),
           \A t \in old : t.at = "sign" =>
               SignedMessage(c, t.parsed.msg) \in signed'[c]
    PROVE  MadeIsSigned(m)'
  <1>1. CASE SignedMessage(m.sender, m.msg) \in signed[m.sender]
    BY <1>1 DEF MadeIsSigned, Grows
  <1>2. CASE SignedMessage(m.sender, m.msg) \notin signed[m.sender]
    <2>1. PICK t \in Calls(m.sender) : t.at = "sign" /\ t.parsed = m
      BY <1>2 DEF MadeIsSigned
    <2>2. CASE m.sender = c /\ t \in old
      BY <2>1, <2>2 DEF MadeIsSigned
    <2>3. CASE ~(m.sender = c /\ t \in old)
      <3>1. t \in Calls(m.sender)'
        BY <2>3 DEF CallsStep
      <3>2. QED
        BY <2>1, <3>1 DEF MadeIsSigned
    <2>4. QED
      BY <2>2, <2>3
  <1>3. QED
    BY <1>1, <1>2

LEMMA SignedAfter ==
    ASSUME Grows, NEW c \in Clients, NEW old, NEW new, CallsStep(c, old, new),
           NEW d \in Clients, NEW m, SignedIsKept(d, m),
           SignedMessage(d, m.msg) \in signed'[d] =>
               SignedMessage(d, m.msg) \in signed[d],
           d = c => \A t \in old :
               t.at \in {"sign", "check"} /\ t.parsed.msg = m.msg =>
                   \/ m.msg.channel \in exited[c]
                   \/ \E u \in new : /\ u.at \in {"sign", "check"}
                                     /\ u.parsed.msg = m.msg
    PROVE  SignedIsKept(d, m)'
  <1>1. CASE SignedMessage(d, m.msg) \notin signed[d]
    BY <1>1 DEF SignedIsKept
  <1>2. CASE d \in m.signers \/ m.msg.channel \in exited[d]
    BY <1>2 DEF SignedIsKept, Grows
  <1>3. CASE \E t \in Calls(d) : /\ t.at \in {"sign", "check"}
                                 /\ t.parsed.msg = m.msg
    <2>1. PICK t \in Calls(d) : t.at \in {"sign", "check"} /\ t.parsed.msg = m.msg
      BY <1>3
    <2>2. CASE t \in Calls(d)'
      BY <2>1, <2>2 DEF SignedIsKept
    <2>3. CASE t \notin Calls(d)'
      <3>1. d = c /\ t \in old
        BY <2>3 DEF CallsStep
      <3>2. CASE m.msg.channel \in exited[c]
        BY <3>1, <3>2 DEF SignedIsKept, Grows
      <3>3. CASE \E u \in new : /\ u.at \in {"sign", "check"}
                                /\ u.parsed.msg = m.msg
        BY <3>1, <3>3 DEF SignedIsKept, CallsStep
      <3>4. QED
        BY <2>1, <3>1, <3>2, <3>3
    <2>4. QED
      BY <2>2, <2>3
  <1>4. QED
    BY <1>1, <1>2, <1>3 DEF SignedIsKept

\* A step of c that leaves the databases alone, but for the exits it marks.
StillStep(c, old, new) ==
    /\ StillDb /\ DbType' /\ CallsStep(c, old, new)
    /\ UNCHANGED <<made, created>>
    /\ \A d \in Clients : exited[d] \subseteq exited'[d]
    /\ \A t \in new : CallShape(c, t)'
    /\ mishaps \subseteq mishaps'
    /\ Orderly' => \A t \in old :
          /\ t.at # "sign"
          /\ t.at = "check" => \/ t.parsed.msg.channel \in exited[c]
                               \/ \E u \in new :
                                     /\ u.at \in {"sign", "check"}
                                     /\ u.parsed.msg = t.parsed.msg

LEMMA StillInv ==
    ASSUME Inv, NEW c \in Clients, NEW old, NEW new, StillStep(c, old, new),
           \A claim \in claims' : ClaimShape(claim)',
           exits' \in 0..MaxExits, mishaps' \subseteq {"crossed", "overtaken", "bad"}
    PROVE  Inv'
  <1>1. Grows
    BY DEF StillStep, StillDb, Grows, Kept
  <1>2. DbInv /\ OrderlyShape
    BY InvGivesDbInv
  <1>3. /\ \A d \in Clients : /\ StoreShape(d)'
                              /\ \A m \in store'[d] : StoredShape(d, m)'
                              /\ \A s \in signed'[d] : SignedShape(d, s)'
        /\ \A n \in sent' : SentShape(n)'
        /\ KeptAgree'
    BY <1>1, <1>2, StillShapes DEF StillStep
  <1>4. \A d \in Clients : \A t \in Calls(d)' : CallShape(d, t)'
    BY <1>1, <1>2, CallsAfter DEF StillStep
  <1>5. MadeShape'
    BY <1>2 DEF DbInv, MadeShape, StillStep
  <1>6. OrderlyShape'
    <2> SUFFICES ASSUME Orderly'
                 PROVE  /\ MadeOnce' /\ NoConflicts'
                        /\ \A m \in made' : MadeIsSigned(m)'
                        /\ \A d \in Clients :
                              \A m \in store'[d] : SignedIsKept(d, m)'
      BY DEF OrderlyShape
    <2>1. Orderly
      BY DEF Orderly, StillStep
    <2>2. /\ MadeOnce /\ NoConflicts
          /\ \A m \in made : MadeIsSigned(m)
          /\ \A d \in Clients : \A m \in store[d] : SignedIsKept(d, m)
      BY <1>2, <2>1 DEF OrderlyShape
    <2>3. MadeOnce' /\ NoConflicts'
      BY <2>2 DEF MadeOnce, NoConflicts, StillStep, StillDb
    <2>4. ASSUME NEW m \in made' PROVE MadeIsSigned(m)'
      <3>1. m \in made /\ m.sender \in Clients
        BY <1>2 DEF StillStep, DbInv, MadeShape, ParsedMessages
      <3>2. \A t \in old : t.at # "sign"
        BY DEF StillStep
      <3>3. QED
        BY <1>1, <2>2, <3>1, <3>2, MadeAfter DEF StillStep
    <2>5. ASSUME NEW d \in Clients, NEW m \in store'[d]
          PROVE  SignedIsKept(d, m)'
      <3>1. m \in store[d] /\ signed' = signed
        BY DEF StillStep, StillDb
      <3>2. SignedIsKept(d, m)
        BY <2>2, <3>1
      <3>3. \A t \in old : t.at \in {"sign", "check"} /\ t.parsed.msg = m.msg =>
                   \/ m.msg.channel \in exited[c]
                   \/ \E u \in new : /\ u.at \in {"sign", "check"}
                                     /\ u.parsed.msg = m.msg
        BY DEF StillStep
      <3>4. QED
        BY <1>1, <3>1, <3>2, <3>3, SignedAfter DEF StillStep
    <2>6. QED
      BY <2>3, <2>4, <2>5
  <1>7. QED
    BY <1>2, <1>3, <1>4, <1>5, <1>6 DEF Inv, Shapes, StillStep, CallsStep

\* The types of what a step leaves alone.
LEMMA SameTypes ==
    ASSUME Inv
    PROVE  /\ UNCHANGED db => DbType' /\ \A d \in Clients : exited[d] \subseteq exited'[d]
           /\ UNCHANGED sent => sent' \subseteq [by : Clients, to : Clients, msg : Messages]
           /\ DbType /\ TasksType /\ MadeShape
           /\ exits \in 0..MaxExits /\ mishaps \subseteq {"crossed", "overtaken", "bad"}
  BY DEF Inv, DbType, TasksType, db

-----------------------------------------------------------------------------
(***************************************************************************)
(* The steps of a client that leave the databases alone.                   *)
(***************************************************************************)
LEMMA HandleMessageInv ==
    ASSUME Inv, NEW c \in Clients, NEW n \in sent, HandleMessage(c, n)
    PROVE  Inv'
  <1> DEFINE p == Parsed(n.by, c, n.msg, {n.by})
             t == Task("store", p)
  <1>1. /\ n.to = c /\ ~IsKnown(c, n) /\ Begin(c, t)
        /\ UNCHANGED <<db, sent, claims, created, made, exits, mishaps>>
    BY DEF HandleMessage
  <1>2. DbInv /\ SentShape(n) /\ n \in [by : Clients, to : Clients, msg : Messages]
    BY InvGivesDbInv DEF DbInv, Shapes, TasksType
  <1>3. /\ n.by \in Clients /\ n.msg \in Messages /\ n = Envelope(n.by, c, n.msg)
    BY <1>1, <1>2 DEF Envelope
  <1>4. Parsed(n.by, c, n.msg, {}) \in made
    <2> SUFFICES ASSUME Parsed(n.by, c, n.msg, {}) \notin made PROVE FALSE
      OBVIOUS
    <2>1. Envelope(c, n.by, n.msg) \in sent
      BY <1>1, <1>2 DEF SentShape
    <2>2. SentShape(Envelope(c, n.by, n.msg))
      BY <2>1, <1>2 DEF DbInv, Shapes
    <2>3. \E k \in Kept(c) : SameSlot(k, n.msg)
      BY <2>2 DEF SentShape, Envelope
    <2>4. SameNonce(c, n.msg) # {}
      BY <2>3 DEF Kept, SameNonce, SameSlot
    <2>5. QED
      BY <1>1, <2>4 DEF IsKnown
  <1>5. p \in ParsedMessages /\ Origin(p) = Parsed(n.by, c, n.msg, {})
        /\ p.sender = n.by /\ p.recipient = c /\ p.signers = {n.by} /\ p.msg = n.msg
    BY <1>3 DEF ParsedMessages, Origin, Parsed
  <1> HIDE DEF p
  <1>6. t.at = "store" /\ t.parsed = p
    BY DEF Task
  <1>7. CallShape(c, t)
    <2>1. IsReception(c, t)
      BY <1>3, <1>5, <1>6 DEF IsReception
    <2>2. QED
      BY <1>4, <1>5, <1>6, <2>1 DEF CallShape
  <1> HIDE DEF t
  <1>8. CallsStep(c, {}, {t}) /\ DbType'
        /\ \A d \in Clients : exited[d] \subseteq exited'[d]
    BY <1>1, SameTypes, BeginCalls
  <1>9. Grows
    BY <1>1 DEF Grows, db, Kept
  <1>10. CallShape(c, t)'
    BY <1>7, <1>9, CallGrows
  <1>11. StillStep(c, {}, {t})
    BY <1>1, <1>8, <1>10 DEF StillStep, StillDb, db
  <1>12. \A claim \in claims' : ClaimShape(claim)'
    BY <1>1, <1>2, <1>9, ClaimsAfter
  <1>13. QED
    BY <1>1, <1>11, <1>12, SameTypes, StillInv

\* A call about a message.
LEMMA CallFacts ==
    ASSUME DbInv, NEW c \in Clients, NEW t \in Calls(c), t.at # "mark"
    PROVE  /\ t.parsed \in ParsedMessages /\ Origin(t.parsed) \in made
           /\ IsCreation(c, t) \/ IsReception(c, t)
  BY DEF DbInv, Shapes, CallShape, IsExit

LEMMA CheckNewMessageInv ==
    ASSUME Inv, NEW c \in Clients, NEW t \in Calls(c), CheckNewMessage(c, t)
    PROVE  Inv'
  <1> DEFINE u == Task("sign", t.parsed)
  <1>1. /\ t.at = "check"
        /\ UNCHANGED <<db, sent, claims, created, made, exits>>
        /\ mishaps' = mishaps \cup
               (IF Follows(c, t.parsed.msg) THEN {} ELSE {"overtaken"})
    BY DEF CheckNewMessage
  <1>2. DbInv /\ OrderlyShape
    BY InvGivesDbInv
  <1>3. /\ t.parsed \in ParsedMessages /\ Origin(t.parsed) \in made
        /\ IsReception(c, t)
    BY <1>1, <1>2, CallFacts DEF IsCreation
  <1>4. Grows /\ \A d \in Clients : exited[d] \subseteq exited'[d]
    BY <1>1 DEF Grows, db, Kept
  <1>5. \A claim \in claims' : ClaimShape(claim)'
    BY <1>1, <1>2, <1>4, ClaimsAfter
  <1>6. mishaps \subseteq mishaps'
        /\ mishaps' \subseteq {"crossed", "overtaken", "bad"}
        /\ exits' \in 0..MaxExits
    BY <1>1, SameTypes
  <1>7. CASE Acceptable(c, t.parsed.msg)
    <2>1. GoOn(c, t, u)
      BY <1>7 DEF CheckNewMessage
    <2>2. u.at = "sign" /\ u.parsed = t.parsed
      BY DEF Task
    <2>3. t.parsed.msg \in Kept(c)
      BY <1>1, <1>3, <1>7 DEF IsReception, Acceptable, ConflictsWithAnother
    <2>4. CallShape(c, u)
      <3>1. IsReception(c, u)
        BY <1>1, <1>3, <2>2, <2>3 DEF IsReception, Valid
      <3>2. QED
        BY <1>3, <2>2, <3>1 DEF CallShape
    <2> HIDE DEF u
    <2>5. CallShape(c, u)'
      BY <1>4, <2>4, CallGrows
    <2>6. CallsStep(c, {t}, {u}) /\ DbType'
      BY <1>1, <2>1, SameTypes, GoOnCalls
    <2>7. StillStep(c, {t}, {u})
      BY <1>1, <1>4, <1>6, <2>2, <2>5, <2>6 DEF StillStep, StillDb, db
    <2>8. QED
      BY <1>5, <1>6, <2>7, StillInv
  <1>8. CASE ~Acceptable(c, t.parsed.msg)
    <2>1. End(c, t)
      BY <1>8 DEF CheckNewMessage
    <2>2. CallsStep(c, {t}, {}) /\ DbType'
      BY <1>1, <2>1, SameTypes, EndCalls
    <2>3. ASSUME Orderly' PROVE t.parsed.msg.channel \in exited[c]
      <3>1. Orderly /\ Follows(c, t.parsed.msg)
        BY <1>1, <2>3 DEF Orderly
      <3>2. NoConflicts
        BY <1>2, <3>1 DEF OrderlyShape
      <3>3. ~ConflictsWithAnother(c, t.parsed.msg)
        BY <3>2 DEF NoConflicts, ConflictsWithAnother
      <3>4. QED
        BY <1>8, <3>1, <3>3 DEF Acceptable
    <2>4. StillStep(c, {t}, {})
      BY <1>1, <1>4, <1>6, <2>2, <2>3 DEF StillStep, StillDb, db
    <2>5. QED
      BY <1>5, <1>6, <2>4, StillInv
  <1>9. QED
    BY <1>7, <1>8

\* A valid message is signed by both parties of its channel.
LEMMA ValidIsSignedByBoth ==
    ASSUME DbInv, NEW c \in Clients, NEW d \in Clients, c # d,
           NEW channel \in Channels(c, d), NEW m \in ValidIn(c, channel)
    PROVE  /\ m \in store[c] /\ m.msg.channel = channel
           /\ m.msg \in Kept(c) /\ m.msg \in OwnSigned(c) \cap OwnSigned(d)
  <1>1. m \in store[c] /\ m.msg.channel = channel /\ Cardinality(m.signers) = 2
    BY DEF ValidIn
  <1>2. PICK p \in store[c] : p.msg.channel = channel /\ d \in {p.sender, p.recipient}
    BY DEF Channels
  <1>3. /\ m \in ParsedMessages /\ Origin(m) \in made /\ StoredShape(c, m)
        /\ p \in ParsedMessages /\ Origin(p) \in made /\ c \in {p.sender, p.recipient}
        /\ c \in {m.sender, m.recipient}
    BY <1>1, <1>2, KeptIsMade
  <1>4. {m.sender, m.recipient} = {p.sender, p.recipient}
    BY <1>1, <1>2, <1>3, SameParties DEF DbInv
  <1>5. m.signers \subseteq {c, d}
    BY <1>2, <1>3, <1>4 DEF StoredShape
  <1>6. c \in m.signers /\ d \in m.signers
    <2>1. ASSUME NEW a, m.signers \subseteq {a} PROVE FALSE
      <3>1. m.signers = {} \/ m.signers = {a}
        BY <2>1
      <3>2. Cardinality({}) = 0 /\ Cardinality({a}) = 1
        BY FS_EmptySet, FS_Singleton
      <3>3. CASE m.signers = {}
        BY ONLY <1>1, <3>2, <3>3
      <3>4. CASE m.signers = {a}
        BY ONLY <1>1, <3>2, <3>4
      <3>5. QED
        BY <3>1, <3>3, <3>4
    <2>2. QED
      BY <1>5, <2>1
  <1>7. \A p_ \in {c, d} : /\ SignedMessage(p_, m.msg) \in signed[c]
                           /\ SignedMessage(p_, m.msg).by = p_
    BY <1>3, <1>6 DEF StoredShape, SignedMessage
  <1>8. SignedMessage(d, m.msg) \in signed[d]
    BY <1>7 DEF DbInv, Shapes, SignedShape
  <1>9. QED
    BY <1>1, <1>7, <1>8 DEF Kept, OwnSigned, SignedMessage

LEMMA ExitChannelInv ==
    ASSUME Inv, NEW c \in Clients, NEW d \in Clients \ {c}, ExitChannel(c, d)
    PROVE  Inv'
  <1>1. /\ exits < MaxExits /\ exits' = exits + 1
        /\ UNCHANGED <<db, sent, claims, created, made, mishaps>>
    BY DEF ExitChannel
  <1>2. PICK channel \in Channels(c, d) :
           \E claim \in Claims(c, channel, d) : Begin(c, Marking(channel, claim))
    BY DEF ExitChannel
  <1>3. DbInv
    BY InvGivesDbInv
  <1>a. PICK claim \in Claims(c, channel, d) : Begin(c, Marking(channel, claim))
    BY <1>2
  <1> DEFINE t == Marking(channel, claim)
  <1>4. t.at = "mark" /\ t.channel = channel /\ t.claim = claim
    BY DEF Marking
  <1>5. channel \in Nat
    BY <1>2, <1>3, KeptIsMade DEF Channels
  <1>6. claim = NoClaim \/ /\ ClaimShape(claim) /\ ~claim.upheld
                           /\ claim.by = c /\ claim.msg.channel = channel
    <2>1. CASE ValidIn(c, channel) = {}
      BY <2>1 DEF Claims
    <2>2. CASE ValidIn(c, channel) # {}
      <3>1. PICK m \in ValidIn(c, channel) : claim = Claim(c, m.msg, d)
        BY <1>a, <2>2 DEF Claims, MostRecent
      <3>2. /\ claim.by = c /\ claim.against = d /\ claim.msg = m.msg
            /\ claim.upheld = FALSE
            /\ claim = [by |-> claim.by, against |-> claim.against,
                        msg |-> claim.msg, upheld |-> claim.upheld]
        BY <3>1 DEF Claim
      <3>3. /\ m.msg \in Kept(c) /\ m.msg.channel = channel
            /\ m.msg \in OwnSigned(c) \cap OwnSigned(d)
        BY <1>3, ValidIsSignedByBoth
      <3>4. QED
        BY <3>2, <3>3 DEF ClaimShape
    <2>3. QED
      BY <2>1, <2>2
  <1> HIDE DEF t
  <1>7. CallShape(c, t)
    BY <1>4, <1>5, <1>6 DEF CallShape, IsExit
  <1>8. CallsStep(c, {}, {t}) /\ DbType'
        /\ \A e \in Clients : exited[e] \subseteq exited'[e]
    BY <1>a, <1>1, SameTypes, BeginCalls DEF t
  <1>9. Grows
    BY <1>1 DEF Grows, db, Kept
  <1>10. CallShape(c, t)'
    BY <1>7, <1>9, CallGrows
  <1>11. StillStep(c, {}, {t})
    BY <1>1, <1>8, <1>10 DEF StillStep, StillDb, db
  <1>12. \A cl \in claims' : ClaimShape(cl)'
    BY <1>1, <1>3, <1>9, ClaimsAfter
  <1>13. exits' \in 0..MaxExits
    BY <1>1, SameTypes
  <1>14. QED
    BY <1>1, <1>11, <1>12, <1>13, SameTypes, StillInv

LEMMA HandleChannelExitInv ==
    ASSUME Inv, NEW c \in Clients, NEW claim \in claims, HandleChannelExit(c, claim)
    PROVE  Inv'
  <1> DEFINE t == Marking(claim.msg.channel, NoClaim)
  <1>1. Begin(c, t) /\ UNCHANGED <<db, sent, claims, created, made, exits, mishaps>>
    BY DEF HandleChannelExit
  <1>2. DbInv
    BY InvGivesDbInv
  <1>3. t.at = "mark" /\ t.channel = claim.msg.channel /\ t.claim = NoClaim
    BY DEF Marking
  <1>4. claim.msg.channel \in Nat
    <2>1. claim.by \in Clients /\ claim.msg \in Kept(claim.by)
      BY <1>2 DEF DbInv, Shapes, ClaimShape
    <2>2. QED
      BY <1>2, <2>1, KeptIsMade DEF Kept
  <1> HIDE DEF t
  <1>5. CallShape(c, t)
    BY <1>3, <1>4 DEF CallShape, IsExit
  <1>6. CallsStep(c, {}, {t}) /\ DbType'
        /\ \A e \in Clients : exited[e] \subseteq exited'[e]
    BY <1>1, SameTypes, BeginCalls
  <1>7. Grows
    BY <1>1 DEF Grows, db, Kept
  <1>8. CallShape(c, t)'
    BY <1>5, <1>7, CallGrows
  <1>9. StillStep(c, {}, {t})
    BY <1>1, <1>6, <1>8 DEF StillStep, StillDb, db
  <1>10. \A cl \in claims' : ClaimShape(cl)'
    BY <1>1, <1>2, <1>7, ClaimsAfter
  <1>11. QED
    BY <1>1, <1>9, <1>10, SameTypes, StillInv

LEMMA MarkChannelExitedInv ==
    ASSUME Inv, NEW c \in Clients, NEW t \in Calls(c), MarkChannelExited(c, t)
    PROVE  Inv'
  <1>1. /\ t.at = "mark" /\ End(c, t)
        /\ exited' = [exited EXCEPT ![c] = exited[c] \cup {t.channel}]
        /\ UNCHANGED <<store, conflicts, signed, sent, created, made, exits, mishaps>>
    BY DEF MarkChannelExited
  <1>2. DbInv
    BY InvGivesDbInv
  <1>3. IsExit(c, t)
    BY <1>1, <1>2 DEF DbInv, Shapes, CallShape, IsCreation, IsReception
  <1>4. DbType' /\ \A d \in Clients : exited[d] \subseteq exited'[d]
    BY <1>1, <1>3, SameTypes DEF DbType, IsExit
  <1>5. Grows
    BY <1>1, <1>4 DEF Grows, Kept
  <1>6. CallsStep(c, {t}, {})
    BY <1>1, SameTypes, EndCalls
  <1>7. StillStep(c, {t}, {})
    BY <1>1, <1>4, <1>6 DEF StillStep, StillDb
  <1>8. ASSUME NEW claim \in claims' PROVE ClaimShape(claim)'
    <2>1. CASE claim \in claims
      BY <1>2, <1>5, <2>1, ClaimGrows DEF DbInv, Shapes
    <2>2. CASE claim \notin claims
      <3>1. /\ t.claim # NoClaim
            /\ claim = [t.claim EXCEPT !.upheld = Upheld(c, t.claim, t)]
        BY <2>2 DEF MarkChannelExited
      <3>2. ClaimShape(t.claim)
        BY <1>3, <3>1 DEF IsExit
      <3>3. /\ claim.by = t.claim.by /\ claim.against = t.claim.against
            /\ claim.msg = t.claim.msg
            /\ claim = [by |-> claim.by, against |-> claim.against,
                        msg |-> claim.msg, upheld |-> claim.upheld]
        BY <3>1, <3>2 DEF ClaimShape
      <3>4. ClaimShape(claim)
        BY <3>2, <3>3 DEF ClaimShape
      <3>5. QED
        BY <1>5, <3>4, ClaimGrows
    <2>3. QED
      BY <2>1, <2>2
  <1>9. QED
    BY <1>1, <1>7, <1>8, SameTypes, StillInv

-----------------------------------------------------------------------------
(***************************************************************************)
(* The steps of a client that store a message.                             *)
(***************************************************************************)
\* A step of c that stores m, with what goes on from there.
StoringStep(c, m, old, new) ==
    /\ Storing(c, m) /\ CallsStep(c, old, new)
    /\ UNCHANGED <<claims, exits, mishaps>>
    /\ \A t \in new : CallShape(c, t)'
    /\ \A n \in sent' : n \in sent \/ SentShape(n)'
    /\ \A t \in old : t.parsed.msg = m.msg /\ (t.at = "sign" => c \in m.signers)
    /\ Orderly /\ ~Rejected(c, m) => SignedIsKept(c, m)'

LEMMA StoringInv ==
    ASSUME Inv, NEW c \in Clients, NEW m, NEW old, NEW new,
           StoringStep(c, m, old, new)
    PROVE  Inv'
  <1>1. Storing(c, m) /\ CallsStep(c, old, new)
    BY DEF StoringStep
  <1>2. Grows
    BY <1>1, StoringGrows
  <1>3. DbInv /\ OrderlyShape
    BY InvGivesDbInv
  <1>4. \A d \in Clients : /\ StoreShape(d)'
                           /\ \A n \in store'[d] : StoredShape(d, n)'
                           /\ \A s \in signed'[d] : SignedShape(d, s)'
    BY <1>1, StoringStored, StoringSigned
  <1>5. \A d \in Clients : \A t \in Calls(d)' : CallShape(d, t)'
    BY <1>2, <1>3, CallsAfter DEF StoringStep
  <1>6. \A claim \in claims' : ClaimShape(claim)'
    BY <1>2, <1>3, ClaimsAfter DEF StoringStep
  <1>7. \A n \in sent' : SentShape(n)'
    <2>1. \A n \in sent : n.by \in Clients /\ SentShape(n)
      BY <1>3 DEF DbInv, Shapes, TasksType
    <2>2. QED
      BY <1>2, <2>1, SentGrows DEF StoringStep
  <1>8. MadeShape' /\ KeptAgree'
    BY <1>1, <1>3, StoringAgrees DEF DbInv, MadeShape, Storing
  <1>9. OrderlyShape'
    <2> SUFFICES ASSUME Orderly'
                 PROVE  /\ MadeOnce' /\ NoConflicts'
                        /\ \A n \in made' : MadeIsSigned(n)'
                        /\ \A d \in Clients :
                              \A n \in store'[d] : SignedIsKept(d, n)'
      BY DEF OrderlyShape
    <2>1. Orderly
      BY DEF Orderly, StoringStep
    <2>2. /\ MadeOnce /\ NoConflicts
          /\ \A n \in made : MadeIsSigned(n)
          /\ \A d \in Clients : \A n \in store[d] : SignedIsKept(d, n)
      BY <1>3, <2>1 DEF OrderlyShape
    <2>3. MadeOnce' /\ NoConflicts' /\ ~Conflicts(c, m.msg)
      BY <1>1, <2>2, StoringInOrder DEF MadeOnce, Storing
    <2>4. ASSUME NEW n \in made' PROVE MadeIsSigned(n)'
      <3>1. n \in made /\ n.sender \in Clients
        BY <1>1, <1>3 DEF Storing, DbInv, MadeShape, ParsedMessages
      <3>2. \A t \in old : t.at = "sign" =>
               SignedMessage(c, t.parsed.msg) \in signed'[c]
        BY DEF StoringStep, Storing, StoreStep
      <3>3. QED
        BY <1>1, <1>2, <2>2, <3>1, <3>2, MadeAfter
    <2>5. ASSUME NEW d \in Clients, NEW n \in store[d],
                 d = c => n.msg # m.msg
          PROVE  SignedIsKept(d, n)'
      <3>1. SignedIsKept(d, n)
        BY <2>2
      <3>2. SignedMessage(d, n.msg) \in signed'[d] =>
               SignedMessage(d, n.msg) \in signed[d]
        BY <1>1, <2>5 DEF Storing, StoreStep, SignedMessage
      <3>3. d = c => \A t \in old : t.parsed.msg # n.msg
        BY <2>5 DEF StoringStep
      <3>4. QED
        BY <1>1, <1>2, <3>1, <3>2, <3>3, SignedAfter
    <2>6. CASE Rejected(c, m)
      <3>1. \A d \in Clients : store'[d] = store[d]
        BY <1>1, <2>3, <2>6 DEF Storing, StoreStep
      <3>2. ASSUME NEW n \in store[c] PROVE n.msg # m.msg
        <4>1. n.msg \in Kept(c)
          BY DEF Kept
        <4>2. QED
          BY <1>1, <2>6, <4>1, ChannelIsNotRejected DEF Storing, Storable
      <3>3. QED
        BY <2>3, <2>4, <2>5, <3>1, <3>2
    <2>7. CASE ~Rejected(c, m)
      <3>1. /\ \A d \in Clients : d # c => store'[d] = store[d]
            /\ store'[c] = (store[c] \ SameNonce(c, m.msg)) \cup {m}
        BY <1>1, <2>3, <2>7 DEF Storing, StoreStep
      <3>2. \A n \in store[c] \ SameNonce(c, m.msg) : n.msg # m.msg
        BY DEF SameNonce
      <3>3. SignedIsKept(c, m)'
        BY <2>1, <2>7 DEF StoringStep
      <3>4. QED
        BY <2>3, <2>4, <2>5, <3>1, <3>2, <3>3
    <2>8. QED
      BY <2>6, <2>7
  <1>10. QED
    BY <1>1, <1>3, <1>4, <1>5, <1>6, <1>7, <1>8, <1>9
       DEF Inv, Shapes, StoringStep, Storing, CallsStep

LEMMA SignAndSaveMessageInv ==
    ASSUME Inv, NEW c \in Clients, NEW t \in Calls(c), SignAndSaveMessage(c, t)
    PROVE  Inv'
  <1> DEFINE p == t.parsed
             m == WithSignature(p, c)
             n == Envelope(c, Counterparty(c, m), m.msg)
  <1>1. /\ t.at = "sign" /\ StoreMessage(c, m) /\ End(c, t)
        /\ sent' = IF Rejected(c, m) THEN sent ELSE sent \cup {n}
        /\ UNCHANGED <<exited, claims, created, made, exits, mishaps>>
    BY DEF SignAndSaveMessage
  <1>2. DbInv
    BY InvGivesDbInv
  <1>3. /\ p \in ParsedMessages /\ Origin(p) \in made
        /\ IsCreation(c, t) \/ IsReception(c, t)
    BY <1>1, <1>2, CallFacts
  <1>4. /\ m \in ParsedMessages /\ Origin(m) = Origin(p)
        /\ m.sender = p.sender /\ m.recipient = p.recipient
        /\ m.msg = p.msg /\ m.signers = p.signers \cup {c}
    BY <1>3, WithSignatureOf
  <1>5. /\ Origin(m) = Parsed(m.sender, m.recipient, m.msg, {})
        /\ Origin(m).sender = m.sender /\ Origin(m).msg = m.msg
        /\ m.sender \in Clients /\ m.recipient \in Clients
        /\ m.msg \in Messages
    BY <1>4, OriginOf
  <1>6. Origin(m) \in made /\ m.sender # m.recipient
    BY <1>2, <1>3, <1>4, <1>5, SameParties DEF DbInv
  <1>7. IsCreation(c, t) => m.sender = c /\ m.signers = {c}
                            /\ m.msg \in CreatedBy(c)
                            /\ \/ m.msg.nonce = 1
                               \/ \E k \in Kept(c) : k.channel = m.msg.channel
    BY <1>4, <1>5, <1>6 DEF IsCreation, CreatedBy
  <1>8. IsReception(c, t) => /\ m.recipient = c /\ m.signers = {m.sender, c}
                             /\ Envelope(m.sender, c, m.msg) \in sent
                             /\ m.msg \in Kept(c) /\ Valid(m)
                             /\ SignedMessage(m.sender, m.msg) \in signed[m.sender]
    <2> SUFFICES ASSUME IsReception(c, t)
                 PROVE  /\ m.recipient = c /\ m.signers = {m.sender, c}
                        /\ Envelope(m.sender, c, m.msg) \in sent
                        /\ m.msg \in Kept(c) /\ Valid(m)
                        /\ SignedMessage(m.sender, m.msg) \in signed[m.sender]
      OBVIOUS
    <2>1. /\ m.recipient = c /\ m.signers = {m.sender, c}
          /\ Envelope(m.sender, c, m.msg) \in sent
          /\ m.msg \in Kept(c) /\ Valid(m)
      BY <1>1, <1>4 DEF IsReception, Valid
    <2>2. SentShape(Envelope(m.sender, c, m.msg))
      BY <1>2, <2>1 DEF DbInv, Shapes
    <2>3. QED
      BY <2>1, <2>2 DEF SentShape, Envelope
  <1> HIDE DEF m, p
  <1>9. Counterparty(c, m) = IF IsCreation(c, t) THEN m.recipient ELSE m.sender
    BY <1>3, <1>6, <1>7, <1>8 DEF Counterparty
  <1>10. Storable(c, m)
    <2>1. CASE IsCreation(c, t)
      BY <1>4, <1>6, <1>7, <2>1 DEF Storable
    <2>2. CASE ~IsCreation(c, t)
      <3>1. IsReception(c, t) /\ Counterparty(c, m) = m.sender
        BY <1>3, <1>9, <2>2
      <3>2. \E k \in Kept(c) : k.channel = m.msg.channel
        BY <1>8, <3>1
      <3>3. QED
        BY <1>4, <1>6, <1>8, <3>1, <3>2 DEF Storable
    <2>3. QED
      BY <2>1, <2>2
  <1>11. Storing(c, m)
    <2>1. DbType' /\ StoreStep(c, m)
      BY <1>1, <1>2, <1>4, StoreMessageStep
    <2>2. QED
      BY <1>1, <1>2, <1>10, <2>1 DEF Storing
  <1>12. n \in [by : Clients, to : Clients, msg : Messages]
         /\ n.by = c /\ n.to = Counterparty(c, m) /\ n.msg = m.msg
    BY <1>5, <1>9 DEF Envelope
  <1>13. ASSUME ~Rejected(c, m) PROVE SentShape(n)'
    <2>1. c \in m.signers /\ SignedMessage(c, m.msg) \in signed'[c]
      BY <1>3, <1>7, <1>8, <1>11 DEF Storing, StoreStep
    <2>2. \E k \in Kept(c)' : SameSlot(k, m.msg)
      BY <1>11, <1>13, SlotAfter
    <2>3. CASE IsCreation(c, t)
      <3>1. Parsed(c, Counterparty(c, m), m.msg, {}) \in made'
        BY <1>1, <1>5, <1>6, <1>7, <1>9, <2>3
      <3>2. Counterparty(c, m) # c
        BY <1>6, <1>7, <1>9, <2>3
      <3>3. QED
        BY <1>12, <2>1, <2>2, <3>1, <3>2 DEF SentShape
    <2>4. CASE ~IsCreation(c, t)
      <3>1. IsReception(c, t) /\ Counterparty(c, m) = m.sender
        BY <1>3, <1>9, <2>4
      <3>2. /\ Parsed(m.sender, c, m.msg, {}) \in made'
            /\ Envelope(m.sender, c, m.msg) \in sent'
        BY <1>1, <1>5, <1>6, <1>8, <3>1
      <3>3. m.sender # c
        BY <1>6, <1>8, <3>1
      <3>4. QED
        BY <1>12, <2>1, <2>2, <3>1, <3>2, <3>3 DEF SentShape
    <2>5. QED
      BY <2>3, <2>4
  <1> HIDE DEF n
  <1>14. CallsStep(c, {t}, {})
    BY <1>1, <1>12, SameTypes, EndCalls DEF TasksType
  <1>15. c \in m.signers
    BY <1>3, <1>7, <1>8
  <1>16. StoringStep(c, m, {t}, {})
    BY <1>1, <1>4, <1>11, <1>13, <1>14, <1>15
       DEF StoringStep, SignedIsKept, p
  <1>17. QED
    BY <1>16, StoringInv

\* The first message of a channel conflicts with none.
LEMMA FirstIsStored ==
    ASSUME NEW c \in Clients, NEW m, Storing(c, m), m.msg.nonce = 1,
           ~Rejected(c, m)
    PROVE  m.msg \in Kept(c)'
  <1>1. ASSUME NEW n \in SameNonce(c, m.msg) PROVE n.msg = m.msg
    <2>1. n \in store[c] /\ SameSlot(n.msg, m.msg)
      BY DEF SameNonce, SameSlot
    <2>2. PICK a \in made : a.msg = n.msg
      BY <2>1, KeptIsMade, OriginOf DEF Storing
    <2>3. PICK b \in made : b.msg = m.msg
      BY OriginOf DEF Storing, Storable
    <2>4. a = b
      BY <2>1, <2>2, <2>3 DEF SameSlot, MadeShape, Storing, DbInv
    <2>5. QED
      BY <2>2, <2>3, <2>4
  <1>2. ~Conflicts(c, m.msg)
    BY <1>1 DEF Conflicts
  <1>3. QED
    BY <1>2 DEF Storing, StoreStep, Kept

LEMMA StoreReceivedInv ==
    ASSUME Inv, NEW c \in Clients, NEW t \in Calls(c), StoreReceived(c, t)
    PROVE  Inv'
  <1> DEFINE m == t.parsed
             u == Task(IF m.msg.nonce = 1 THEN "sign" ELSE "check", m)
  <1>1. /\ t.at = "store" /\ StoreMessage(c, m)
        /\ IF Rejected(c, m) \/ ~Valid(m) THEN End(c, t) ELSE GoOn(c, t, u)
        /\ UNCHANGED <<exited, sent, claims, created, made, exits, mishaps>>
    BY DEF StoreReceived
  <1>2. DbInv /\ OrderlyShape
    BY InvGivesDbInv
  <1>3. m \in ParsedMessages /\ Origin(m) \in made /\ IsReception(c, t)
    BY <1>1, <1>2, CallFacts DEF IsCreation
  <1>4. /\ m.recipient = c /\ m.signers = {m.sender}
        /\ Envelope(m.sender, c, m.msg) \in sent
    BY <1>3 DEF IsReception
  <1>5. m.sender # c /\ m.sender \in Clients /\ Counterparty(c, m) = m.sender
    BY <1>2, <1>3, <1>4, SameParties, OriginOf DEF DbInv, Counterparty
  <1>6. SignedMessage(m.sender, m.msg) \in signed[m.sender]
    <2>1. SentShape(Envelope(m.sender, c, m.msg))
      BY <1>2, <1>4 DEF DbInv, Shapes
    <2>2. QED
      BY <2>1 DEF SentShape, Envelope
  <1> HIDE DEF m
  <1>7. Storable(c, m)
    BY <1>3, <1>4, <1>5, <1>6 DEF Storable
  <1>8. Storing(c, m)
    <2>1. DbType' /\ StoreStep(c, m)
      BY <1>1, <1>2, <1>3, StoreMessageStep
    <2>2. QED
      BY <1>1, <1>2, <1>7, <2>1 DEF Storing
  <1>9. u.at = (IF m.msg.nonce = 1 THEN "sign" ELSE "check") /\ u.parsed = m
    BY DEF Task
  <1> HIDE DEF u
  <1>10. CASE ~Rejected(c, m) /\ Valid(m)
    <2>1. CallsStep(c, {t}, {u})
      BY <1>1, <1>10, SameTypes, GoOnCalls
    <2>2. CallShape(c, u)'
      <3>1. \/ m.msg \in Kept(c)'
            \/ <<m.msg.channel, m.msg.nonce>> \in conflicts'[c]
        BY <1>8, <1>10, SlotAfter
      <3>2. m.msg.nonce = 1 => m.msg \in Kept(c)'
        BY <1>8, <1>10, FirstIsStored
      <3>3. QED
        BY <1>1, <1>3, <1>4, <1>9, <1>10, <3>1, <3>2
           DEF CallShape, IsReception, Valid
    <2>3. SignedIsKept(c, m)'
      BY <1>9, <2>1 DEF SignedIsKept, CallsStep
    <2>4. StoringStep(c, m, {t}, {u})
      BY <1>1, <1>8, <2>1, <2>2, <2>3 DEF StoringStep, m
    <2>5. QED
      BY <2>4, StoringInv
  <1>11. CASE Rejected(c, m) \/ ~Valid(m)
    <2>1. CallsStep(c, {t}, {})
      BY <1>1, <1>11, SameTypes, EndCalls
    <2>2. ASSUME Orderly, ~Rejected(c, m) PROVE SignedIsKept(c, m)'
      <3>1. SignedMessage(c, m.msg) \notin signed[c]
        <4> SUFFICES ASSUME SignedMessage(c, m.msg) \in signed[c] PROVE FALSE
          OBVIOUS
        <4>1. SignedShape(c, SignedMessage(c, m.msg))
          BY <1>2 DEF DbInv, Shapes
        <4>2. m.msg \in CreatedBy(c)
          BY <1>11, <2>2, <4>1 DEF SignedShape, SignedMessage, Valid
        <4>3. PICK e \in made : e.sender = c /\ e.msg = m.msg
          BY <4>2 DEF CreatedBy
        <4>4. Origin(m).msg = m.msg /\ Origin(m).sender = m.sender
          BY <1>3, OriginOf
        <4>5. MadeOnce
          BY <1>2, <2>2 DEF OrderlyShape
        <4>6. e = Origin(m)
          BY <1>3, <4>3, <4>4, <4>5 DEF MadeOnce, SameSlot
        <4>7. QED
          BY <1>5, <4>3, <4>4, <4>6
      <3>2. SignedMessage(c, m.msg) \notin signed'[c]
        BY <1>4, <1>5, <1>8, <3>1 DEF Storing, StoreStep, SignedMessage
      <3>3. QED
        BY <3>2 DEF SignedIsKept
    <2>3. StoringStep(c, m, {t}, {})
      BY <1>1, <1>8, <2>1, <2>2 DEF StoringStep, m
    <2>4. QED
      BY <2>3, StoringInv
  <1>12. QED
    BY <1>10, <1>11

\* A message of a slot that holds another one changes nothing of the store:
\* who of the two parties is said to have made it does not matter.
LEMMA HandleKnownMessageInv ==
    ASSUME Inv, NEW c \in Clients, NEW n \in sent, HandleKnownMessage(c, n)
    PROVE  Inv'
  <1>1. /\ n.to = c
        /\ UNCHANGED <<exited, tasks, sent, claims, created, made, exits, mishaps>>
    BY DEF HandleKnownMessage, IsKnown
  <1>2. PICK q \in SameNonce(c, n.msg) :
           StoreMessage(c, IF q.msg = n.msg THEN WithSignature(q, n.by)
                           ELSE Parsed(n.by, c, n.msg, {n.by}))
    BY DEF HandleKnownMessage
  <1>3. DbInv /\ OrderlyShape
    BY InvGivesDbInv
  <1>4. /\ n.by \in Clients /\ n.msg \in Messages /\ SentShape(n)
        /\ n.by # c /\ SignedMessage(n.by, n.msg) \in signed[n.by]
    BY <1>1, <1>3 DEF DbInv, Shapes, TasksType, SentShape
  <1>5. /\ q \in store[c] /\ SameSlot(q.msg, n.msg) /\ q.msg \in Kept(c)
        /\ q \in ParsedMessages /\ Origin(q) \in made /\ StoredShape(c, q)
    BY <1>3, KeptIsMade DEF SameNonce, SameSlot, Kept
  <1>6. CallsStep(c, {}, {})
    BY <1>1, SameTypes, SameCalls
  <1>7. CASE q.msg = n.msg
    <2> DEFINE m == WithSignature(q, n.by)
    <2>1. /\ m \in ParsedMessages /\ Origin(m) = Origin(q)
          /\ m.sender = q.sender /\ m.recipient = q.recipient
          /\ m.msg = q.msg /\ m.signers = q.signers \cup {n.by}
      BY <1>4, <1>5, WithSignatureOf
    <2>2. StoreMessage(c, m)
      BY <1>2, <1>7
    <2> HIDE DEF m
    <2>3. n.by \in {q.sender, q.recipient}
      <3>1. PICK e \in made : /\ e.msg = n.msg
                              /\ {e.sender, e.recipient} = {n.by, n.to}
        BY <1>4 DEF SentShape, Parsed
      <3>2. Origin(q).msg = q.msg /\ Origin(q).sender = q.sender
            /\ Origin(q).recipient = q.recipient
        BY <1>5, OriginOf
      <3>3. {Origin(q).sender, Origin(q).recipient} = {e.sender, e.recipient}
        BY <1>3, <1>5, <1>7, <3>1, <3>2 DEF DbInv, MadeShape
      <3>4. QED
        BY <3>1, <3>2, <3>3
    <2>4. \A p \in m.signers : p # c => SignedMessage(p, m.msg) \in signed[p]
      <3> SUFFICES ASSUME NEW p \in m.signers, p # c
                   PROVE  SignedMessage(p, m.msg) \in signed[p]
        OBVIOUS
      <3>1. CASE p = n.by
        BY <1>4, <1>7, <2>1, <3>1
      <3>2. CASE p # n.by
        <4>1. SignedMessage(p, q.msg) \in signed[c]
              /\ SignedMessage(p, q.msg).by = p
          BY <1>5, <2>1, <3>2 DEF StoredShape, SignedMessage
        <4>2. QED
          BY <1>3, <2>1, <4>1 DEF DbInv, Shapes, SignedShape
      <3>3. QED
        BY <3>1, <3>2
    <2>5. c \in m.signers => m.msg \in CreatedBy(c) \/ (m.msg \in Kept(c) /\ Valid(m))
      <3> SUFFICES ASSUME c \in m.signers
                   PROVE  m.msg \in CreatedBy(c) \/ (m.msg \in Kept(c) /\ Valid(m))
        OBVIOUS
      <3>1. SignedMessage(c, q.msg) \in signed[c]
        BY <1>4, <1>5, <2>1 DEF StoredShape
      <3>2. SignedShape(c, SignedMessage(c, q.msg))
        BY <1>3, <3>1 DEF DbInv, Shapes
      <3>3. QED
        BY <2>1, <3>2 DEF SignedShape, SignedMessage, Valid
    <2>6. m.msg \in CreatedBy(c) \/ Envelope(Counterparty(c, m), c, m.msg) \in sent
      BY <1>5, <2>1 DEF StoredShape, Counterparty
    <2>7. Storable(c, m)
      BY <1>5, <2>1, <2>3, <2>4, <2>5, <2>6 DEF Storable, StoredShape
    <2>8. Storing(c, m)
      <3>1. DbType' /\ StoreStep(c, m)
        BY <1>1, <1>3, <2>1, <2>2, StoreMessageStep
      <3>2. QED
        BY <1>1, <1>3, <2>7, <3>1 DEF Storing
    <2>9. ASSUME Orderly, ~Rejected(c, m) PROVE SignedIsKept(c, m)'
      <3>1. SignedIsKept(c, q)
        BY <1>3, <1>5, <2>9 DEF OrderlyShape
      <3>2. CASE c \in q.signers \/ q.msg.channel \in exited[c]
        BY <1>1, <2>1, <3>2 DEF SignedIsKept
      <3>3. CASE \E t \in Calls(c) : /\ t.at \in {"sign", "check"}
                                     /\ t.parsed.msg = q.msg
        BY <1>6, <2>1, <3>3 DEF SignedIsKept, CallsStep
      <3>4. CASE SignedMessage(c, q.msg) \notin signed[c] /\ c \notin q.signers
        <4>1. SignedMessage(c, m.msg) \notin signed'[c]
          BY <1>4, <2>1, <2>8, <3>4 DEF Storing, StoreStep, SignedMessage
        <4>2. QED
          BY <4>1 DEF SignedIsKept
      <3>5. QED
        BY <3>1, <3>2, <3>3, <3>4 DEF SignedIsKept
    <2>10. StoringStep(c, m, {}, {})
      BY <1>1, <1>6, <2>8, <2>9 DEF StoringStep
    <2>11. QED
      BY <2>10, StoringInv
  <1>8. CASE q.msg # n.msg
    <2>1. Conflicts(c, n.msg)
      BY <1>4, <1>5, <1>8, SameMessage, OriginOf DEF Conflicts
    <2>2. PICK a \in Clients, b \in Clients :
             /\ {a, b} = {n.by, c} /\ Parsed(a, b, n.msg, {}) \in made
             /\ a = c \/ Envelope(a, c, n.msg) \in sent
      <3>1. CASE Parsed(n.by, c, n.msg, {}) \in made
        <4>1. n = Envelope(n.by, c, n.msg)
          BY <1>1, <1>3 DEF DbInv, TasksType, Envelope
        <4>2. QED
          BY <1>4, <3>1, <4>1
      <3>2. CASE Parsed(c, n.by, n.msg, {}) \in made
        BY <1>4, <3>2
      <3>3. QED
        BY <1>1, <1>4, <3>1, <3>2 DEF SentShape
    <2> DEFINE m == Parsed(a, b, n.msg, {n.by})
    <2>3. /\ m \in ParsedMessages /\ Origin(m) = Parsed(a, b, n.msg, {})
          /\ m.sender = a /\ m.recipient = b /\ m.msg = n.msg /\ m.signers = {n.by}
      BY <1>4 DEF ParsedMessages, Parsed, Origin
    <2>4. StoreMessage(c, m)
      <3>1. StoreMessage(c, Parsed(n.by, c, n.msg, {n.by}))
        BY <1>2, <1>8
      <3>2. /\ Parsed(n.by, c, n.msg, {n.by}).msg = n.msg
            /\ Parsed(n.by, c, n.msg, {n.by}).signers = {n.by}
        BY DEF Parsed
      <3>3. /\ signed' = [signed EXCEPT
                             ![c] = @ \cup {SignedMessage(s, n.msg) : s \in {n.by}}]
            /\ conflicts' = [conflicts EXCEPT
                                ![c] = @ \cup {<<n.msg.channel, n.msg.nonce>>}]
            /\ UNCHANGED store
        <4> HIDE DEF m
        <4> DEFINE x == Parsed(n.by, c, n.msg, {n.by})
        <4> HIDE DEF x
        <4>1. StoreMessage(c, x) /\ x.msg = n.msg /\ x.signers = {n.by}
          BY <3>1, <3>2 DEF x
        <4>2. QED
          BY ONLY <2>1, <4>1 DEF StoreMessage
      <3>4. QED
        <4> HIDE DEF m
        <4>1. QED
          BY ONLY <2>1, <2>3, <3>3 DEF StoreMessage
    <2> HIDE DEF m
    <2>5. m.msg \in CreatedBy(c) \/ Envelope(Counterparty(c, m), c, m.msg) \in sent
      <3>1. CASE a = c
        <4>1. Parsed(a, b, n.msg, {}).sender = c
              /\ Parsed(a, b, n.msg, {}).msg = n.msg
          BY <3>1 DEF Parsed
        <4>2. QED
          BY <2>2, <2>3, <4>1 DEF CreatedBy
      <3>2. CASE a # c
        BY <2>2, <2>3, <3>2 DEF Counterparty
      <3>3. QED
        BY <3>1, <3>2
    <2>6. Storable(c, m)
      <3>1. \A p \in m.signers : p # c => SignedMessage(p, m.msg) \in signed[p]
        BY <1>4, <2>3
      <3>2. c \notin m.signers
        BY <1>4, <2>3
      <3>3. c \in {m.sender, m.recipient} /\ m.signers \subseteq {m.sender, m.recipient}
        BY <2>2, <2>3
      <3>4. QED
        BY <2>2, <2>3, <2>5, <3>1, <3>2, <3>3 DEF Storable
    <2>7. Storing(c, m)
      <3>1. DbType' /\ StoreStep(c, m)
        BY <1>1, <1>3, <2>3, <2>4, StoreMessageStep
      <3>2. QED
        BY <1>1, <1>3, <2>6, <3>1 DEF Storing
    <2>8. ~Orderly
      <3>1. ASSUME Orderly PROVE FALSE
        <4>1. MadeOnce /\ NoConflicts
          BY <1>3, <3>1 DEF OrderlyShape
        <4>2. QED
          BY <2>1, <2>3, <2>7, <4>1, StoringInOrder
      <3>2. QED
        BY <3>1
    <2>9. StoringStep(c, m, {}, {})
      BY <1>1, <1>6, <2>7, <2>8 DEF StoringStep
    <2>10. QED
      BY <2>9, StoringInv
  <1>9. QED
    BY <1>7, <1>8

-----------------------------------------------------------------------------
(***************************************************************************)
(* A new message.                                                          *)
(***************************************************************************)
\* Where the new message of c to d belongs: it opens a channel, or follows
\* the last message, which c has signed, of the one there is.
Opens(msg, data) == msg = Message(created + 1, 1, data)

Succeeds(c, d, msg, data, last) ==
    /\ last \in store[c] /\ {last.sender, last.recipient} = {c, d}
    /\ msg = Message(last.msg.channel, last.msg.nonce + 1, data)
    /\ last.msg.channel \notin exited[c]
    /\ \A m \in SignedIn(c, last.msg.channel) : m.msg.nonce <= last.msg.nonce

LEMMA MessageOf ==
    ASSUME NEW channel \in Nat, NEW nonce \in Nat, NEW data \in Nat
    PROVE  /\ Message(channel, nonce, data) \in Messages
           /\ Message(channel, nonce, data).channel = channel
           /\ Message(channel, nonce, data).nonce = nonce
  BY DEF Message, Messages

LEMMA SuccessorOf ==
    ASSUME DbInv, NEW c \in Clients, NEW d, NEW data \in Nat, NEW msg,
           NEW last \in store[c], Succeeds(c, d, msg, data, last)
    PROVE  /\ msg \in Messages /\ msg.channel = last.msg.channel
           /\ msg.nonce = last.msg.nonce + 1
  <1>1. last.msg.channel \in Nat /\ last.msg.nonce \in Nat
    BY KeptIsMade
  <1> DEFINE channel == last.msg.channel
             nonce == last.msg.nonce + 1
  <1>2. channel \in Nat /\ nonce \in Nat
    BY <1>1
  <1>3. msg = Message(channel, nonce, data)
    BY DEF Succeeds
  <1>4. msg \in Messages /\ msg.channel = channel /\ msg.nonce = nonce
    <2> HIDE DEF channel, nonce
    <2>1. QED
      BY <1>2, <1>3, MessageOf
  <1>5. QED
    BY <1>4

LEMMA NextMessageOf ==
    ASSUME DbInv, NEW c \in Clients, NEW d \in Clients, c # d, NEW data,
           NEW msg \in NextMessages(c, d, data)
    PROVE  \/ Opens(msg, data)
           \/ \E last \in store[c] : Succeeds(c, d, msg, data, last)
  <1>1. CASE Channels(c, d) = {}
    BY <1>1 DEF NextMessages, Opens
  <1>2. CASE Channels(c, d) # {}
    <2>1. PICK channel \in Channels(c, d) \ exited[c] :
             msg \in NextMessage(c, channel, data)
      BY <1>2 DEF NextMessages
    <2>2. PICK last \in MostRecent(ValidIn(c, channel)) :
             /\ \E n \in MostRecent(SignedIn(c, channel)) :
                   n.msg.nonce = last.msg.nonce
             /\ msg = Message(channel, last.msg.nonce + 1, data)
      BY <2>1 DEF NextMessage
    <2>3. PICK n \in MostRecent(SignedIn(c, channel)) : n.msg.nonce = last.msg.nonce
      BY <2>2
    <2>4. \A m \in SignedIn(c, channel) : m.msg.nonce <= last.msg.nonce
      BY <2>3 DEF MostRecent
    <2>5. last \in store[c] /\ last.msg.channel = channel
      BY <2>2 DEF MostRecent, ValidIn
    <2>6. PICK k \in store[c] : k.msg.channel = channel /\ d \in {k.sender, k.recipient}
      BY <2>1 DEF Channels
    <2>7. {last.sender, last.recipient} = {k.sender, k.recipient}
      <3>1. /\ MadeShape /\ k \in ParsedMessages /\ Origin(k) \in made
            /\ last \in ParsedMessages /\ Origin(last) \in made
        BY <2>5, KeptIsMade DEF DbInv
      <3>2. QED
        BY <2>5, <2>6, <3>1, SameParties
    <2>8. {k.sender, k.recipient} = {c, d}
      BY <2>6, KeptIsMade, SameParties DEF DbInv
    <2>9. Succeeds(c, d, msg, data, last)
      BY <2>1, <2>2, <2>4, <2>5, <2>7, <2>8 DEF Succeeds
    <2>10. QED
      BY <2>5, <2>9
  <1>3. QED
    BY <1>1, <1>2

\* Among two parties that have nothing under way, no message that is made has
\* the place of the next one.
LEMMA NextIsFresh ==
    ASSUME DbInv, OrderlyShape, Orderly, NEW c \in Clients, NEW d \in Clients,
           c # d, NEW data \in Nat, NEW msg, NEW last \in store[c],
           Succeeds(c, d, msg, data, last), Settled(c, d), NEW e \in made
    PROVE  ~SameSlot(e.msg, msg)
  <1> SUFFICES ASSUME SameSlot(e.msg, msg) PROVE FALSE
    OBVIOUS
  <1>1. /\ MadeOnce /\ MadeIsSigned(e)
        /\ \A x \in Clients : \A m \in store[x] : SignedIsKept(x, m)
    BY DEF OrderlyShape
  <1>2. /\ last \in ParsedMessages /\ Origin(last) \in made
        /\ last.msg.channel \in Nat /\ last.msg.nonce \in Nat /\ last.msg.nonce >= 1
    BY KeptIsMade
  <1>3. msg.channel = last.msg.channel /\ msg.nonce = last.msg.nonce + 1
    BY SuccessorOf
  <1>4. e \in ParsedMessages /\ e.msg \in Messages /\ e.msg.nonce \in Nat
    BY DEF DbInv, MadeShape, ParsedMessages, Messages
  <1>5. {e.sender, e.recipient} = {c, d}
    <2>1. Origin(last).msg = last.msg /\ Origin(last).sender = last.sender
          /\ Origin(last).recipient = last.recipient
      BY <1>2, OriginOf
    <2>2. {e.sender, e.recipient} = {Origin(last).sender, Origin(last).recipient}
      BY <1>2, <1>3, <2>1 DEF DbInv, MadeShape, SameSlot
    <2>3. QED
      BY <2>1, <2>2 DEF Succeeds
  <1>6. e.sender \in {c, d} /\ e.sender \in Clients
    BY <1>5
  <1>7. e.msg.nonce # 1
    BY <1>2, <1>3, <1>4 DEF SameSlot
  <1>8. ASSUME NEW x \in Clients, SignedMessage(x, e.msg) \in signed[x]
        PROVE  \E q \in store[x] : q.msg = e.msg
    <2>1. SignedShape(x, SignedMessage(x, e.msg))
      BY <1>8 DEF DbInv, Shapes
    <2>2. PICK q \in store[x] : SameSlot(q.msg, e.msg)
      BY <1>7, <2>1 DEF SignedShape, SignedMessage, Kept
    <2>3. Origin(q) \in made /\ Origin(q).msg = q.msg
      BY KeptIsMade, OriginOf
    <2>4. Origin(q) = e
      BY <1>1, <2>2, <2>3 DEF MadeOnce
    <2>5. QED
      BY <2>3, <2>4
  <1>9. SignedMessage(e.sender, e.msg) \in signed[e.sender]
    BY <1>1, <1>6 DEF MadeIsSigned, Settled
  <1>10. PICK q \in store[e.sender] : q.msg = e.msg
    BY <1>6, <1>8, <1>9
  <1>11. SignedMessage(c, e.msg) \in signed[c]
    BY <1>6, <1>10 DEF Settled
  <1>12. PICK r \in store[c] : r.msg = e.msg
    BY <1>8, <1>11
  <1>13. c \in r.signers
    BY <1>1, <1>3, <1>11, <1>12 DEF SignedIsKept, Settled, Succeeds, SameSlot
  <1>14. r \in SignedIn(c, last.msg.channel)
    BY <1>3, <1>12, <1>13 DEF SignedIn, SameSlot
  <1>15. r.msg.nonce <= last.msg.nonce
    BY <1>14 DEF Succeeds
  <1>16. r.msg.nonce = last.msg.nonce + 1
    BY <1>3, <1>12 DEF SameSlot
  <1>17. QED
    BY <1>2, <1>15, <1>16

LEMMA CreateNewMessageInv ==
    ASSUME Inv, NEW c \in Clients, NEW d \in Clients \ {c}, NEW data,
           CreateNewMessage(c, d, data), Readable'
    PROVE  Inv'
  <1>1. /\ DbInv /\ OrderlyShape /\ DbType' /\ TasksType /\ MadeShape
        /\ exits' \in 0..MaxExits
        /\ sent' \subseteq [by : Clients, to : Clients, msg : Messages]
    <2>1. UNCHANGED db /\ UNCHANGED sent /\ UNCHANGED exits
      BY DEF CreateNewMessage
    <2>2. QED
      BY <2>1, InvGivesDbInv, SameTypes
  <1>2. PICK msg \in NextMessages(c, d, data) :
           /\ Begin(c, Task("sign", Parsed(c, d, msg, {})))
           /\ made' = made \cup {Parsed(c, d, msg, {})}
           /\ mishaps' = mishaps
                 \cup (IF Settled(c, d) THEN {} ELSE {"crossed"})
                 \cup (IF data \in Bad THEN {"bad"} ELSE {})
                 \cup (IF ReadBack(msg) = msg THEN {} ELSE {"misread"})
    BY DEF CreateNewMessage
  <1>readable. ReadBack(msg) = msg
    BY <1>2 DEF Readable
  <1>3. /\ created' = created + 1 /\ created \in Nat /\ created' \in 0..Len(Balances)
        /\ data \in Nat
    BY <1>1 DEF CreateNewMessage, MadeShape
  <1> DEFINE p == Parsed(c, d, msg, {})
             t == Task("sign", p)
  <1>4. \/ Opens(msg, data)
        \/ \E last \in store[c] : Succeeds(c, d, msg, data, last)
    BY <1>1, <1>2, NextMessageOf
  <1>5. /\ msg \in Messages /\ msg.channel \in 1..created' /\ msg.nonce >= 1
        /\ msg.nonce \in Nat
        /\ \/ msg.nonce = 1 /\ msg.channel = created + 1
           \/ msg.nonce # 1 /\ \E last \in store[c] : Succeeds(c, d, msg, data, last)
    <2>1. CASE Opens(msg, data)
      BY <1>3, <2>1, MessageOf DEF Opens
    <2>2. CASE \E last \in store[c] : Succeeds(c, d, msg, data, last)
      <3>1. PICK last \in store[c] : Succeeds(c, d, msg, data, last)
        BY <2>2
      <3>2. /\ last.msg.channel \in Nat /\ last.msg.nonce \in Nat
            /\ last.msg.nonce >= 1 /\ last.msg.channel \in 1..created
        BY <1>1, KeptIsMade
      <3>3. /\ msg \in Messages /\ msg.channel = last.msg.channel
            /\ msg.nonce = last.msg.nonce + 1
        BY <1>1, <1>3, <3>1, SuccessorOf
      <3>4. QED
        BY <1>3, <3>1, <3>2, <3>3
    <2>3. QED
      BY <1>4, <2>1, <2>2
  <1>6. /\ p \in ParsedMessages /\ Origin(p) = p /\ p.sender = c /\ p.recipient = d
        /\ p.msg = msg /\ p.signers = {} /\ t.at = "sign" /\ t.parsed = p
    BY <1>5 DEF Parsed, ParsedMessages, Origin, Task
  <1> HIDE DEF p, t
  <1>7. made' = made \cup {p} /\ Begin(c, t)
    BY <1>2 DEF p, t
  <1>8. MadeShape'
    <2>1. ASSUME NEW n \in made, n.msg.channel = msg.channel
          PROVE  {n.sender, n.recipient} = {c, d} /\ msg.nonce # 1
      <3>1. n.msg.channel \in 1..created
        BY <1>1 DEF MadeShape
      <3>2. PICK last \in store[c] : Succeeds(c, d, msg, data, last)
        BY <1>3, <1>5, <2>1, <3>1
      <3>3. /\ last \in ParsedMessages /\ Origin(last) \in made
            /\ last.msg.channel \in Nat /\ last.msg.nonce \in Nat
        BY <1>1, KeptIsMade
      <3>4. msg.channel = last.msg.channel
        BY <1>1, <1>3, <3>2, SuccessorOf
      <3>5. Origin(last).msg = last.msg /\ Origin(last).sender = last.sender
            /\ Origin(last).recipient = last.recipient
        BY <3>3, OriginOf
      <3>6. {n.sender, n.recipient} = {Origin(last).sender, Origin(last).recipient}
        BY <1>1, <2>1, <3>3, <3>4, <3>5 DEF MadeShape
      <3>7. msg.nonce # 1
        BY <1>3, <1>5, <2>1, <3>1
      <3>8. QED
        BY <3>2, <3>5, <3>6, <3>7 DEF Succeeds
    <2>2. /\ made' \subseteq ParsedMessages
          /\ \A m \in made' : /\ m.sender # m.recipient /\ m.signers = {}
                              /\ m.msg.channel \in 1..created' /\ m.msg.nonce >= 1
                              /\ ReadBack(m.msg) = m.msg
      BY <1>1, <1>3, <1>5, <1>6, <1>7, <1>readable DEF MadeShape
    <2>3. ASSUME NEW m \in made', NEW n \in made', m.msg.channel = n.msg.channel
          PROVE  /\ {m.sender, m.recipient} = {n.sender, n.recipient}
                 /\ m.msg.nonce = 1 /\ n.msg.nonce = 1 => m = n
      <3>1. CASE m \in made /\ n \in made
        BY <1>1, <2>3, <3>1 DEF MadeShape
      <3>2. CASE m \in made /\ n = p
        BY <1>6, <2>1, <2>3, <3>2
      <3>3. CASE m = p /\ n \in made
        BY <1>6, <2>1, <2>3, <3>3
      <3>4. CASE m = p /\ n = p
        BY <3>4
      <3>5. QED
        BY <1>7, <3>1, <3>2, <3>3, <3>4
    <2>4. QED
      BY <1>3, <2>2, <2>3 DEF MadeShape
  <1>9. Grows /\ StillDb
    BY <1>7 DEF Grows, StillDb, Kept, CreateNewMessage, db
  <1>10. CallsStep(c, {}, {t})
    BY <1>1, <1>7, BeginCalls
  <1>11. CallShape(c, t)'
    <2>1. \/ msg.nonce = 1
          \/ \E k \in Kept(c)' : k.channel = msg.channel
      <3>1. CASE msg.nonce # 1
        <4>1. PICK last \in store[c] : Succeeds(c, d, msg, data, last)
          BY <1>5, <3>1
        <4>2. last.msg.channel \in Nat /\ last.msg.nonce \in Nat
          BY <1>1, KeptIsMade
        <4>3. msg.channel = last.msg.channel
          BY <1>1, <1>3, <4>1, SuccessorOf
        <4>4. last.msg \in Kept(c)'
          BY <1>9 DEF StillDb, Kept
        <4>5. QED
          BY <4>3, <4>4
      <3>2. QED
        BY <3>1
    <2>2. QED
      BY <1>6, <1>7, <2>1 DEF CallShape, IsCreation, Origin
  <1>12. Shapes' /\ KeptAgree'
    <2>1. \A x \in Clients : \A u \in Calls(x)' : CallShape(x, u)'
      BY <1>1, <1>9, <1>10, <1>11, CallsAfter
    <2>2. \A claim \in claims' : ClaimShape(claim)'
      BY <1>1, <1>9, ClaimsAfter DEF CreateNewMessage
    <2>3. /\ \A x \in Clients : /\ StoreShape(x)'
                                /\ \A m \in store'[x] : StoredShape(x, m)'
                                /\ \A s \in signed'[x] : SignedShape(x, s)'
          /\ \A n \in sent' : SentShape(n)'
          /\ KeptAgree'
      BY <1>1, <1>9, StillShapes
    <2>4. QED
      BY <2>1, <2>2, <2>3 DEF Shapes
  <1>13. ASSUME Orderly' PROVE /\ MadeOnce' /\ NoConflicts'
                               /\ \A m \in made' : MadeIsSigned(m)'
                               /\ \A x \in Clients : \A m \in store'[x] :
                                     SignedIsKept(x, m)'
    <2>1. Orderly /\ Settled(c, d)
      BY <1>2, <1>13 DEF Orderly
    <2>2. /\ MadeOnce /\ NoConflicts /\ \A m \in made : MadeIsSigned(m)
          /\ \A x \in Clients : \A m \in store[x] : SignedIsKept(x, m)
      BY <1>1, <2>1 DEF OrderlyShape
    <2>3. ASSUME NEW e \in made PROVE ~SameSlot(e.msg, msg)
      <3>1. CASE msg.nonce = 1 /\ msg.channel = created + 1
        BY <1>1, <1>3, <3>1 DEF SameSlot, MadeShape
      <3>2. CASE \E last \in store[c] : Succeeds(c, d, msg, data, last)
        <4>1. PICK last \in store[c] : Succeeds(c, d, msg, data, last)
          BY <3>2
        <4>2. QED
          BY <1>1, <1>3, <2>1, <4>1, NextIsFresh
      <3>3. QED
        BY <1>5, <3>1, <3>2
    <2>4. MadeOnce'
      BY <1>6, <1>7, <2>2, <2>3 DEF MadeOnce, SameSlot
    <2>5. NoConflicts'
      BY <1>9, <2>2 DEF NoConflicts, StillDb
    <2>6. ASSUME NEW m \in made' PROVE MadeIsSigned(m)'
      <3>1. CASE m \in made
        <4>1. m.sender \in Clients
          BY <1>1, <3>1 DEF MadeShape, ParsedMessages
        <4>2. QED
          BY <1>9, <1>10, <2>2, <3>1, <4>1, MadeAfter
      <3>2. CASE m = p
        BY <1>6, <1>10, <3>2 DEF MadeIsSigned, CallsStep
      <3>3. QED
        BY <1>7, <3>1, <3>2
    <2>7. ASSUME NEW x \in Clients, NEW m \in store'[x] PROVE SignedIsKept(x, m)'
      <3>1. m \in store[x] /\ signed'[x] = signed[x]
        BY <1>9 DEF StillDb
      <3>2. QED
        BY <1>9, <1>10, <2>2, <3>1, SignedAfter
    <2>8. QED
      BY <2>4, <2>5, <2>6, <2>7
  <1>14. mishaps' \subseteq {"crossed", "overtaken", "bad"}
    BY <1>2, <1>readable DEF Inv
  <1>15. QED
    BY <1>1, <1>8, <1>10, <1>12, <1>13, <1>14 DEF Inv, OrderlyShape, CallsStep

-----------------------------------------------------------------------------
(***************************************************************************)
(* The invariant.                                                          *)
(***************************************************************************)
LEMMA InitInv == ASSUME Init PROVE Inv
  <1>1. DbType
    BY DEF Init, DbType
  <1>2. TasksType
    BY DEF Init, TasksType, EmptyBag, SetToBag, IsABag
  <1>3. MadeShape
    BY DEF Init, MadeShape
  <1>4. \A c \in Clients : Calls(c) = {}
    BY DEF Init, Calls, EmptyBag, SetToBag, BagToSet
  <1>5. Shapes
    BY <1>4 DEF Init, Shapes, StoreShape
  <1>6. KeptAgree
    BY DEF Init, KeptAgree, Kept
  <1>7. OrderlyShape
    BY DEF Init, OrderlyShape, MadeOnce, NoConflicts
  <1>8. exits \in 0..MaxExits /\ mishaps \subseteq {"crossed", "overtaken", "bad"}
    BY DEF Init
  <1>9. QED
    BY <1>1, <1>2, <1>3, <1>5, <1>6, <1>7, <1>8 DEF Inv

LEMMA StutterInv == ASSUME Inv, UNCHANGED vars PROVE Inv'
  <1>1. DbInv /\ OrderlyShape /\ exits \in 0..MaxExits
        /\ mishaps \subseteq {"crossed", "overtaken", "bad"}
    BY InvGivesDbInv DEF Inv
  <1>2. DbType' /\ TasksType' /\ MadeShape'
    BY <1>1 DEF vars, db, DbInv, DbType, TasksType, MadeShape
  <1>3. Grows /\ StillDb /\ UNCHANGED claims
    BY DEF vars, db, Grows, StillDb, Kept
  <1>4. /\ \A c \in Clients : /\ StoreShape(c)'
                              /\ \A m \in store'[c] : StoredShape(c, m)'
                              /\ \A s \in signed'[c] : SignedShape(c, s)'
        /\ \A n \in sent' : SentShape(n)'
        /\ KeptAgree'
    BY <1>1, <1>3, StillShapes
  <1>5. \A claim \in claims' : ClaimShape(claim)'
    BY <1>1, <1>3, ClaimsAfter
  <1>6. \A c \in Clients : \A t \in Calls(c)' : CallShape(c, t)'
    BY <1>1, <1>3, CallGrows DEF vars, Calls, DbInv, Shapes
  <1>7. Shapes'
    BY <1>4, <1>5, <1>6 DEF Shapes
  <1>8. OrderlyShape'
    BY <1>1 DEF vars, db, OrderlyShape, Orderly, MadeOnce, NoConflicts,
                MadeIsSigned, SignedIsKept, Calls
  <1>9. exits' \in 0..MaxExits /\ mishaps' \subseteq {"crossed", "overtaken", "bad"}
    BY <1>1 DEF vars
  <1>10. QED
    BY <1>2, <1>4, <1>7, <1>8, <1>9 DEF Inv

\* What was sent is read as it was made.
LEMMA ReceivedAsSent == ASSUME Inv, NEW n \in sent PROVE Received(n) = n
  <1>1. n \in [by : Clients, to : Clients, msg : Messages] /\ SentShape(n)
    BY DEF Inv, TasksType, Shapes
  <1>2. PICK e \in made : e.msg = n.msg
    BY <1>1 DEF SentShape, Parsed
  <1>3. ReadBack(n.msg) = n.msg
    BY <1>2 DEF Inv, MadeShape
  <1>4. QED
    BY <1>1, <1>3 DEF Received, Envelope

LEMMA MishapsGrow == ASSUME [Next]_vars PROVE mishaps \subseteq mishaps'
  <1>1. CASE UNCHANGED vars
    BY <1>1 DEF vars
  <1>2. CASE Next
    <2>1. \A c, n : HandleKnownMessage(c, n) \/ HandleMessage(c, n)
                       => mishaps \subseteq mishaps'
      BY DEF HandleKnownMessage, HandleMessage
    <2>2. \A c, t : SignAndSaveMessage(c, t) \/ StoreReceived(c, t)
                       \/ CheckNewMessage(c, t) \/ MarkChannelExited(c, t)
                       => mishaps \subseteq mishaps'
      BY DEF SignAndSaveMessage, StoreReceived, CheckNewMessage, MarkChannelExited
    <2>3. \A c, d, data : CreateNewMessage(c, d, data) => mishaps \subseteq mishaps'
      BY DEF CreateNewMessage
    <2>4. \A c, d : ExitChannel(c, d) \/ HandleChannelExit(c, d)
                       => mishaps \subseteq mishaps'
      BY DEF ExitChannel, HandleChannelExit
    <2>5. QED
      BY ONLY <1>2, <2>1, <2>2, <2>3, <2>4 DEF Next, Receives, GoesOn
  <1>3. QED
    BY <1>1, <1>2

LEMMA NextInv == ASSUME Inv, [Next]_vars, Readable' PROVE Inv'
  <1>1. CASE Next
    <2>1. PICK c \in Clients :
             \/ Receives(c)
             \/ GoesOn(c)
             \/ \E d \in Clients \ {c} :
                   \/ \E data \in UNION Range(Balances) : CreateNewMessage(c, d, data)
                   \/ ExitChannel(c, d)
             \/ \E claim \in claims : HandleChannelExit(c, claim)
      BY <1>1 DEF Next
    <2>2. CASE Receives(c)
      <3>1. PICK n \in sent : \/ HandleKnownMessage(c, Received(n))
                              \/ HandleMessage(c, Received(n))
        BY <2>2 DEF Receives
      <3>2. Received(n) = n
        BY ReceivedAsSent
      <3>3. QED
        BY <3>1, <3>2, HandleKnownMessageInv, HandleMessageInv
    <2>3. CASE GoesOn(c)
      BY <2>3, SignAndSaveMessageInv, StoreReceivedInv, CheckNewMessageInv,
         MarkChannelExitedInv DEF GoesOn
    <2>4. CASE \E d \in Clients \ {c} : \E data \in UNION Range(Balances) :
                  CreateNewMessage(c, d, data)
      BY <2>4, CreateNewMessageInv
    <2>5. CASE \E d \in Clients \ {c} : ExitChannel(c, d)
      BY <2>5, ExitChannelInv
    <2>6. CASE \E claim \in claims : HandleChannelExit(c, claim)
      BY <2>6, HandleChannelExitInv
    <2>7. QED
      BY <2>1, <2>2, <2>3, <2>4, <2>5, <2>6
  <1>2. CASE UNCHANGED vars
    BY <1>2, StutterInv
  <1>3. QED
    BY <1>1, <1>2

\* While messages are read back as they were made, the shape of what is stored,
\* sent, signed and under way is kept by every step of every client (the whole
\* of state-channel-client.ts).
THEOREM ShapesAreKept == Spec => [](Readable => Inv)
  <1>1. Init => (Readable => Inv)
    BY InitInv
  <1>2. (Readable => Inv) /\ [Next]_vars => (Readable => Inv)'
    BY NextInv, MishapsGrow DEF Readable
  <1>3. QED
    BY <1>1, <1>2, PTL DEF Spec

-----------------------------------------------------------------------------
(***************************************************************************)
(* One state per nonce.                                                    *)
(***************************************************************************)
LEMMA TypesHold == ASSUME Inv PROVE TypeOK
  <1>1. Shapes
    BY DEF Inv
  <1>2. ASSUME NEW c \in Clients
        PROVE  /\ \A m \in store[c] :
                     /\ c \in {m.sender, m.recipient}
                     /\ m.signers \subseteq {m.sender, m.recipient}
                     /\ \A p \in m.signers : SignedMessage(p, m.msg) \in signed[c]
               /\ \A s \in signed[c] : s.msg \in OwnSigned(s.by)
               /\ \A t \in Calls(c) : t.at \in {"sign", "store", "check", "mark"}
    <2>1. \A m \in store[c] : StoredShape(c, m)
      BY <1>1 DEF Shapes
    <2>2. \A s \in signed[c] : s \in signed[s.by]
      BY <1>1 DEF Shapes, SignedShape
    <2>3. \A t \in Calls(c) : CallShape(c, t)
      BY <1>1 DEF Shapes
    <2>4. \A m \in store[c] :
             /\ c \in {m.sender, m.recipient}
             /\ m.signers \subseteq {m.sender, m.recipient}
             /\ \A p \in m.signers : SignedMessage(p, m.msg) \in signed[c]
      BY <2>1 DEF StoredShape
    <2>5. \A s \in signed[c] : s.msg \in OwnSigned(s.by)
      BY <2>2 DEF OwnSigned
    <2>6. \A t \in Calls(c) : t.at \in {"sign", "store", "check", "mark"}
      BY <2>3 DEF CallShape, IsExit, IsCreation, IsReception
    <2>7. QED
      BY <2>4, <2>5, <2>6
  <1>3. /\ created \in 0..Len(Balances) /\ exits \in 0..MaxExits
        /\ mishaps \subseteq {"crossed", "overtaken", "bad", "misread"}
    BY DEF Inv, MadeShape
  <1>4. QED
    BY <1>2, <1>3 DEF TypeOK

\* What a client has signed and not created, it keeps.
LEMMA OwnIsKept ==
    ASSUME Inv, NEW c \in Clients, NEW m \in OwnSigned(c)
    PROVE  /\ m \in CreatedBy(c) \/ m \in Kept(c)
           /\ \E e \in made : e.msg = m
           /\ m.nonce = 1 \/ \E k \in Kept(c) : SameSlot(k, m)
  <1>1. PICK s \in signed[c] : s.by = c /\ s.msg = m
    BY DEF OwnSigned
  <1>2. SignedShape(c, s)
    BY DEF Inv, Shapes
  <1>3. \A d : Parsed(d, c, m, {}).msg = m
    BY DEF Parsed
  <1>4. QED
    BY <1>1, <1>2, <1>3 DEF SignedShape, CreatedBy

LEMMA OwnIsReadBack ==
    ASSUME Inv, NEW c \in Clients, NEW m \in OwnSigned(c)
    PROVE  ReadBack(m) = m
  BY OwnIsKept DEF Inv, MadeShape

LEMMA AgreementHolds == ASSUME Inv PROVE AgreementInv
  <1>1. ValidStatesAgree
    <2> SUFFICES ASSUME NEW c \in Clients, NEW d \in Clients, c # d,
                        NEW m \in (OwnSigned(c) \cap OwnSigned(d))
                                    \ (CreatedBy(c) \cap CreatedBy(d)),
                        NEW n \in (OwnSigned(c) \cap OwnSigned(d))
                                    \ (CreatedBy(c) \cap CreatedBy(d)),
                        m.channel = n.channel /\ m.nonce = n.nonce
                 PROVE  m = n
      BY DEF ValidStatesAgree
    <2>1. PICK x \in Clients : m \in Kept(x) \ CreatedBy(x)
      BY OwnIsKept
    <2>2. PICK y \in Clients : n \in Kept(y) \ CreatedBy(y)
      BY OwnIsKept
    <2>3. QED
      BY <2>1, <2>2 DEF Inv, KeptAgree, SameSlot
  <1>2. OneMessagePerNonce
    <2> SUFFICES ASSUME Orderly, NEW c \in Clients, NEW m \in OwnSigned(c),
                        NEW n \in OwnSigned(c),
                        m.channel = n.channel /\ m.nonce = n.nonce
                 PROVE  m = n
      BY DEF OneMessagePerNonce
    <2>1. MadeOnce
      BY DEF Inv, OrderlyShape
    <2>2. PICK e \in made : e.msg = m
      BY OwnIsKept
    <2>3. PICK f \in made : f.msg = n
      BY OwnIsKept
    <2>4. QED
      BY <2>1, <2>2, <2>3 DEF MadeOnce, SameSlot
  <1>3. QED
    BY <1>1, <1>2, TypesHold DEF AgreementInv

\* A nonce stands for one state of its channel, however the calls of the
\* clients (handleMessage, createNewMessage, signAndSaveMessage) overlap and
\* whatever the network loses, repeats and reorders, while messages are read
\* back as they were made.
THEOREM NoncesAgree == Spec => []AgreementInv
  <1>1. (Readable => Inv) => AgreementInv
    BY AgreementHolds DEF AgreementInv
  <1>2. QED
    BY <1>1, ShapesAreKept, PTL

-----------------------------------------------------------------------------
(***************************************************************************)
(* What is decided about an exit claim.                                    *)
(***************************************************************************)
\* What a claim says of its maker: it has signed nothing of a higher nonce.
NothingNewer(x, bound) ==
    ForAllSuchThat(MessagesSignedBy(x, AnyChannel),
                   [kind |-> "nonceLessThan", bound |-> bound])

SignedOf(k, x) == {s.msg : s \in {r \in k.signed : r.by = x}}

LEMMA DecideNothingNewer ==
    ASSUME NEW k, NEW x, NEW bound
    PROVE  LET decisions == [m \in SignedOf(k, x) |->
                                DecideNonceLessThan(NonceLessThan(ReadBack(m), bound))]
           IN  \E complete \in BOOLEAN :
                  DecideFlat(k, NothingNewer(x, bound)) =
                  DecideForAll(NothingNewer(x, bound), decisions, complete)
  <1> DEFINE q == NothingNewer(x, bound)
             values == SignedOf(k, x)
             complete == AllResultsQuantified(k.me, q.quantifier)
  <1>1. /\ q.kind = "forAll"
        /\ q.quantifier.kind = "signed"
        /\ q.quantifier.address = x /\ q.quantifier.channel = 0
        /\ q.factory = [kind |-> "nonceLessThan", bound |-> bound]
    BY DEF NothingNewer, ForAllSuchThat, MessagesSignedBy, AnyChannel
  <1>2. Quantified(k.signed, q.quantifier) = values
    BY <1>1 DEF Quantified, SignedOf, AnyChannel
  <1>3. \A v : DecideSimple(k, Instance(q.factory, v))
                 = DecideNonceLessThan(NonceLessThan(ReadBack(v), bound))
    BY <1>1 DEF DecideSimple, Instance, NonceLessThan
  <1>4. complete \in BOOLEAN
    BY DEF AllResultsQuantified
  <1> DEFINE instances == [v \in values |-> Instance(q.factory, v)]
             decided == [i \in DOMAIN instances |-> DecideSimple(k, instances[i])]
  <1>5. decided = [m \in values |-> DecideNonceLessThan(NonceLessThan(ReadBack(m), bound))]
    <2> HIDE DEF q, values
    <2>1. QED BY <1>3
  <1>6. DecideFlat(k, q) = DecideForAll(q, decided, complete)
    <2> HIDE DEF q, values
    <2>1. QED BY <1>1, <1>2 DEF DecideFlat, DecideCompound, Simple
  <1>7. QED
    BY <1>4, <1>5, <1>6

\* What all of some decisions come to.
LEMMA AllOf ==
    ASSUME NEW p, NEW decisions, NEW complete \in BOOLEAN,
           \A d \in Range(decisions) : d.outcome \in {"yes", "no", "unknown"}
    PROVE  LET all == Combined(p, decisions, complete, "no", "yes")
           IN  /\ all.outcome \in {"yes", "no", "unknown"}
               /\ all.outcome = "no" =>
                     \E d \in Range(decisions) :
                        /\ d.outcome = "no"
                        /\ all.justification = {p} \cup d.justification
               /\ all.outcome = "yes" =>
                     /\ \A d \in Range(decisions) : d.outcome = "yes"
                     /\ complete
  <1> DEFINE found == {d \in Range(decisions) : d.outcome = "no"}
             all == Combined(p, decisions, complete, "no", "yes")
  <1>1. CASE found # {}
    <2>1. (CHOOSE d \in found : TRUE) \in found
      BY <1>1
    <2>2. all = Decision("no", {p} \cup (CHOOSE d \in found : TRUE).justification)
      BY <1>1 DEF Combined
    <2>3. /\ all.outcome = "no"
          /\ all.justification = {p} \cup (CHOOSE d \in found : TRUE).justification
      BY <2>2 DEF Decision
    <2>4. QED
      BY <2>1, <2>3
  <1>2. CASE found = {} /\ (~complete \/ \E d \in Range(decisions) : d.outcome = "unknown")
    <2>1. all = CannotDecide
      BY <1>2 DEF Combined
    <2>2. QED
      BY <2>1 DEF CannotDecide, Decision
  <1>3. CASE found = {} /\ ~(~complete \/ \E d \in Range(decisions) : d.outcome = "unknown")
    <2>1. all.outcome = "yes"
      BY <1>3 DEF Combined, Decision
    <2>2. QED
      BY <1>3, <2>1
  <1>4. QED
    BY <1>1, <1>2, <1>3

\* What any of some decisions come to.
LEMMA AnyOf ==
    ASSUME NEW p, NEW decisions, NEW complete \in BOOLEAN,
           \A d \in Range(decisions) : d.outcome \in {"yes", "no", "unknown"}
    PROVE  LET all == Combined(p, decisions, complete, "yes", "no")
           IN  /\ all.outcome \in {"yes", "no", "unknown"}
               /\ all.outcome = "yes" =>
                     \E d \in Range(decisions) : d.outcome = "yes"
               /\ all.outcome = "no" =>
                     /\ \A d \in Range(decisions) : d.outcome = "no"
                     /\ complete
  <1> DEFINE found == {d \in Range(decisions) : d.outcome = "yes"}
             all == Combined(p, decisions, complete, "yes", "no")
  <1>1. CASE found # {}
    <2>1. all.outcome = "yes"
      BY <1>1 DEF Combined, Decision
    <2>2. QED
      BY <1>1, <2>1
  <1>2. CASE found = {} /\ (~complete \/ \E d \in Range(decisions) : d.outcome = "unknown")
    <2>1. all = CannotDecide
      BY <1>2 DEF Combined
    <2>2. QED
      BY <2>1 DEF CannotDecide, Decision
  <1>3. CASE found = {} /\ ~(~complete \/ \E d \in Range(decisions) : d.outcome = "unknown")
    <2>1. all.outcome = "no"
      BY <1>3 DEF Combined, Decision
    <2>2. QED
      BY <1>3, <2>1
  <1>4. QED
    BY <1>1, <1>2, <1>3

LEMMA NonceDecision ==
    ASSUME NEW m, NEW bound
    PROVE  LET d == DecideNonceLessThan(NonceLessThan(m, bound))
           IN  /\ d.outcome = IF m.nonce < bound THEN "yes" ELSE "no"
               /\ d.justification = {NonceLessThan(m, bound)}
  BY DEF DecideNonceLessThan, NonceLessThan, Decision

LEMMA NothingNewerDecided ==
    ASSUME NEW k, NEW x, NEW bound
    PROVE  LET q == NothingNewer(x, bound)
               decision == DecideFlat(k, q)
           IN  /\ decision.outcome \in {"yes", "no", "unknown"}
               /\ decision.outcome = "no" =>
                     \E m \in SignedOf(k, x) :
                        /\ ~(ReadBack(m).nonce < bound)
                        /\ decision.justification = {q, NonceLessThan(ReadBack(m), bound)}
               /\ decision.outcome = "yes" =>
                     \A m \in SignedOf(k, x) : ReadBack(m).nonce < bound
  <1> DEFINE q == NothingNewer(x, bound)
             decisions == [m \in SignedOf(k, x) |->
                              DecideNonceLessThan(NonceLessThan(ReadBack(m), bound))]
  <1>1. PICK complete \in BOOLEAN :
           DecideFlat(k, q) = Combined(q, decisions, complete, "no", "yes")
    BY DecideNothingNewer DEF DecideForAll
  <1>2. \A d \in Range(decisions) : \E m \in SignedOf(k, x) :
           d = DecideNonceLessThan(NonceLessThan(ReadBack(m), bound))
    BY DEF Range
  <1>3. \A m \in SignedOf(k, x) :
           DecideNonceLessThan(NonceLessThan(ReadBack(m), bound)) \in Range(decisions)
    BY DEF Range
  <1>4. \A d \in Range(decisions) : d.outcome \in {"yes", "no", "unknown"}
    BY <1>2, NonceDecision
  <1> HIDE DEF q, decisions
  <1>5. LET all == Combined(q, decisions, complete, "no", "yes")
        IN  /\ all.outcome \in {"yes", "no", "unknown"}
            /\ all.outcome = "no" =>
                  \E d \in Range(decisions) :
                     /\ d.outcome = "no"
                     /\ all.justification = {q} \cup d.justification
            /\ all.outcome = "yes" =>
                  \A d \in Range(decisions) : d.outcome = "yes"
    BY <1>4, AllOf
  <1>6. ASSUME DecideFlat(k, q).outcome = "no"
        PROVE  \E m \in SignedOf(k, x) :
                  /\ ~(ReadBack(m).nonce < bound)
                  /\ DecideFlat(k, q).justification = {q, NonceLessThan(ReadBack(m), bound)}
    <2>1. PICK d \in Range(decisions) :
             /\ d.outcome = "no"
             /\ DecideFlat(k, q).justification = {q} \cup d.justification
      BY <1>1, <1>5, <1>6
    <2>2. PICK m \in SignedOf(k, x) : d = DecideNonceLessThan(NonceLessThan(ReadBack(m), bound))
      BY <1>2
    <2>3. ~(ReadBack(m).nonce < bound) /\ d.justification = {NonceLessThan(ReadBack(m), bound)}
      BY <2>1, <2>2, NonceDecision
    <2>4. QED
      BY <2>1, <2>3
  <1>7. ASSUME DecideFlat(k, q).outcome = "yes", NEW m \in SignedOf(k, x)
        PROVE  ReadBack(m).nonce < bound
    BY <1>1, <1>3, <1>5, <1>7, NonceDecision
  <1>8. QED
    BY <1>1, <1>5, <1>6, <1>7 DEF q

LEMMA SignedByDecided ==
    ASSUME NEW k, NEW x, NEW m
    PROVE  LET decision == DecideFlat(k, SignedBy(x, m))
           IN  /\ decision.outcome \in {"yes", "no", "unknown"}
               /\ decision.outcome = "no" =>
                     x = k.me /\ SignedMessage(x, m) \notin k.signed
  BY DEF DecideFlat, Simple, DecideSimple, DecideSignedBy, SignedBy,
         CannotDecide, Decision

\* What is decided about an exit claim: it is refuted with a newer message of
\* its maker, unless its counterparty says that it has not signed.
LEMMA ClaimDecided ==
    ASSUME NEW k, NEW claim
    PROVE  LET decision == Decide(k, ExitClaim(claim))
               bound == claim.msg.nonce + 1
           IN  /\ decision.outcome = "yes" =>
                     \A m \in SignedOf(k, claim.by) : ReadBack(m).nonce < bound
               /\ decision.outcome = "no" =>
                     \/ /\ claim.against = k.me
                        /\ SignedMessage(claim.against, claim.msg) \notin k.signed
                     \/ \E m \in SignedOf(k, claim.by) :
                           /\ ~(ReadBack(m).nonce < bound)
                           /\ decision.justification =
                                 {ExitClaim(claim), NothingNewer(claim.by, bound),
                                  NonceLessThan(ReadBack(m), bound)}
  <1> DEFINE bound == claim.msg.nonce + 1
             a == SignedBy(claim.against, claim.msg)
             q == NothingNewer(claim.by, bound)
             p == ExitClaim(claim)
             decisions == [i \in DOMAIN <<a, q>> |-> DecideFlat(k, <<a, q>>[i])]
  <1>1. p.kind = "and" /\ p.properties = <<a, q>>
    BY DEF ExitClaim, And, NothingNewer
  <1>2. Decide(k, p) = Combined(p, decisions, TRUE, "no", "yes")
    <2> HIDE DEF p, a, q
    <2>1. QED
      BY <1>1 DEF Decide, DecideCompound, Simple, DecideAnd
  <1>3. Range(decisions) = {DecideFlat(k, a), DecideFlat(k, q)}
    <2> HIDE DEF p, a, q
    <2>1. DOMAIN <<a, q>> = {1, 2} /\ <<a, q>>[1] = a /\ <<a, q>>[2] = q
      OBVIOUS
    <2>2. QED
      BY <2>1 DEF Range
  <1>4. DecideFlat(k, a).outcome \in {"yes", "no", "unknown"}
        /\ (DecideFlat(k, a).outcome = "no" =>
              claim.against = k.me /\ SignedMessage(claim.against, claim.msg) \notin k.signed)
    BY SignedByDecided
  <1>5. /\ DecideFlat(k, q).outcome \in {"yes", "no", "unknown"}
        /\ DecideFlat(k, q).outcome = "no" =>
              \E m \in SignedOf(k, claim.by) :
                 /\ ~(ReadBack(m).nonce < bound)
                 /\ DecideFlat(k, q).justification = {q, NonceLessThan(ReadBack(m), bound)}
        /\ DecideFlat(k, q).outcome = "yes" =>
              \A m \in SignedOf(k, claim.by) : ReadBack(m).nonce < bound
    BY NothingNewerDecided
  <1> HIDE DEF p, a, q, decisions, bound
  <1>6. LET all == Combined(p, decisions, TRUE, "no", "yes")
        IN  /\ all.outcome \in {"yes", "no", "unknown"}
            /\ all.outcome = "no" =>
                  \E d \in Range(decisions) :
                     /\ d.outcome = "no"
                     /\ all.justification = {p} \cup d.justification
            /\ all.outcome = "yes" =>
                  \A d \in Range(decisions) : d.outcome = "yes"
    BY <1>3, <1>4, <1>5, AllOf
  <1>7. Decide(k, p).outcome = "yes" => \A m \in SignedOf(k, claim.by) : ReadBack(m).nonce < bound
    BY <1>2, <1>3, <1>5, <1>6
  <1>8. ASSUME Decide(k, p).outcome = "no"
        PROVE  \/ /\ claim.against = k.me
                  /\ SignedMessage(claim.against, claim.msg) \notin k.signed
               \/ \E m \in SignedOf(k, claim.by) :
                     /\ ~(ReadBack(m).nonce < bound)
                     /\ Decide(k, p).justification = {p, q, NonceLessThan(ReadBack(m), bound)}
    <2>1. PICK d \in {DecideFlat(k, a), DecideFlat(k, q)} :
             /\ d.outcome = "no"
             /\ Decide(k, p).justification = {p} \cup d.justification
      BY <1>2, <1>3, <1>6, <1>8
    <2>2. CASE d = DecideFlat(k, a)
      BY <1>4, <2>1, <2>2
    <2>3. CASE d = DecideFlat(k, q)
      <3>1. PICK m \in SignedOf(k, claim.by) :
               /\ ~(ReadBack(m).nonce < bound) /\ d.justification = {q, NonceLessThan(ReadBack(m), bound)}
        BY <1>5, <2>1, <2>3
      <3>2. QED
        BY <2>1, <3>1
    <2>4. QED
      BY <2>1, <2>2, <2>3
  <1>9. QED
    BY <1>7, <1>8 DEF p, q, bound

-----------------------------------------------------------------------------
(***************************************************************************)
(* Exit claims that stand.                                                 *)
(***************************************************************************)
Binds(claim) == claim.upheld /\ KeepsOnly(claim.by, claim.msg)

UpheldOf(claim) ==
    /\ claim.msg.channel \in exited[claim.by]
    /\ \A m \in OwnSigned(claim.by) : m.nonce <= claim.msg.nonce
    /\ \A t \in Calls(claim.by) :
          t.at = "sign" => t.parsed.msg.nonce <= claim.msg.nonce

\* A step of c that signs nothing, and goes on to sign nothing, which is newer
\* than what c has exited with.
LEMMA StillUpheld ==
    ASSUME Inv, UpheldShape, Grows, NEW c \in Clients, NEW old, NEW new,
           CallsStep(c, old, new),
           \A d \in Clients : d # c => signed'[d] = signed[d],
           NEW claim \in claims, Binds(claim)',
           claim.by = c /\ Binds(claim) /\ UpheldOf(claim) =>
              /\ \A m \in OwnSigned(c)' :
                    m \in OwnSigned(c) \/ m.nonce <= claim.msg.nonce
              /\ \A t \in new : t.at = "sign" =>
                    t.parsed.msg.nonce <= claim.msg.nonce
    PROVE  UpheldOf(claim)'
  <1>1. claim.by \in Clients
    BY DEF Inv, Shapes, ClaimShape
  <1>2. Binds(claim)
    BY <1>1 DEF Binds, KeepsOnly, Grows
  <1>3. UpheldOf(claim)
    BY <1>2 DEF UpheldShape, UpheldOf, Binds
  <1>4. claim.msg.channel \in exited'[claim.by]
    BY <1>1, <1>3 DEF UpheldOf, Grows
  <1>5. CASE claim.by = c
    <2>1. \A m \in OwnSigned(c)' : m.nonce <= claim.msg.nonce
      BY <1>2, <1>3, <1>5 DEF UpheldOf
    <2>2. \A t \in Calls(c)' : t.at = "sign" => t.parsed.msg.nonce <= claim.msg.nonce
      BY <1>2, <1>3, <1>5 DEF UpheldOf, CallsStep
    <2>3. QED
      BY <1>4, <1>5, <2>1, <2>2 DEF UpheldOf
  <1>6. CASE claim.by # c
    <2>1. signed'[claim.by] = signed[claim.by] /\ Calls(claim.by)' = Calls(claim.by)
      BY <1>1, <1>6 DEF CallsStep
    <2>2. QED
      BY <1>3, <1>4, <2>1 DEF UpheldOf, OwnSigned
  <1>7. QED
    BY <1>5, <1>6

LEMMA UpheldParts ==
    ASSUME \A claim \in claims' : Binds(claim)' => UpheldOf(claim)'
    PROVE  UpheldShape'
  BY DEF Binds, UpheldOf, UpheldShape

\* What a claim is about is numbered, and kept.
LEMMA ClaimFacts ==
    ASSUME Inv, NEW claim \in claims
    PROVE  /\ claim.by \in Clients /\ claim.msg \in Kept(claim.by)
           /\ claim.msg.nonce \in Nat /\ 1 <= claim.msg.nonce
  <1>1. ClaimShape(claim)
    BY DEF Inv, Shapes
  <1>2. PICK k \in store[claim.by] : k.msg = claim.msg
    BY <1>1 DEF ClaimShape, Kept
  <1>3. QED
    BY <1>1, <1>2, InvGivesDbInv, KeptIsMade DEF ClaimShape

\* A step that leaves what is signed alone and begins to sign no newer one.
LEMMA UnsignedUpheld ==
    ASSUME Inv, UpheldShape, Inv', UNCHANGED <<db, made, claims>>,
           sent \subseteq sent',
           NEW c \in Clients, NEW old, NEW new, CallsStep(c, old, new),
           \A claim \in claims : claim.by = c /\ Binds(claim) /\ UpheldOf(claim) =>
              \A t \in new : t.at = "sign" => t.parsed.msg.nonce <= claim.msg.nonce
    PROVE  UpheldShape'
  <1>1. Grows
    BY DEF Grows, db, Kept
  <1>2. \A d \in Clients : signed'[d] = signed[d] /\ OwnSigned(d)' = OwnSigned(d)
    BY DEF db, OwnSigned
  <1>3. \A claim \in claims : Binds(claim)' => UpheldOf(claim)'
    BY <1>1, <1>2, StillUpheld
  <1>4. QED
    BY <1>3, UpheldParts

\* A step that stores a message, with a signature of c only if c has signed it
\* before or is about to.
LEMMA StoringUpheld ==
    ASSUME Inv, UpheldShape, NEW c \in Clients, NEW m \in ParsedMessages,
           StoreMessage(c, m), sent \subseteq sent', UNCHANGED <<exited, made, claims>>,
           NEW old, NEW new, CallsStep(c, old, new),
           c \in m.signers =>
              \/ SignedMessage(c, m.msg) \in signed[c]
              \/ \E t \in Calls(c) : t.at = "sign" /\ t.parsed.msg = m.msg,
           \A t \in new : t.at = "sign" => t.parsed.msg.nonce = 1
    PROVE  UpheldShape'
  <1>1. StoreStep(c, m)
    BY InvGivesDbInv, StoreMessageStep
  <1>2. Grows /\ \A d \in Clients : d # c => signed'[d] = signed[d]
    BY <1>1, StoreStepGrows DEF StoreStep
  <1>3. ASSUME NEW claim \in claims, claim.by = c, UpheldOf(claim)
        PROVE  /\ \A n \in OwnSigned(c)' :
                     n \in OwnSigned(c) \/ n.nonce <= claim.msg.nonce
               /\ \A t \in new : t.at = "sign" =>
                     t.parsed.msg.nonce <= claim.msg.nonce
    <2>1. \A t \in new : t.at = "sign" => t.parsed.msg.nonce <= claim.msg.nonce
      BY ClaimFacts
    <2>2. ASSUME NEW n \in OwnSigned(c)', n \notin OwnSigned(c)
          PROVE  n.nonce <= claim.msg.nonce
      <3>1. PICK s \in signed'[c] : s.by = c /\ s.msg = n
        BY <2>2 DEF OwnSigned
      <3>2. s \notin signed[c]
        BY <2>2, <3>1 DEF OwnSigned
      <3>3. PICK q \in m.signers : s = SignedMessage(q, m.msg)
        BY <1>1, <3>1, <3>2 DEF StoreStep
      <3>4. q = c /\ n = m.msg
        BY <3>1, <3>3 DEF SignedMessage
      <3>5. PICK t \in Calls(c) : t.at = "sign" /\ t.parsed.msg = m.msg
        BY <3>2, <3>3, <3>4
      <3>6. QED
        BY <1>3, <3>4, <3>5 DEF UpheldOf
    <2>3. QED
      BY <2>1, <2>2
  <1>4. \A claim \in claims : Binds(claim)' => UpheldOf(claim)'
    BY <1>2, <1>3, StillUpheld
  <1>5. QED
    BY <1>4, UpheldParts

\* In the one channel that it has exited, c creates and accepts no message.
LEMMA ExitedIsOnly ==
    ASSUME Inv, NEW claim \in claims, Binds(claim), UpheldOf(claim),
           NEW k \in Kept(claim.by)
    PROVE  k.channel \in exited[claim.by]
  BY DEF Binds, UpheldOf, KeepsOnly

LEMMA CreateNewMessageUpheld ==
    ASSUME Inv, UpheldShape, NEW c \in Clients, NEW d \in Clients \ {c}, NEW data,
           CreateNewMessage(c, d, data)
    PROVE  UpheldShape'
  <1>1. PICK msg \in NextMessages(c, d, data) :
           Begin(c, Task("sign", Parsed(c, d, msg, {})))
    BY DEF CreateNewMessage
  <1> DEFINE t == Task("sign", Parsed(c, d, msg, {}))
  <1>2. t.parsed.msg = msg
    BY DEF Task, Parsed
  <1> HIDE DEF t
  <1>3. CallsStep(c, {}, {t})
    <2>1. UNCHANGED sent
      BY DEF CreateNewMessage
    <2>2. QED
      BY <1>1, <2>1, SameTypes, BeginCalls DEF t
  <1>4. DbInv /\ data \in Nat /\ created \in Nat
    <2>1. created \in Nat /\ created < Len(Balances) /\ data \in Balances[created + 1]
      BY DEF CreateNewMessage, Inv, MadeShape
    <2>2. QED
      BY <2>1, InvGivesDbInv
  <1>5. ASSUME NEW claim \in claims, claim.by = c, Binds(claim), UpheldOf(claim)
        PROVE  msg.nonce <= claim.msg.nonce
    <2>1. \/ Opens(msg, data)
          \/ \E last \in store[c] : Succeeds(c, d, msg, data, last)
      BY <1>1, <1>4, NextMessageOf
    <2>2. CASE Opens(msg, data)
      <3>1. msg.nonce = 1
        BY <1>4, <2>2, MessageOf DEF Opens
      <3>2. QED
        BY <3>1, ClaimFacts
    <2>3. CASE \E last \in store[c] : Succeeds(c, d, msg, data, last)
      BY <1>5, <2>3, ExitedIsOnly DEF Succeeds, Kept
    <2>4. QED
      BY <2>1, <2>2, <2>3
  <1>6. Grows /\ UNCHANGED <<signed, claims>>
    BY DEF CreateNewMessage, db, Grows, Kept
  <1>7. \A claim \in claims : Binds(claim)' => UpheldOf(claim)'
    BY <1>2, <1>3, <1>5, <1>6, StillUpheld DEF OwnSigned
  <1>8. QED
    BY <1>6, <1>7, UpheldParts

LEMMA CheckNewMessageUpheld ==
    ASSUME Inv, UpheldShape, Inv', NEW c \in Clients, NEW t \in Calls(c),
           CheckNewMessage(c, t)
    PROVE  UpheldShape'
  <1>1. UNCHANGED <<db, made, claims>> /\ UNCHANGED sent /\ sent \subseteq sent'
    BY DEF CheckNewMessage
  <1>2. CASE Acceptable(c, t.parsed.msg)
    <2> DEFINE u == Task("sign", t.parsed)
    <2>1. CallsStep(c, {t}, {u})
      BY <1>1, <1>2, SameTypes, GoOnCalls DEF CheckNewMessage
    <2>2. PICK k \in Kept(c) : k.channel = t.parsed.msg.channel
      BY <1>2 DEF Acceptable, Follows, ValidIn, Kept
    <2>3. \A claim \in claims : ~(claim.by = c /\ Binds(claim) /\ UpheldOf(claim))
      BY <1>2, <2>2, ExitedIsOnly DEF Acceptable
    <2> HIDE DEF u
    <2>4. QED
      BY <1>1, <2>1, <2>3, UnsignedUpheld
  <1>3. CASE ~Acceptable(c, t.parsed.msg)
    <2>1. CallsStep(c, {t}, {})
      BY <1>1, <1>3, SameTypes, EndCalls DEF CheckNewMessage
    <2>2. QED
      BY <1>1, <2>1, UnsignedUpheld
  <1>4. QED
    BY <1>2, <1>3

LEMMA BeginUpheld ==
    ASSUME Inv, UpheldShape, Inv', UNCHANGED <<db, sent, claims, made>>,
           NEW c \in Clients, NEW t, t.at # "sign", Begin(c, t)
    PROVE  UpheldShape'
  <1>1. CallsStep(c, {}, {t})
    BY SameTypes, BeginCalls
  <1>2. QED
    BY <1>1, UnsignedUpheld

LEMMA HandleMessageUpheld ==
    ASSUME Inv, UpheldShape, Inv', NEW c \in Clients, NEW n \in sent,
           HandleMessage(c, n)
    PROVE  UpheldShape'
  <1> DEFINE t == Task("store", Parsed(n.by, c, n.msg, {n.by}))
  <1>1. t.at # "sign"
    BY DEF Task
  <1>2. Begin(c, t) /\ UNCHANGED <<db, sent, claims, made>>
    BY DEF HandleMessage
  <1> HIDE DEF t
  <1>3. QED
    BY <1>1, <1>2, BeginUpheld

LEMMA ExitChannelUpheld ==
    ASSUME Inv, UpheldShape, Inv', NEW c \in Clients, NEW d \in Clients \ {c},
           ExitChannel(c, d)
    PROVE  UpheldShape'
  <1>1. PICK channel \in Channels(c, d) : \E claim \in Claims(c, channel, d) :
           Begin(c, Marking(channel, claim))
    BY DEF ExitChannel
  <1>2. PICK claim \in Claims(c, channel, d) : Begin(c, Marking(channel, claim))
    BY <1>1
  <1>3. Marking(channel, claim).at # "sign"
    BY DEF Marking
  <1>4. QED
    BY <1>2, <1>3, BeginUpheld DEF ExitChannel

LEMMA HandleChannelExitUpheld ==
    ASSUME Inv, UpheldShape, Inv', NEW c \in Clients, NEW claim \in claims,
           HandleChannelExit(c, claim)
    PROVE  UpheldShape'
  <1>1. Marking(claim.msg.channel, NoClaim).at # "sign"
    BY DEF Marking
  <1>2. QED
    BY <1>1, BeginUpheld DEF HandleChannelExit

\* Who upholds its own claim has signed nothing newer by then, and nothing that
\* it is about to sign is under way.
LEMMA MarkChannelExitedUpheld ==
    ASSUME Inv, UpheldShape, Inv', NEW c \in Clients, NEW t \in Calls(c),
           MarkChannelExited(c, t)
    PROVE  UpheldShape'
  <1>1. /\ t.at = "mark" /\ End(c, t)
        /\ exited' = [exited EXCEPT ![c] = exited[c] \cup {t.channel}]
        /\ UNCHANGED <<store, conflicts, signed, sent, created, made, exits, mishaps>>
    BY DEF MarkChannelExited
  <1>2. IsExit(c, t) /\ exited \in [Clients -> SUBSET Nat]
    <2>1. CallShape(c, t)
      BY DEF Inv, Shapes
    <2>2. QED
      BY <1>1, <2>1 DEF CallShape, IsCreation, IsReception, Inv, DbType
  <1>3. Grows /\ \A d \in Clients : OwnSigned(d)' = OwnSigned(d)
    BY <1>1, <1>2 DEF Grows, Kept, OwnSigned
  <1>4. /\ CallsStep(c, {t}, {})
        /\ tasks[c] = SetToBag({t}) => Calls(c)' = {}
    BY <1>1, SameTypes, EndCalls
  <1>5. ASSUME NEW claim \in claims', Binds(claim)' PROVE UpheldOf(claim)'
    <2>1. CASE claim \in claims
      BY <1>1, <1>3, <1>4, <1>5, <2>1, StillUpheld
    <2>2. CASE claim \notin claims
      <3>1. /\ t.claim # NoClaim
            /\ claim = [t.claim EXCEPT !.upheld = Upheld(c, t.claim, t)]
        BY <2>2 DEF MarkChannelExited
      <3>2. ClaimShape(t.claim) /\ t.claim.by = c /\ t.claim.msg.channel = t.channel
        BY <1>2, <3>1 DEF IsExit
      <3>3. /\ claim.by = c /\ claim.msg = t.claim.msg
            /\ claim.upheld = Upheld(c, t.claim, t)
        BY <3>1, <3>2 DEF ClaimShape
      <3>4. Upheld(c, t.claim, t)
        BY <1>5, <3>3 DEF Binds
      <3>5. Calls(c)' = {}
        BY <1>4, <3>4 DEF Upheld
      <3>6. claim.msg.channel \in exited'[c]
        BY <1>1, <1>2, <3>2, <3>3
      <3>7. ASSUME NEW m \in OwnSigned(c) PROVE m.nonce <= claim.msg.nonce
        <4>1. Decide(Knowledge(c), ExitClaim(t.claim)).outcome = "yes"
          BY <3>4 DEF Upheld
        <4>2. m \in SignedOf(Knowledge(c), t.claim.by)
          BY <3>2 DEF SignedOf, Knowledge, OwnSigned
        <4>3. m.nonce < t.claim.msg.nonce + 1
          <5>1. ReadBack(m).nonce < t.claim.msg.nonce + 1
            BY <4>1, <4>2, ClaimDecided
          <5>2. QED
            BY <5>1, OwnIsReadBack
        <4>4. m.nonce \in Nat
          BY DEF OwnSigned, Inv, DbType, Messages
        <4>5. t.claim.msg.nonce \in Nat
          <5>1. PICK k \in store[c] : k.msg = t.claim.msg
            BY <3>2 DEF ClaimShape, Kept
          <5>2. QED
            BY <5>1, InvGivesDbInv, KeptIsMade
        <4>6. QED
          BY <3>3, <4>3, <4>4, <4>5
      <3>8. QED
        BY <1>3, <3>3, <3>5, <3>6, <3>7 DEF UpheldOf
    <2>3. QED
      BY <2>1, <2>2
  <1>6. QED
    BY <1>5, UpheldParts

LEMMA SignAndSaveMessageUpheld ==
    ASSUME Inv, UpheldShape, Inv', NEW c \in Clients, NEW t \in Calls(c),
           SignAndSaveMessage(c, t)
    PROVE  UpheldShape'
  <1> DEFINE m == WithSignature(t.parsed, c)
  <1>1. /\ t.at = "sign" /\ StoreMessage(c, m) /\ End(c, t)
        /\ UNCHANGED <<exited, claims, made>> /\ sent \subseteq sent'
    BY DEF SignAndSaveMessage
  <1>2. m \in ParsedMessages /\ m.msg = t.parsed.msg
    <2>1. t.parsed \in ParsedMessages
      BY <1>1, InvGivesDbInv, CallFacts
    <2>2. QED
      BY <2>1, WithSignatureOf
  <1> HIDE DEF m
  <1>3. CallsStep(c, {t}, {})
    BY <1>1, EndCalls DEF Inv, TasksType
  <1>4. QED
    BY <1>1, <1>2, <1>3, StoringUpheld

LEMMA StoreReceivedUpheld ==
    ASSUME Inv, UpheldShape, Inv', NEW c \in Clients, NEW t \in Calls(c),
           StoreReceived(c, t)
    PROVE  UpheldShape'
  <1> DEFINE m == t.parsed
             u == Task(IF m.msg.nonce = 1 THEN "sign" ELSE "check", m)
  <1>1. /\ t.at = "store" /\ StoreMessage(c, m)
        /\ IF Rejected(c, m) \/ ~Valid(m) THEN End(c, t) ELSE GoOn(c, t, u)
        /\ UNCHANGED <<exited, sent, claims, made>> /\ sent \subseteq sent'
    BY DEF StoreReceived
  <1>2. m \in ParsedMessages /\ Origin(m) \in made /\ IsReception(c, t)
    BY <1>1, InvGivesDbInv, CallFacts DEF IsCreation
  <1>3. c \notin m.signers
    BY <1>2, InvGivesDbInv, SameParties DEF IsReception, DbInv
  <1>4. u.at = "sign" => u.parsed.msg.nonce = 1
    BY DEF Task
  <1> HIDE DEF m, u
  <1>5. CASE Rejected(c, m) \/ ~Valid(m)
    <2>1. CallsStep(c, {t}, {})
      BY <1>1, <1>5, SameTypes, EndCalls
    <2>2. QED
      BY <1>1, <1>2, <1>3, <2>1, StoringUpheld
  <1>6. CASE ~(Rejected(c, m) \/ ~Valid(m))
    <2>1. CallsStep(c, {t}, {u})
      BY <1>1, <1>6, SameTypes, GoOnCalls
    <2>2. QED
      BY <1>1, <1>2, <1>3, <1>4, <2>1, StoringUpheld
  <1>7. QED
    BY <1>5, <1>6

LEMMA HandleKnownMessageUpheld ==
    ASSUME Inv, UpheldShape, Inv', NEW c \in Clients, NEW n \in sent,
           HandleKnownMessage(c, n)
    PROVE  UpheldShape'
  <1>1. /\ n.to = c
        /\ UNCHANGED <<exited, tasks, sent, claims, made>> /\ sent \subseteq sent'
    BY DEF HandleKnownMessage, IsKnown
  <1>2. PICK q \in SameNonce(c, n.msg) :
           StoreMessage(c, IF q.msg = n.msg THEN WithSignature(q, n.by)
                           ELSE Parsed(n.by, c, n.msg, {n.by}))
    BY DEF HandleKnownMessage
  <1>3. /\ n.by \in Clients /\ n.by # c /\ n.msg \in Messages
        /\ q \in store[c] /\ q \in ParsedMessages /\ StoredShape(c, q)
    BY <1>1, InvGivesDbInv, KeptIsMade
       DEF Inv, TasksType, Shapes, SentShape, SameNonce
  <1>4. CallsStep(c, {}, {})
    BY <1>1, SameTypes, SameCalls
  <1>5. CASE q.msg = n.msg
    <2> DEFINE m == WithSignature(q, n.by)
    <2>1. m \in ParsedMessages /\ m.msg = q.msg /\ m.signers = q.signers \cup {n.by}
      BY <1>3, WithSignatureOf
    <2>2. StoreMessage(c, m)
      BY <1>2, <1>5
    <2> HIDE DEF m
    <2>3. c \in m.signers => SignedMessage(c, m.msg) \in signed[c]
      BY <1>3, <2>1 DEF StoredShape
    <2>4. QED
      BY <1>1, <1>4, <2>1, <2>2, <2>3, StoringUpheld
  <1>6. CASE q.msg # n.msg
    <2> DEFINE m == Parsed(n.by, c, n.msg, {n.by})
    <2>1. m \in ParsedMessages /\ c \notin m.signers
      BY <1>3 DEF Parsed, ParsedMessages
    <2>2. StoreMessage(c, m)
      BY <1>2, <1>6
    <2> HIDE DEF m
    <2>3. QED
      BY <1>1, <1>4, <2>1, <2>2, StoringUpheld
  <1>7. QED
    BY <1>5, <1>6

LEMMA NextUpheld ==
    ASSUME Inv, UpheldShape, [Next]_vars, Readable'
    PROVE  UpheldShape'
  <1>1. Inv'
    BY NextInv
  <1>2. CASE Next
    <2>1. PICK c \in Clients :
             \/ Receives(c)
             \/ GoesOn(c)
             \/ \E d \in Clients \ {c} :
                   \/ \E data \in UNION Range(Balances) : CreateNewMessage(c, d, data)
                   \/ ExitChannel(c, d)
             \/ \E claim \in claims : HandleChannelExit(c, claim)
      BY <1>2 DEF Next
    <2>2. CASE Receives(c)
      <3>1. PICK n \in sent : \/ HandleKnownMessage(c, Received(n))
                              \/ HandleMessage(c, Received(n))
        BY <2>2 DEF Receives
      <3>2. Received(n) = n
        BY ReceivedAsSent
      <3>3. QED
        BY <1>1, <3>1, <3>2, HandleKnownMessageUpheld, HandleMessageUpheld
    <2>3. CASE GoesOn(c)
      BY <1>1, <2>3, SignAndSaveMessageUpheld, StoreReceivedUpheld,
         CheckNewMessageUpheld, MarkChannelExitedUpheld DEF GoesOn
    <2>4. CASE \E d \in Clients \ {c} : \E data \in UNION Range(Balances) :
                  CreateNewMessage(c, d, data)
      BY <2>4, CreateNewMessageUpheld
    <2>5. CASE \E d \in Clients \ {c} : ExitChannel(c, d)
      BY <1>1, <2>5, ExitChannelUpheld
    <2>6. CASE \E claim \in claims : HandleChannelExit(c, claim)
      BY <1>1, <2>6, HandleChannelExitUpheld
    <2>7. QED
      BY <2>1, <2>2, <2>3, <2>4, <2>5, <2>6
  <1>3. CASE UNCHANGED vars
    BY <1>3 DEF vars, db, UpheldShape, KeepsOnly, Kept, OwnSigned, Calls
  <1>4. QED
    BY <1>2, <1>3

\* What is refuted about a claim, and with what.
LEMMA RefutedWith ==
    ASSUME Inv, NEW claim \in claims, NEW c \in Clients,
           Decide(Knowledge(c), ExitClaim(claim)).outcome = "no"
    PROVE  \E m \in OwnSigned(claim.by) :
              /\ m.nonce > claim.msg.nonce
              /\ Decide(Knowledge(c), ExitClaim(claim)).justification =
                    {ExitClaim(claim), NothingNewer(claim.by, claim.msg.nonce + 1),
                     NonceLessThan(m, claim.msg.nonce + 1)}
  <1>1. Knowledge(c).me = c /\ Knowledge(c).signed = signed[c]
    BY DEF Knowledge
  <1>2. SignedMessage(claim.against, claim.msg) \in signed[claim.against]
    <2>1. ClaimShape(claim)
      BY DEF Inv, Shapes
    <2>2. PICK s \in signed[claim.against] : s.by = claim.against /\ s.msg = claim.msg
      BY <2>1 DEF ClaimShape, OwnSigned
    <2>3. claim.against \in Clients /\ signed \in [Clients -> SUBSET [by : Clients, msg : Messages]]
      BY <2>1 DEF ClaimShape, Inv, DbType
    <2>4. s = SignedMessage(s.by, s.msg)
      BY <2>2, <2>3 DEF SignedMessage
    <2>5. QED
      BY <2>2, <2>4
  <1>3. PICK m \in SignedOf(Knowledge(c), claim.by) :
           /\ ~(ReadBack(m).nonce < claim.msg.nonce + 1)
           /\ Decide(Knowledge(c), ExitClaim(claim)).justification =
                 {ExitClaim(claim), NothingNewer(claim.by, claim.msg.nonce + 1),
                  NonceLessThan(ReadBack(m), claim.msg.nonce + 1)}
    BY <1>1, <1>2, ClaimDecided
  <1>4. PICK s \in signed[c] : s.by = claim.by /\ s.msg = m
    BY <1>1, <1>3 DEF SignedOf
  <1>5. m \in OwnSigned(claim.by)
    BY <1>4 DEF Inv, Shapes, SignedShape, OwnSigned
  <1>6. m.nonce \in Nat
    BY <1>4 DEF Inv, DbType, Messages
  <1>7. ReadBack(m) = m
    <2>1. claim.by \in Clients
      BY DEF Inv, Shapes, ClaimShape
    <2>2. QED
      BY <1>5, <2>1, OwnIsReadBack
  <1>8. QED
    BY <1>3, <1>5, <1>6, <1>7, ClaimFacts

LEMMA ExitsHold == ASSUME Inv, UpheldShape PROVE ExitsInv
  <1>1. UpheldExitsStand
    <2> SUFFICES ASSUME NEW claim \in claims,
                        claim.upheld /\ KeepsOnly(claim.by, claim.msg),
                        NEW c \in Clients,
                        Decide(Knowledge(c), ExitClaim(claim)).outcome = "no"
                 PROVE  FALSE
      BY DEF UpheldExitsStand
    <2>1. PICK m \in OwnSigned(claim.by) : m.nonce > claim.msg.nonce
      BY RefutedWith
    <2>2. m.nonce <= claim.msg.nonce
      BY DEF UpheldShape
    <2>3. m.nonce \in Nat /\ claim.msg.nonce \in Nat
      BY ClaimFacts DEF Inv, DbType, OwnSigned, Messages
    <2>4. QED
      BY <2>1, <2>2, <2>3
  <1>2. RefutationsAreNewer
    <2> SUFFICES ASSUME NEW claim \in claims, NEW c \in Clients,
                        Decide(Knowledge(c), ExitClaim(claim)).outcome = "no"
                 PROVE  LET decision == Decide(Knowledge(c), ExitClaim(claim))
                        IN  /\ Cardinality(decision.justification) = 3
                            /\ \E p \in decision.justification :
                                  /\ p.kind = "nonceLessThan"
                                  /\ p.msg \in OwnSigned(claim.by)
                                  /\ p.msg.nonce > claim.msg.nonce
      BY DEF RefutationsAreNewer
    <2> DEFINE bound == claim.msg.nonce + 1
               p == ExitClaim(claim)
               q == NothingNewer(claim.by, bound)
    <2>1. PICK m \in OwnSigned(claim.by) :
             /\ m.nonce > claim.msg.nonce
             /\ Decide(Knowledge(c), p).justification = {p, q, NonceLessThan(m, bound)}
      BY RefutedWith
    <2> DEFINE r == NonceLessThan(m, bound)
    <2>2. p.kind = "and" /\ q.kind = "forAll" /\ r.kind = "nonceLessThan" /\ r.msg = m
      BY DEF ExitClaim, And, NothingNewer, ForAllSuchThat, NonceLessThan
    <2> HIDE DEF p, q, r
    <2>3. p # q /\ p # r /\ q # r
      BY <2>2
    <2>4. Cardinality({p, q, r}) = 3
      <3>1. IsFiniteSet({p}) /\ Cardinality({p}) = 1
        BY FS_Singleton
      <3>2. q \notin {p} /\ {p} \cup {q} = {p, q} /\ r \notin {p, q}
            /\ {p, q} \cup {r} = {p, q, r}
        BY <2>3
      <3>3. IsFiniteSet({p} \cup {q}) /\ Cardinality({p} \cup {q}) = 1 + 1
        BY ONLY <3>1, <3>2, FS_AddElement
      <3>4. Cardinality({p, q} \cup {r}) = 1 + 1 + 1
        <4>1. IsFiniteSet({p, q}) /\ Cardinality({p, q}) = 1 + 1
          BY <3>2, <3>3
        <4>2. QED
          BY ONLY <3>2, <4>1, FS_AddElement
      <3>5. 1 + 1 + 1 = 3
        OBVIOUS
      <3>6. QED
        BY ONLY <3>2, <3>4, <3>5, Zenon
    <2>5. QED
      BY <2>1, <2>2, <2>4 DEF r, p
  <1>3. QED
    BY <1>1, <1>2 DEF ExitsInv

\* An exit is refuted only with what its claimant has signed after the message
\* it exits with (exitChannel, the deciders), and not at all if the claimant,
\* which has no other channel, upheld it with nothing under way: by then
\* createNewMessage and checkNewMessage sign nothing in an exited channel.  All
\* this while messages are read back as they were made.
THEOREM ExitsStand == Spec => []ExitsInv
  <1>1. Init => (Readable => UpheldShape)
    BY DEF Init, UpheldShape
  <1>2. (Readable => Inv) /\ (Readable => UpheldShape) /\ [Next]_vars
           => (Readable => UpheldShape)'
    BY NextUpheld, MishapsGrow DEF Readable
  <1>3. (Readable => Inv) /\ (Readable => UpheldShape) => ExitsInv
    BY ExitsHold DEF ExitsInv
  <1>4. QED
    BY <1>1, <1>2, <1>3, ShapesAreKept, PTL DEF Spec

-----------------------------------------------------------------------------
(***************************************************************************)
(* What clients decide is so.                                              *)
(***************************************************************************)
\* A decision says of a property no more than what is true.
Says(decision, truth) ==
    /\ decision.outcome \in {"yes", "no", "unknown"}
    /\ decision.outcome = "yes" => truth
    /\ decision.outcome = "no" => ~truth

\* A client knows signatures that were made, and all of its own.
KnowsPart(k, all) ==
    /\ k.signed \subseteq all
    /\ \A s \in all : s.by = k.me => s \in k.signed

SimpleOk(p) ==
    /\ p.kind \in Simple
    /\ p.kind = "equality" => DOMAIN p.items = {} \/ 1 \in DOMAIN p.items

QuantifiedOk(p) == p.factory.kind \in {"nonceLessThan", "signedBy", "preimage"}

\* Properties nested one deep, and two deep.
FlatOk(p) ==
    \/ SimpleOk(p)
    \/ p.kind = "not" /\ SimpleOk(p.property)
    \/ /\ p.kind \in {"and", "or"}
       /\ \A i \in DOMAIN p.properties : SimpleOk(p.properties[i])
    \/ p.kind \in {"forAll", "thereExists"} /\ QuantifiedOk(p)

NestedOk(p) ==
    \/ SimpleOk(p)
    \/ p.kind = "not" /\ FlatOk(p.property)
    \/ /\ p.kind \in {"and", "or"}
       /\ \A i \in DOMAIN p.properties : FlatOk(p.properties[i])
    \/ p.kind \in {"forAll", "thereExists"} /\ QuantifiedOk(p)

LEMMA SignedBySound ==
    ASSUME NEW k, NEW all, KnowsPart(k, all), NEW p
    PROVE  Says(DecideSignedBy(k, p), SignedMessage(p.by, p.msg) \in all)
  <1>1. SignedMessage(p.by, p.msg).by = p.by
    BY DEF SignedMessage
  <1>2. CASE SignedMessage(p.by, p.msg) \in k.signed
    BY <1>2 DEF DecideSignedBy, Decision, Says, KnowsPart
  <1>3. CASE SignedMessage(p.by, p.msg) \notin k.signed /\ p.by = k.me
    BY <1>1, <1>3 DEF DecideSignedBy, Decision, Says, KnowsPart
  <1>4. CASE SignedMessage(p.by, p.msg) \notin k.signed /\ p.by # k.me
    BY <1>4 DEF DecideSignedBy, CannotDecide, Decision, Says
  <1>5. QED
    BY <1>2, <1>3, <1>4

LEMMA SimpleSound ==
    ASSUME NEW k, NEW all, KnowsPart(k, all), NEW p, SimpleOk(p)
    PROVE  Says(DecideSimple(k, p), SimpleTruth(all, p))
  <1>1. CASE p.kind = "signedBy"
    BY <1>1, SignedBySound DEF DecideSimple, SimpleTruth
  <1>2. CASE p.kind = "nonceLessThan"
    BY <1>2 DEF DecideSimple, SimpleTruth, DecideNonceLessThan, Decision, Says
  <1>3. CASE p.kind = "preimage"
    BY <1>3 DEF DecideSimple, SimpleTruth, DecidePreimage, CannotDecide, Decision, Says
  <1>4. CASE p.kind = "equality"
    <2>1. DOMAIN p.items = {} \/ 1 \in DOMAIN p.items
      BY <1>4 DEF SimpleOk
    <2>2. DecideSimple(k, p) = DecideEquality(p)
      BY <1>4 DEF DecideSimple
    <2>3. SimpleTruth(all, p) <=> \A i, j \in DOMAIN p.items : p.items[i] = p.items[j]
      BY <1>4 DEF SimpleTruth
    <2>4. QED
      BY <2>1, <2>2, <2>3 DEF DecideEquality, Decision, Says
  <1>5. QED
    BY <1>1, <1>2, <1>3, <1>4 DEF SimpleOk, Simple

LEMMA NotSound ==
    ASSUME NEW p, NEW d, NEW truth \in BOOLEAN, Says(d, truth)
    PROVE  Says(Negated(p, d), ~truth)
  <1>1. CASE d.outcome = "yes"
    BY <1>1 DEF Says, Negated, Decision
  <1>2. CASE d.outcome = "no"
    BY <1>2 DEF Says, Negated, Decision
  <1>3. CASE d.outcome = "unknown"
    BY <1>3 DEF Says, Negated, CannotDecide, Decision
  <1>4. QED
    BY <1>1, <1>2, <1>3 DEF Says

\* Of all values, a part is decided, or all if that is complete.
LEMMA AllSound ==
    ASSUME NEW p, NEW values, NEW all, NEW holds, NEW complete \in BOOLEAN,
           NEW decisions, DOMAIN decisions = values, values \subseteq all,
           complete => values = all,
           \A v \in values : Says(decisions[v], v \in holds)
    PROVE  Says(Combined(p, decisions, complete, "no", "yes"), all \subseteq holds)
  <1> DEFINE both == Combined(p, decisions, complete, "no", "yes")
  <1>1. \A d \in Range(decisions) : \E v \in values : d = decisions[v]
    BY DEF Range
  <1>2. \A v \in values : decisions[v] \in Range(decisions)
    BY DEF Range
  <1>3. \A d \in Range(decisions) : d.outcome \in {"yes", "no", "unknown"}
    BY <1>1 DEF Says
  <1>4. /\ both.outcome \in {"yes", "no", "unknown"}
        /\ both.outcome = "no" => \E d \in Range(decisions) : d.outcome = "no"
        /\ both.outcome = "yes" => /\ \A d \in Range(decisions) : d.outcome = "yes"
                                   /\ complete
    BY <1>3, AllOf
  <1> HIDE DEF both
  <1>5. both.outcome = "no" => ~(all \subseteq holds)
    BY <1>1, <1>4 DEF Says
  <1>6. both.outcome = "yes" => all \subseteq holds
    BY <1>2, <1>4 DEF Says
  <1>7. QED
    BY <1>4, <1>5, <1>6 DEF Says, both

LEMMA AnySound ==
    ASSUME NEW p, NEW values, NEW all, NEW holds, NEW complete \in BOOLEAN,
           NEW decisions, DOMAIN decisions = values, values \subseteq all,
           complete => values = all,
           \A v \in values : Says(decisions[v], v \in holds)
    PROVE  Says(Combined(p, decisions, complete, "yes", "no"), all \cap holds # {})
  <1> DEFINE both == Combined(p, decisions, complete, "yes", "no")
  <1>1. \A d \in Range(decisions) : \E v \in values : d = decisions[v]
    BY DEF Range
  <1>2. \A v \in values : decisions[v] \in Range(decisions)
    BY DEF Range
  <1>3. \A d \in Range(decisions) : d.outcome \in {"yes", "no", "unknown"}
    BY <1>1 DEF Says
  <1>4. /\ both.outcome \in {"yes", "no", "unknown"}
        /\ both.outcome = "yes" => \E d \in Range(decisions) : d.outcome = "yes"
        /\ both.outcome = "no" => /\ \A d \in Range(decisions) : d.outcome = "no"
                                  /\ complete
    BY <1>3, AnyOf
  <1> HIDE DEF both
  <1>5. both.outcome = "yes" => all \cap holds # {}
    BY <1>1, <1>4 DEF Says
  <1>6. both.outcome = "no" => all \cap holds = {}
    BY <1>2, <1>4 DEF Says
  <1>7. QED
    BY <1>4, <1>5, <1>6 DEF Says, both

LEMMA QuantifiedPart ==
    ASSUME NEW k, NEW all, KnowsPart(k, all), NEW q
    PROVE  /\ Quantified(k.signed, q) \subseteq Quantified(all, q)
           /\ AllResultsQuantified(k.me, q) \in BOOLEAN
           /\ AllResultsQuantified(k.me, q) =>
                 Quantified(k.signed, q) = Quantified(all, q)
  <1>1. CASE q.kind = "integers"
    BY <1>1 DEF Quantified, AllResultsQuantified
  <1>2. CASE q.kind # "integers"
    BY <1>2 DEF Quantified, AllResultsQuantified, KnowsPart
  <1>3. QED
    BY <1>1, <1>2

LEMMA InstanceOk ==
    ASSUME NEW p, QuantifiedOk(p), NEW v
    PROVE  SimpleOk(Instance(p.factory, v))
  BY DEF QuantifiedOk, Instance, SimpleOk, Simple, NonceLessThan, SignedBy,
         PreimageExists

\* A quantified property, its values decided by DecideSimple.
LEMMA QuantifierSound ==
    ASSUME NEW k, NEW all, KnowsPart(k, all), NEW p, QuantifiedOk(p)
    PROVE  LET decisions == [v \in Quantified(k.signed, p.quantifier) |->
                                DecideSimple(k, Instance(p.factory, v))]
               complete == AllResultsQuantified(k.me, p.quantifier)
           IN  /\ Says(DecideForAll(p, decisions, complete),
                       \A v \in Quantified(all, p.quantifier) :
                          SimpleTruth(all, Instance(p.factory, v)))
               /\ Says(DecideThereExists(p, decisions, complete),
                       \E v \in Quantified(all, p.quantifier) :
                          SimpleTruth(all, Instance(p.factory, v)))
  <1> DEFINE values == Quantified(k.signed, p.quantifier)
             wide == Quantified(all, p.quantifier)
             decisions == [v \in values |-> DecideSimple(k, Instance(p.factory, v))]
             complete == AllResultsQuantified(k.me, p.quantifier)
             holds == {v \in wide : SimpleTruth(all, Instance(p.factory, v))}
  <1>1. /\ values \subseteq wide /\ complete \in BOOLEAN
        /\ complete => values = wide
    BY QuantifiedPart
  <1>2. DOMAIN decisions = values
    OBVIOUS
  <1>3. ASSUME NEW v \in values PROVE Says(decisions[v], v \in holds)
    <2>1. decisions[v] = DecideSimple(k, Instance(p.factory, v))
      OBVIOUS
    <2>2. Says(DecideSimple(k, Instance(p.factory, v)),
               SimpleTruth(all, Instance(p.factory, v)))
      BY InstanceOk, SimpleSound
    <2>3. v \in holds <=> SimpleTruth(all, Instance(p.factory, v))
      BY <1>1
    <2> HIDE DEF decisions, holds
    <2>4. QED
      BY <2>1, <2>2, <2>3 DEF Says
  <1>4. /\ wide \subseteq holds <=>
              \A v \in wide : SimpleTruth(all, Instance(p.factory, v))
        /\ wide \cap holds # {} <=>
              \E v \in wide : SimpleTruth(all, Instance(p.factory, v))
    OBVIOUS
  <1> HIDE DEF values, wide, decisions, complete, holds
  <1>5. Says(Combined(p, decisions, complete, "no", "yes"), wide \subseteq holds)
    BY ZenonT(40), <1>1, <1>2, <1>3, AllSound
  <1>6. Says(Combined(p, decisions, complete, "yes", "no"), wide \cap holds # {})
    BY ZenonT(40), <1>1, <1>2, <1>3, AnySound
  <1>7. Says(DecideForAll(p, decisions, complete),
             \A v \in wide : SimpleTruth(all, Instance(p.factory, v)))
    BY <1>4, <1>5 DEF DecideForAll, Says
  <1>8. Says(DecideThereExists(p, decisions, complete),
             \E v \in wide : SimpleTruth(all, Instance(p.factory, v)))
    BY <1>4, <1>6 DEF DecideThereExists, Says
  <1>9. QED
    BY <1>7, <1>8 DEF values, wide, decisions, complete

\* Properties decided together.
LEMMA TogetherSound ==
    ASSUME NEW p, NEW decisions, NEW holds,
           \A i \in DOMAIN decisions : Says(decisions[i], i \in holds)
    PROVE  /\ Says(DecideAnd(p, decisions), \A i \in DOMAIN decisions : i \in holds)
           /\ Says(DecideOr(p, decisions), \E i \in DOMAIN decisions : i \in holds)
  <1> DEFINE indices == DOMAIN decisions
  <1>1. Says(Combined(p, decisions, TRUE, "no", "yes"), indices \subseteq holds)
    BY AllSound
  <1>2. Says(Combined(p, decisions, TRUE, "yes", "no"), indices \cap holds # {})
    BY AnySound
  <1>3. /\ indices \subseteq holds <=> \A i \in indices : i \in holds
        /\ indices \cap holds # {} <=> \E i \in indices : i \in holds
    OBVIOUS
  <1> HIDE DEF indices
  <1>4. /\ Says(DecideAnd(p, decisions), \A i \in indices : i \in holds)
        /\ Says(DecideOr(p, decisions), \E i \in indices : i \in holds)
    BY <1>1, <1>2, <1>3 DEF DecideAnd, DecideOr, Says
  <1>5. QED
    BY <1>4 DEF indices

LEMMA FlatSound ==
    ASSUME NEW k, NEW all, KnowsPart(k, all), NEW p, FlatOk(p)
    PROVE  Says(DecideFlat(k, p), FlatTruth(all, p))
  <1>1. CASE SimpleOk(p)
    <2>1. DecideFlat(k, p) = DecideSimple(k, p)
      BY <1>1 DEF SimpleOk, DecideFlat
    <2>2. FlatTruth(all, p) <=> SimpleTruth(all, p)
      BY <1>1 DEF SimpleOk, FlatTruth
    <2>3. Says(DecideSimple(k, p), SimpleTruth(all, p))
      BY <1>1, SimpleSound
    <2>4. QED
      BY <2>1, <2>2, <2>3 DEF Says
  <1>2. CASE p.kind = "not" /\ SimpleOk(p.property)
    <2>1. DecideFlat(k, p) = Negated(p, DecideSimple(k, p.property))
      BY <1>2 DEF DecideFlat, DecideCompound, Simple
    <2>2. FlatTruth(all, p) <=> ~SimpleTruth(all, p.property)
      BY <1>2 DEF FlatTruth, CompoundTruth, Simple
    <2>3. Says(DecideSimple(k, p.property), SimpleTruth(all, p.property))
      BY <1>2, SimpleSound
    <2>4. PICK truth \in BOOLEAN : truth <=> SimpleTruth(all, p.property)
      OBVIOUS
    <2>5. Says(DecideSimple(k, p.property), truth)
      BY <2>3, <2>4 DEF Says
    <2>6. Says(Negated(p, DecideSimple(k, p.property)), ~truth)
      BY <2>5, NotSound
    <2>7. QED
      BY <2>1, <2>2, <2>4, <2>6 DEF Says
  <1>3. CASE /\ p.kind \in {"and", "or"}
             /\ \A i \in DOMAIN p.properties : SimpleOk(p.properties[i])
    <2> DEFINE indices == DOMAIN p.properties
               decisions == [i \in indices |-> DecideSimple(k, p.properties[i])]
               holds == {i \in indices : SimpleTruth(all, p.properties[i])}
    <2>1. DOMAIN decisions = indices
      OBVIOUS
    <2>2. ASSUME NEW i \in indices PROVE Says(decisions[i], i \in holds)
      <3>1. Says(DecideSimple(k, p.properties[i]), SimpleTruth(all, p.properties[i]))
        BY <1>3, SimpleSound
      <3>2. decisions[i] = DecideSimple(k, p.properties[i])
        OBVIOUS
      <3>3. i \in holds <=> SimpleTruth(all, p.properties[i])
        OBVIOUS
      <3> HIDE DEF decisions, holds
      <3>4. QED
        BY <3>1, <3>2, <3>3 DEF Says
    <2>3. CASE p.kind = "and"
      <3>1. DecideFlat(k, p) = DecideAnd(p, decisions)
        BY <2>3 DEF DecideFlat, DecideCompound, Simple
      <3>2. FlatTruth(all, p) <=> \A i \in indices : i \in holds
        BY <2>3 DEF FlatTruth, CompoundTruth, Simple
      <3> HIDE DEF decisions, holds, indices
      <3>3. Says(DecideAnd(p, decisions), \A i \in indices : i \in holds)
        BY <2>1, <2>2, TogetherSound
      <3>4. QED
        BY <3>1, <3>2, <3>3 DEF Says
    <2>4. CASE p.kind = "or"
      <3>1. DecideFlat(k, p) = DecideOr(p, decisions)
        BY <2>4 DEF DecideFlat, DecideCompound, Simple
      <3>2. FlatTruth(all, p) <=> \E i \in indices : i \in holds
        BY <2>4 DEF FlatTruth, CompoundTruth, Simple
      <3> HIDE DEF decisions, holds, indices
      <3>3. Says(DecideOr(p, decisions), \E i \in indices : i \in holds)
        BY <2>1, <2>2, TogetherSound
      <3>4. QED
        BY <3>1, <3>2, <3>3 DEF Says
    <2>5. QED
      BY <1>3, <2>3, <2>4
  <1>4. CASE p.kind \in {"forAll", "thereExists"} /\ QuantifiedOk(p)
    <2> DEFINE values == Quantified(k.signed, p.quantifier)
               decisions == [v \in values |-> DecideSimple(k, Instance(p.factory, v))]
               complete == AllResultsQuantified(k.me, p.quantifier)
               wide == Quantified(all, p.quantifier)
    <2>1. /\ Says(DecideForAll(p, decisions, complete),
                  \A v \in wide : SimpleTruth(all, Instance(p.factory, v)))
          /\ Says(DecideThereExists(p, decisions, complete),
                  \E v \in wide : SimpleTruth(all, Instance(p.factory, v)))
      BY <1>4, QuantifierSound
    <2>2. CASE p.kind = "forAll"
      <3>1. DecideFlat(k, p) = DecideForAll(p, decisions, complete)
        BY <2>2 DEF DecideFlat, DecideCompound, Simple
      <3>2. FlatTruth(all, p) <=> \A v \in wide : SimpleTruth(all, Instance(p.factory, v))
        BY <2>2 DEF FlatTruth, CompoundTruth, Simple
      <3> HIDE DEF decisions, complete, wide, values
      <3>3. QED
        BY <2>1, <3>1, <3>2 DEF Says
    <2>3. CASE p.kind = "thereExists"
      <3>1. DecideFlat(k, p) = DecideThereExists(p, decisions, complete)
        BY <2>3 DEF DecideFlat, DecideCompound, Simple
      <3>2. FlatTruth(all, p) <=> \E v \in wide : SimpleTruth(all, Instance(p.factory, v))
        BY <2>3 DEF FlatTruth, CompoundTruth, Simple
      <3> HIDE DEF decisions, complete, wide, values
      <3>3. QED
        BY <2>1, <3>1, <3>2 DEF Says
    <2>4. QED
      BY <1>4, <2>2, <2>3
  <1>5. QED
    BY <1>1, <1>2, <1>3, <1>4 DEF FlatOk

LEMMA NestedSound ==
    ASSUME NEW k, NEW all, KnowsPart(k, all), NEW p, NestedOk(p)
    PROVE  Says(Decide(k, p), Truth(all, p))
  <1>1. CASE SimpleOk(p)
    <2>1. Decide(k, p) = DecideSimple(k, p)
      BY <1>1 DEF SimpleOk, Decide
    <2>2. Truth(all, p) <=> SimpleTruth(all, p)
      BY <1>1 DEF SimpleOk, Truth
    <2>3. Says(DecideSimple(k, p), SimpleTruth(all, p))
      BY <1>1, SimpleSound
    <2>4. QED
      BY <2>1, <2>2, <2>3 DEF Says
  <1>2. CASE p.kind = "not" /\ FlatOk(p.property)
    <2>1. Decide(k, p) = Negated(p, DecideFlat(k, p.property))
      BY <1>2 DEF Decide, DecideCompound, Simple
    <2>2. Truth(all, p) <=> ~FlatTruth(all, p.property)
      BY <1>2 DEF Truth, CompoundTruth, Simple
    <2>3. Says(DecideFlat(k, p.property), FlatTruth(all, p.property))
      BY <1>2, FlatSound
    <2>4. PICK truth \in BOOLEAN : truth <=> FlatTruth(all, p.property)
      OBVIOUS
    <2>5. Says(DecideFlat(k, p.property), truth)
      BY <2>3, <2>4 DEF Says
    <2>6. Says(Negated(p, DecideFlat(k, p.property)), ~truth)
      BY <2>5, NotSound
    <2>7. QED
      BY <2>1, <2>2, <2>4, <2>6 DEF Says
  <1>3. CASE /\ p.kind \in {"and", "or"}
             /\ \A i \in DOMAIN p.properties : FlatOk(p.properties[i])
    <2> DEFINE indices == DOMAIN p.properties
               decisions == [i \in indices |-> DecideFlat(k, p.properties[i])]
               holds == {i \in indices : FlatTruth(all, p.properties[i])}
    <2>1. DOMAIN decisions = indices
      OBVIOUS
    <2>2. ASSUME NEW i \in indices PROVE Says(decisions[i], i \in holds)
      <3>1. Says(DecideFlat(k, p.properties[i]), FlatTruth(all, p.properties[i]))
        BY <1>3, FlatSound
      <3>2. decisions[i] = DecideFlat(k, p.properties[i])
        OBVIOUS
      <3>3. i \in holds <=> FlatTruth(all, p.properties[i])
        OBVIOUS
      <3> HIDE DEF decisions, holds
      <3>4. QED
        BY <3>1, <3>2, <3>3 DEF Says
    <2>3. CASE p.kind = "and"
      <3>1. Decide(k, p) = DecideAnd(p, decisions)
        BY <2>3 DEF Decide, DecideCompound, Simple
      <3>2. Truth(all, p) <=> \A i \in indices : i \in holds
        BY <2>3 DEF Truth, CompoundTruth, Simple
      <3> HIDE DEF decisions, holds, indices
      <3>3. Says(DecideAnd(p, decisions), \A i \in indices : i \in holds)
        BY <2>1, <2>2, TogetherSound
      <3>4. QED
        BY <3>1, <3>2, <3>3 DEF Says
    <2>4. CASE p.kind = "or"
      <3>1. Decide(k, p) = DecideOr(p, decisions)
        BY <2>4 DEF Decide, DecideCompound, Simple
      <3>2. Truth(all, p) <=> \E i \in indices : i \in holds
        BY <2>4 DEF Truth, CompoundTruth, Simple
      <3> HIDE DEF decisions, holds, indices
      <3>3. Says(DecideOr(p, decisions), \E i \in indices : i \in holds)
        BY <2>1, <2>2, TogetherSound
      <3>4. QED
        BY <3>1, <3>2, <3>3 DEF Says
    <2>5. QED
      BY <1>3, <2>3, <2>4
  <1>4. CASE p.kind \in {"forAll", "thereExists"} /\ QuantifiedOk(p)
    <2> DEFINE values == Quantified(k.signed, p.quantifier)
               decisions == [v \in values |-> DecideSimple(k, Instance(p.factory, v))]
               complete == AllResultsQuantified(k.me, p.quantifier)
               wide == Quantified(all, p.quantifier)
    <2>1. /\ Says(DecideForAll(p, decisions, complete),
                  \A v \in wide : SimpleTruth(all, Instance(p.factory, v)))
          /\ Says(DecideThereExists(p, decisions, complete),
                  \E v \in wide : SimpleTruth(all, Instance(p.factory, v)))
      BY <1>4, QuantifierSound
    <2>5. \A v : /\ DecideFlat(k, Instance(p.factory, v))
                          = DecideSimple(k, Instance(p.factory, v))
                 /\ FlatTruth(all, Instance(p.factory, v))
                       <=> SimpleTruth(all, Instance(p.factory, v))
      BY <1>4, InstanceOk DEF SimpleOk, DecideFlat, FlatTruth
    <2>2. CASE p.kind = "forAll"
      <3>1. Decide(k, p) = DecideForAll(p, decisions, complete)
        BY <2>2, <2>5 DEF Decide, DecideCompound, Simple
      <3>2. Truth(all, p) <=> \A v \in wide : SimpleTruth(all, Instance(p.factory, v))
        BY <2>2, <2>5 DEF Truth, CompoundTruth, Simple
      <3> HIDE DEF decisions, complete, wide, values
      <3>3. QED
        BY <2>1, <3>1, <3>2 DEF Says
    <2>3. CASE p.kind = "thereExists"
      <3>1. Decide(k, p) = DecideThereExists(p, decisions, complete)
        BY <2>3, <2>5 DEF Decide, DecideCompound, Simple
      <3>2. Truth(all, p) <=> \E v \in wide : SimpleTruth(all, Instance(p.factory, v))
        BY <2>3, <2>5 DEF Truth, CompoundTruth, Simple
      <3> HIDE DEF decisions, complete, wide, values
      <3>3. QED
        BY <2>1, <3>1, <3>2 DEF Says
    <2>4. QED
      BY <1>4, <2>2, <2>3
  <1>5. QED
    BY <1>1, <1>2, <1>3, <1>4 DEF NestedOk

LEMMA TruthIsBoolean ==
    ASSUME NEW all, NEW p, NestedOk(p)
    PROVE  Truth(all, p) \in BOOLEAN
  <1>1. CASE SimpleOk(p)
    <2>1. SimpleTruth(all, p) \in BOOLEAN
      <3>1. CASE p.kind = "signedBy"
        BY <3>1 DEF SimpleTruth
      <3>2. CASE p.kind = "nonceLessThan"
        BY <3>2 DEF SimpleTruth
      <3>3. CASE p.kind = "preimage"
        BY <3>3 DEF SimpleTruth
      <3>4. CASE p.kind = "equality"
        BY <3>4 DEF SimpleTruth
      <3>5. QED
        BY <1>1, <3>1, <3>2, <3>3, <3>4 DEF SimpleOk, Simple
    <2>2. QED
      BY <1>1, <2>1 DEF SimpleOk, Truth
  <1>2. CASE p.kind = "not"
    BY <1>2 DEF Truth, CompoundTruth, Simple
  <1>3. CASE p.kind = "and"
    BY <1>3 DEF Truth, CompoundTruth, Simple
  <1>4. CASE p.kind = "or"
    BY <1>4 DEF Truth, CompoundTruth, Simple
  <1>5. CASE p.kind = "forAll"
    BY <1>5 DEF Truth, CompoundTruth, Simple
  <1>6. CASE p.kind = "thereExists"
    BY <1>6 DEF Truth, CompoundTruth, Simple
  <1>7. QED
    BY <1>1, <1>2, <1>3, <1>4, <1>5, <1>6 DEF NestedOk

LEMMA SomePropertiesOk == ASSUME NEW p \in SomeProperties PROVE NestedOk(p)
  <1> DEFINE older == [kind |-> "nonceLessThan", bound |-> 2]
             signedBy(x) == [kind |-> "signedBy", by |-> x]
             preimage == [kind |-> "preimage"]
             other(x) == CHOOSE y \in Clients : y # x
             some(x) ==
               {ForAllSuchThat(MessagesSignedBy(x, AnyChannel), older),
                Not(ThereExistsSuchThat(MessagesSignedBy(x, 1),
                                        signedBy(other(x)))),
                Or(<<ThereExistsSuchThat(NonnegativeIntegerLessThan(3), preimage),
                     ForAllSuchThat(MessagesSignedBy(x, 1), older)>>),
                And(<<ForAllSuchThat(MessagesSignedBy(x, 1), signedBy(other(x))),
                      Not(Equality(<<x, other(x)>>))>>)}
  <1>1. PICK x \in Clients : p \in some(x)
    <2>1. SomeProperties = UNION {some(x) : x \in Clients}
      BY DEF SomeProperties
    <2> HIDE DEF some
    <2>2. QED
      BY <2>1
  <1>2. /\ older.kind = "nonceLessThan" /\ preimage.kind = "preimage"
        /\ signedBy(other(x)).kind = "signedBy"
    OBVIOUS
  <1> HIDE DEF older, signedBy, preimage, other
  <1> DEFINE y == other(x)
             f == older
             g == signedBy(y)
             h == preimage
  <1>3. /\ f.kind = "nonceLessThan" /\ g.kind = "signedBy" /\ h.kind = "preimage"
        /\ p \in {ForAllSuchThat(MessagesSignedBy(x, AnyChannel), f),
                  Not(ThereExistsSuchThat(MessagesSignedBy(x, 1), g)),
                  Or(<<ThereExistsSuchThat(NonnegativeIntegerLessThan(3), h),
                       ForAllSuchThat(MessagesSignedBy(x, 1), f)>>),
                  And(<<ForAllSuchThat(MessagesSignedBy(x, 1), g),
                        Not(Equality(<<x, y>>))>>)}
    BY <1>1, <1>2
  <1> HIDE DEF y, f, g, h
  <1>4. \A q : /\ FlatOk(ForAllSuchThat(q, f)) /\ NestedOk(ForAllSuchThat(q, f))
               /\ FlatOk(ForAllSuchThat(q, g))
               /\ FlatOk(ThereExistsSuchThat(q, g)) /\ FlatOk(ThereExistsSuchThat(q, h))
    BY <1>3 DEF FlatOk, NestedOk, QuantifiedOk, ForAllSuchThat, ThereExistsSuchThat
  <1>5. FlatOk(Not(Equality(<<x, y>>)))
    <2>1. Equality(<<x, y>>).kind = "equality" /\ 1 \in DOMAIN Equality(<<x, y>>).items
      BY DEF Equality
    <2>2. SimpleOk(Equality(<<x, y>>))
      BY <2>1 DEF SimpleOk, Simple
    <2>3. QED
      BY <2>2 DEF FlatOk, Not
  <1>6. CASE p = ForAllSuchThat(MessagesSignedBy(x, AnyChannel), f)
    BY <1>4, <1>6
  <1>7. CASE p = Not(ThereExistsSuchThat(MessagesSignedBy(x, 1), g))
    BY <1>4, <1>7 DEF NestedOk, Not
  <1>8. ASSUME NEW a, NEW b, FlatOk(a), FlatOk(b), p \in {And(<<a, b>>), Or(<<a, b>>)}
        PROVE  NestedOk(p)
    <2>1. /\ p.kind \in {"and", "or"} /\ p.properties = <<a, b>>
      BY <1>8 DEF And, Or
    <2>2. \A i \in DOMAIN <<a, b>> : FlatOk(<<a, b>>[i])
      BY <1>8
    <2>3. QED
      BY <2>1, <2>2 DEF NestedOk
  <1>9. QED
    BY <1>3, <1>4, <1>5, <1>6, <1>7, <1>8

LEMMA DecisionsHold == ASSUME Inv PROVE DecisionsAreSound
  <1> SUFFICES ASSUME NEW c \in Clients, NEW p \in SomeProperties,
                      Decide(Knowledge(c), p).outcome # "unknown"
               PROVE  (Decide(Knowledge(c), p).outcome = "yes") = Truth(AllSigned, p)
    BY DEF DecisionsAreSound
  <1>1. Knowledge(c).me = c /\ Knowledge(c).signed = signed[c]
    BY DEF Knowledge
  <1>2. \A d \in Clients : \A s \in signed[d] :
           /\ s.by \in Clients /\ s = SignedMessage(s.by, s.msg)
           /\ s.msg \in OwnSigned(s.by)
    <2> SUFFICES ASSUME NEW d \in Clients, NEW s \in signed[d]
                 PROVE  /\ s.by \in Clients /\ s = SignedMessage(s.by, s.msg)
                        /\ s.msg \in OwnSigned(s.by)
      OBVIOUS
    <2>1. s \in [by : Clients, msg : Messages]
      BY DEF Inv, DbType
    <2>2. s \in signed[s.by]
      BY DEF Inv, Shapes, SignedShape
    <2>3. QED
      BY <2>1, <2>2 DEF SignedMessage, OwnSigned
  <1>3. signed[c] \subseteq AllSigned
    BY <1>2 DEF AllSigned
  <1>4. ASSUME NEW s \in AllSigned, s.by = c PROVE s \in signed[c]
    <2>1. PICK d \in Clients, m \in UNION {OwnSigned(e) : e \in Clients} :
             s = SignedMessage(d, m) /\ m \in OwnSigned(d)
      BY DEF AllSigned
    <2>2. d = c
      BY <1>4, <2>1 DEF SignedMessage
    <2>3. PICK r \in signed[c] : r.by = c /\ r.msg = m
      BY <2>1, <2>2 DEF OwnSigned
    <2>4. r = s
      BY <1>2, <2>1, <2>2, <2>3
    <2>5. QED
      BY <2>4
  <1>5. KnowsPart(Knowledge(c), AllSigned)
    BY <1>1, <1>3, <1>4 DEF KnowsPart
  <1>6. NestedOk(p)
    BY SomePropertiesOk
  <1>7. Says(Decide(Knowledge(c), p), Truth(AllSigned, p))
    BY <1>5, <1>6, NestedSound
  <1>8. Truth(AllSigned, p) \in BOOLEAN
    BY <1>6, TruthIsBoolean
  <1>9. QED
    BY <1>7, <1>8 DEF Says

\* What a client decides from the signatures and preimages it knows is so,
\* given all that was ever signed: AndDecider, OrDecider, NotDecider,
\* ForAllSuchThatDecider and ThereExistsSuchThatDecider leave open what depends
\* on signatures that it may not know of.
THEOREM DecisionsStand == Spec => []DecisionsAreSound
  <1>1. (Readable => Inv) => DecisionsAreSound
    BY DecisionsHold DEF DecisionsAreSound
  <1>2. QED
    BY <1>1, ShapesAreKept, PTL

=============================================================================
